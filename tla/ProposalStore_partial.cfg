CONSTANTS
    Requirements = {r1}
    Patches = {}
    ReviewUids = {}
    Reviewers = {alice}
    Digests = {d1}
    Tests = {}
    OwnClaims = {}
    Absent = Absent
    None = None
    Agents = {a1, a2}
    ProposalUids = {q1, q2}
    CandidateUids = {c1}
SPECIFICATION StoreSpec
INVARIANTS
    PartialFailsClosed
