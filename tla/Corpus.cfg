CONSTANTS
    Requirements = {r1}
    Patches = {p1}
    ReviewUids = {u1, u2, u3}
    Reviewers = {alice, bob}
    Digests = {d1, d2}
    Tests = {}
    OwnClaims = {modules}
    Absent = Absent
    None = None
    Agents = {a1, a2}
    ProposalUids = {q1}
    CandidateUids = {c1}
    Uids = {1, 2, 3}
    Kinds = {"section", "paragraph"}
    Labels = {l1}
    Texts = {t1}
    NoLabel = NoLabel
    Root = 0
    MaxOperations = 2
SYMMETRY Symmetric
SPECIFICATION Spec
INVARIANTS
    TypeOK
    DecisionsNeverVanish
    OnlyTheObjectorLiftsARejection
    WalkFindsTheCycles
    PassedBoundaryIsUncontested
    ReturnedIsDurable
    RevisionsTargetCandidates
    ResultReadsInOneOrder
    NoImplicitCascade
PROPERTIES
    ReviewsAreLocal
    EditsInheritNoDecision
    ImplementsWriteOnce
