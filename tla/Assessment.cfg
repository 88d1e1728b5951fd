CONSTANTS
    Generators = {g1}
    Commits = {c1, c2}
    Edits = {}
    SigningKeys = {own, other}
    Anchor = own
    Profiles = {"dev", "cert"}
    LastSecond = 1
    MaxBundles = 1
    SerialRuns = TRUE
    Keys = {k1, k2, k3}
    Nil = Nil
    Torn = Torn
    LastEdit = 1
    s1 = s1
    h1 = h1
    l1 = l1
    l2 = l2
    t1 = t1
    t2 = t2
    p1 = p1
    p2 = p2
    Roots <- TwoRoots
    Placeholders = {p1, p2}
    KnownSurfaces = {"verify"}
    Unreadable = Unreadable
    NoValue = NoValue
    MaxDraws = 3
    Fns <- TestFns
    Written <- TestFns
    Crates = {"app", "lib"}
    Absent = Absent
    Garbled = Garbled
    Malformed = Malformed
    Targets <- FiveTargets
    Tests <- FiveTests
    Groups = {1, 2}
    NoCapture = NoCapture
SPECIFICATION Spec
SYMMETRY Symmetric
CHECK_DEADLOCK FALSE
INVARIANTS
    VerificationStateIsTrue
    SignaturesCoverWhatIsThere
    AcknowledgedIsReleasable
    AcknowledgedIsFinal
    AcknowledgedVerdictIsHonest
    MismatchMeansAFailedKeygen
    GeneratedVerifies
    FormatsAgree
    LinksSurviveBackfill
    PassIsEarned
    GatesAgree
    LossIsNoticed
    CapturesAgree
    ComparisonsAgree
    ContentHashSettles
PROPERTIES
    ChainOfCustody
