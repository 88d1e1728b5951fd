CONSTANTS
    Generators = {g1}
    Commits = {c1}
    Edits = {e1}
    SigningKeys = {k1}
    Anchor = Nil
    Profiles = {"cert"}
    LastSecond = 0
    MaxBundles = 1
    SerialRuns = TRUE
    Nil = Nil
    Torn = Torn
SYMMETRY Symmetry
SPECIFICATION BundleSpec
INVARIANTS
    AcknowledgedInputsAreTheCommit
