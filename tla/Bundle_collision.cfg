CONSTANTS
    Generators = {g1, g2}
    Commits = {c1}
    Edits = {}
    SigningKeys = {}
    Anchor = Nil
    Profiles = {"dev"}
    LastSecond = 0
    MaxBundles = 1
    SerialRuns = FALSE
    Nil = Nil
    Torn = Torn
SYMMETRY Symmetry
SPECIFICATION BundleSpec
INVARIANTS
    AcknowledgedIsFinal
