CONSTANTS
    Uids = {1, 2}
    Kinds = {"section", "paragraph"}
    Labels = {l1}
    Texts = {t1, t2}
    NoLabel = NoLabel
    Root = 0
    MaxOperations = 2
SPECIFICATION PatchSpec
INVARIANT LabelsStayUnique
