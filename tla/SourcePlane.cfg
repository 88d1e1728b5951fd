CONSTANTS
    Sources = {s1, s2, s3}
    Documents = {A, B}
    Modes = {"vendored", "unavailable"}
    Digests = {x, y}
    None = None
    Uids = {1, 2, 3}
    Kinds = {"section", "paragraph"}
    Labels = {"1 A"}
    Texts = {"a", "b"}
    NoLabel = "none"
    Root = 0
    MaxOperations = 1
    Numbered = {"1 A"}
    Locators <- OneChange
    MaxDrift = 2
    MaxBlocks = 3
    HeadingLevels = {1, 2}
    FootnoteIds <- OneFootnote
    ExplicitIds <- SecondSlug
    HeadingIds <- SecondSlug
    Spans <- CellSpans
    MaxTexts = 2
    MaxRows = 2
    MaxCells = 1
    Layouts <- PageLayouts
    HeaderBottom = 1
    FooterTop = 4
    ColumnSplit = 1
    NotePrefixes = {"NOTE"}
    CaptionPrefixes = {"Figure"}
    Numbering <- Depths
    MaxHeadingDepth = 2
    PageHeight = 5
    MaxPageBlocks = 2
    MaxPages = 2
SYMMETRY Symmetric
SPECIFICATION Spec
INVARIANTS
    HeadsOnlyAdvance
    VerifiedIsThePresentHead
    EqualMeansIdentical
    EffectiveIsOnePatch
    EveryTextIsKeptOnce
    IngestedGraphsAreValid
