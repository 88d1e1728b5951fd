CONSTANTS
    Sources = {s1}
    Documents = {A}
    Modes = {"vendored", "unavailable"}
    Digests = {x}
    None = None
    Uids = {1, 2}
    Kinds = {"section"}
    Labels = {"1 A"}
    Texts = {"a"}
    NoLabel = "none"
    Root = 0
    MaxOperations = 1
    Numbered = {"1 A"}
    Locators <- OneChange
    MaxDrift = 0
    MaxBlocks = 2
    HeadingLevels = {1, 2}
    FootnoteIds <- OneFootnote
    ExplicitIds <- SecondSlug
    HeadingIds <- SecondSlug
    Spans <- CellSpans
    MaxTexts = 1
    MaxRows = 1
    MaxCells = 1
    Layouts <- PageLayouts
    HeaderBottom = 1
    FooterTop = 4
    ColumnSplit = 1
    NotePrefixes = {"NOTE"}
    CaptionPrefixes = {"Figure"}
    Numbering <- Depths
    MaxHeadingDepth = 2
    PageHeight = 5
    MaxPageBlocks = 1
    MaxPages = 1
SPECIFICATION Spec
INVARIANT NothingIsDroppedSilently
