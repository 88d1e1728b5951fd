------------------------------ MODULE PdfIngest ------------------------------
(***************************************************************************)
(* The PDF adapter (corpus/ingest/pdf): the layout the extractor prints    *)
(* in, candidate nodes out.  The blocks of a page arrive in any order and  *)
(* are projected in reading order.                                         *)
(*                                                                         *)
(* A line is its vertical extent, its first word and the number of its     *)
(* words; a block has one column for all its horizontal extents.  Printed  *)
(* page labels, which only reach locators, are left out.                   *)
(***************************************************************************)
EXTENDS Adapter

CONSTANTS
    Layouts,                    \* blocks: [column, top, aligned, lines]
    HeaderBottom, FooterTop,    \* of the recipe; y grows downwards
    ColumnSplit,                \* the first column right of the split
    NotePrefixes, CaptionPrefixes,
    Numbering,                  \* the depth of the first words that are dotted numbers
    MaxHeadingDepth,
    PageHeight,
    MaxPageBlocks, MaxPages     \* bounds on a page and on the document

ASSUME LinesAreSequences ==
    \A block \in Layouts : Len(block.lines) \in Nat /\ DOMAIN block.lines = 1..Len(block.lines)

VARIABLES
    page,               \* the blocks of this page still to be projected
    pages               \* how many pages were begun

pdfVars == <<adapterVars, page, pages>>

-----------------------------------------------------------------------------
(* Reading the layout.                                                     *)

\* coordinates: no box is reversed or reaches out of the page.
WellFormed(block) ==
    \A i \in DOMAIN block.lines :
        LET line == block.lines[i]
        IN 0 <= line.yMin /\ line.yMin <= line.yMax /\ line.yMax <= PageHeight

\* reading_key: left of the split first, then from the top, then from the left.
ReadBefore(a, b) ==
    LET band(block) == IF block.column >= ColumnSplit THEN 1 ELSE 0
    IN \/ band(a) < band(b)
       \/ /\ band(a) = band(b)
          /\ a.top < b.top \/ (a.top = b.top /\ a.column < b.column)

FirstToRead(i) == \A j \in DOMAIN page \ {i} : ~ReadBefore(page[j], page[i]) /\
                                               (ReadBefore(page[i], page[j]) \/ i < j)

InHeader(line) == line.yMax <= HeaderBottom
InFooter(line) == line.yMin >= FooterTop

Excluded(block) == {i \in DOMAIN block.lines : InHeader(block.lines[i]) \/ InFooter(block.lines[i])}
Retained(block) == (DOMAIN block.lines) \ Excluded(block)

FirstWord(block) ==
    block.lines[CHOOSE i \in Retained(block) : \A j \in Retained(block) : i <= j].first

\* Two wide lines whose words are aligned.
TableShaped(block) ==
    block.aligned /\ Cardinality({i \in Retained(block) : block.lines[i].words >= 3}) > 1

-----------------------------------------------------------------------------
(* The pages, and one action for each way a block is projected.            *)

BeginPage ==
    /\ ~ingested /\ page = <<>>
    /\ pages < MaxPages /\ pages' = pages + 1
    /\ \E n \in 1..MaxPageBlocks : \E layout \in [1..n -> {b \in Layouts : WellFormed(b)}] :
            page' = layout
    /\ UNCHANGED adapterVars

TextNumber(i) == texts + i

\* block_text: the lines that are kept, by their place in the block.
TextOf(block) == [i \in Retained(block) |-> TextNumber(i)]

\* project_block, up to the choice of a kind.
Take(block, lost) ==
    \E i \in DOMAIN page :
        /\ ~ingested
        /\ page[i] = block /\ FirstToRead(i)
        /\ page' = [j \in 1..Len(page) - 1 |-> IF j < i THEN page[j] ELSE page[j + 1]]
        /\ texts' = texts + Len(block.lines)
        /\ diagnostics' = diagnostics \cup lost
                            \cup {<<"dropped", TextNumber(j)>> : j \in Excluded(block)}
        /\ UNCHANGED <<opened, blocks, usedAnchors, ingested, pages>>

EmitBlock(parent, kind, label, block) ==
    /\ candidates' = Append(candidates,
            [Node(nextProvisional + 1, parent, kind, OrdinalIn(ordinals, parent), TextOf(block))
                EXCEPT !.label = label])
    /\ ordinals' = CountedIn(ordinals, parent)
    /\ nextProvisional' = nextProvisional + 1

PageBlocks == {page[i] : i \in DOMAIN page}

\* Every line lies in a band, or there is none.
DropBlock ==
    \E block \in PageBlocks :
        /\ Retained(block) = {}
        /\ Take(block, IF block.lines = <<>> THEN {<<"unclassifiable", 0>>} ELSE {})
        /\ UNCHANGED <<candidates, ordinals, nextProvisional, sections>>

IsHeading(block) ==
    /\ Cardinality(Retained(block)) = 1
    /\ FirstWord(block) \in DOMAIN Numbering
    /\ Numbering[FirstWord(block)] <= MaxHeadingDepth

IsPrefixed(block) == FirstWord(block) \in NotePrefixes \cup CaptionPrefixes

ProjectPrefixed ==
    \E block \in PageBlocks :
        /\ Retained(block) # {} /\ IsPrefixed(block)
        /\ Take(block, {})
        /\ EmitBlock(SectionParent,
                     IF FirstWord(block) \in NotePrefixes THEN "note" ELSE "figure_caption",
                     NoId, block)
        /\ UNCHANGED sections

ProjectHeading ==
    \E block \in PageBlocks :
        /\ Retained(block) # {} /\ ~IsPrefixed(block) /\ IsHeading(block)
        /\ Take(block, {})
        /\ LET open == SectionsAbove(Numbering[FirstWord(block)])
           IN /\ EmitBlock(ParentAfter(open), "section", <<"number", FirstWord(block)>>, block)
              /\ sections' = Append(open, [level |-> Numbering[FirstWord(block)],
                                           provisional |-> nextProvisional + 1])

ProjectParagraph ==
    \E block \in PageBlocks :
        /\ Retained(block) # {} /\ ~IsPrefixed(block) /\ ~IsHeading(block)
        /\ Take(block, IF TableShaped(block) THEN {<<"table", 0>>} ELSE {})
        /\ EmitBlock(SectionParent, "paragraph", NoId, block)
        /\ UNCHANGED sections

\* EmptyDocument: a document has a page.
LastPage ==
    /\ ~ingested /\ page = <<>> /\ pages > 0
    /\ ingested' = TRUE
    /\ UNCHANGED <<opened, blocks, texts, sections, candidates, ordinals, usedAnchors, diagnostics,
                   nextProvisional, page, pages>>

PdfIdle == page = <<>> /\ pages = 0

PdfInit == AdapterInit /\ opened = <<>> /\ PdfIdle

PdfNext ==
    \/ BeginPage
    \/ DropBlock \/ ProjectPrefixed \/ ProjectHeading \/ ProjectParagraph
    \/ LastPage

-----------------------------------------------------------------------------
(* Properties.                                                             *)

\* Every line is in one node, or was reported as standing in a band.
PdfTextIsKept ==
    \A t \in 1..texts :
        TimesIn(t, candidates) = IF <<"dropped", t>> \in diagnostics THEN 0 ELSE 1

\* Two sections of one number are refused as the graph is assembled.
PdfGraphIsValid == ingested => SourceGraph!Valid(CandidateGraph)
=============================================================================
