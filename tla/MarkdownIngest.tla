---------------------------- MODULE MarkdownIngest ----------------------------
(***************************************************************************)
(* The Markdown adapter (corpus/ingest/markdown): events of the CommonMark *)
(* parser in, candidate nodes of the structural graph out.  The parser     *)
(* opens and closes blocks in the orders a document may have them.         *)
(***************************************************************************)
EXTENDS Adapter

CONSTANTS
    FootnoteIds,        \* names of footnotes
    ExplicitIds         \* of headings: <<"s", n>> is the n-th slug of a text, written by hand

VARIABLES
    frames,             \* the adapter's frame stack
    footnotesSeen

markdownVars == <<adapterVars, frames, footnotesSeen>>

Containers == {"quote", "item", "footnote"}
Leaves == {"heading", "paragraph", "code", "cell"}
Absorbers == {"item", "quote", "footnote", "cell"}      \* absorbs_paragraph

LastFrame == Len(frames)

-----------------------------------------------------------------------------
(* The frames.                                                             *)

\* frame_parent: the innermost frame of a kind, else the section.
FrameParent(kind) ==
    LET S == {i \in DOMAIN frames : frames[i].kind = kind}
    IN IF S = {} THEN SectionParent ELSE frames[CHOOSE i \in S : \A j \in S : j <= i].provisional

Frame(kind, parent, ordinal, id) ==
    [kind |-> kind, text |-> <<>>, provisional |-> nextProvisional + 1, parent |-> parent,
     ordinal |-> ordinal, id |-> id, level |-> 0, explicit |-> NoId]

\* push_node_frame: the ordinal is taken as the block opens.
PushNode(kind, parent, id, skip) ==
    /\ frames' = Append(frames, [Frame(kind, parent, OrdinalIn(ordinals, parent), id) EXCEPT
                                    !.level = IF skip THEN 1 ELSE 0])
    /\ ordinals' = CountedIn(ordinals, parent)
    /\ nextProvisional' = nextProvisional + 1

\* Faulty variant: the ordinal is taken as for any other block.
PushBare_TakesOrdinal(kind) ==
    /\ frames' = Append(frames, Frame(kind, DocumentRoot, 0, NoId))
    /\ nextProvisional' = nextProvisional + 1
    /\ ordinals' = CountedIn(ordinals, SectionParent)

\* Frame::bare: no parent and no ordinal yet, or ever.
PushBare(kind) ==
    /\ frames' = Append(frames, Frame(kind, DocumentRoot, 0, NoId))
    /\ nextProvisional' = nextProvisional + 1
    /\ UNCHANGED ordinals

FrameNode(frame, kind) == Node(frame.provisional, frame.parent, kind, frame.ordinal, frame.text)

Popped == SubSeq(frames, 1, LastFrame - 1)

-----------------------------------------------------------------------------
(* The events.  Each first says when the parser may send it.               *)

MayOpen(tag) ==
    /\ ~ingested
    /\ blocks < MaxBlocks
    /\ CASE tag = "item" -> Top = "list"
         [] tag = "head" -> Top = "table" /\ ~Last(opened).filled
         [] tag = "row" -> Top = "table" /\ Last(opened).filled
         [] tag = "cell" -> Top \in {"head", "row"}
         [] tag = "footnote" -> Top = "document"
         [] OTHER -> Top \in Containers \cup {"document"}

Opens(tag) ==
    /\ MayOpen(tag)
    /\ blocks' = blocks + 1
    /\ opened' = Append([i \in DOMAIN opened |->
                            IF i = Len(opened) THEN [opened[i] EXCEPT !.filled = TRUE] ELSE opened[i]],
                        [tag |-> tag, filled |-> FALSE])
    /\ UNCHANGED <<texts, ingested>>

\* Tag::Heading.
StartHeading ==
    \E level \in HeadingLevels, explicit \in ExplicitIds \cup {NoId} :
        /\ Opens("heading")
        /\ sections' = SectionsAbove(level)
        /\ LET parent == ParentAfter(SectionsAbove(level))
           IN /\ frames' = Append(frames, [Frame("section", parent, OrdinalIn(ordinals, parent), NoId)
                                            EXCEPT !.level = level, !.explicit = explicit])
              /\ ordinals' = CountedIn(ordinals, parent)
        /\ nextProvisional' = nextProvisional + 1
        /\ UNCHANGED <<candidates, usedAnchors, footnotesSeen, diagnostics>>

\* Tag::Paragraph, Tag::List and Tag::HtmlBlock.
StartBare ==
    /\ \/ Opens("paragraph") /\ PushBare("paragraph")
       \/ Opens("list") /\ PushBare("transparent")
    /\ UNCHANGED <<sections, candidates, usedAnchors, footnotesSeen, diagnostics>>

\* Tag::BlockQuote, CodeBlock, Item, Table, TableHead, TableRow and TableCell.
StartNode ==
    /\ \/ \E tag \in {"quote", "code", "item", "table"} :
            Opens(tag) /\ PushNode(tag, SectionParent, NoId, FALSE)
       \/ \E tag \in {"head", "row"} : Opens(tag) /\ PushNode("row", FrameParent("table"), NoId, FALSE)
       \/ Opens("cell") /\ PushNode("cell", FrameParent("row"), NoId, FALSE)
    /\ UNCHANGED <<sections, candidates, usedAnchors, footnotesSeen, diagnostics>>

\* Tag::FootnoteDefinition: a second definition is marked to be skipped, but its
\* ordinal is taken like any other.
StartFootnote ==
    \E id \in FootnoteIds :
        /\ Opens("footnote")
        /\ PushNode("footnote", SectionParent, id, id \in footnotesSeen)
        /\ footnotesSeen' = footnotesSeen \cup {id}
        /\ UNCHANGED <<sections, candidates, usedAnchors, diagnostics>>

\* Event::Text and its like: to the innermost frame.  A tight item holds its text
\* directly, ahead of the blocks in it.
Text ==
    /\ ~ingested
    /\ Top \in Leaves \cup {"item"} /\ ~Last(opened).filled
    /\ texts' = texts + 1
    /\ opened' = [opened EXCEPT ![Len(opened)].filled = TRUE]
    /\ frames' = [frames EXCEPT ![LastFrame].text = Append(@, texts + 1)]
    /\ UNCHANGED <<blocks, sections, candidates, ordinals, usedAnchors, footnotesSeen, diagnostics,
                   nextProvisional, ingested>>

\* The parser closes its innermost block; these are empty only where the bound cuts
\* the document short.
Closes(tags) ==
    /\ ~ingested
    /\ Top \in tags
    /\ Top \in {"list", "table", "head", "row"} => Last(opened).filled \/ blocks = MaxBlocks
    /\ opened' = Front(opened)
    /\ UNCHANGED <<blocks, texts, ingested, nextProvisional>>

\* close_section, process_heading.
EndHeading ==
    /\ Closes({"heading"})
    /\ LET frame == Last(frames)
       IN /\ candidates' = Append(candidates,
                [FrameNode(frame, "section") EXCEPT !.label = LabelOf(frame.text),
                                                    !.anchor = Anchor(frame.explicit)])
          /\ sections' = Append(sections, [level |-> frame.level, provisional |-> frame.provisional])
          /\ ClaimAnchor(frame.provisional, frame.explicit)
    /\ frames' = Popped
    /\ UNCHANGED <<ordinals, footnotesSeen>>

\* The innermost frame that folds the text of a paragraph into its own.
Absorber ==
    LET S == {i \in 1..LastFrame - 1 : frames[i].kind \in Absorbers}
    IN IF S = {} THEN 0 ELSE CHOOSE i \in S : \A j \in S : j <= i

\* The text of the absorbing block and then the paragraph's.
Absorbed(text) == text \o Last(frames).text

\* close_paragraph: absorbed, or a node whose ordinal is taken now.
EndParagraph ==
    /\ Closes({"paragraph"})
    /\ \/ /\ Absorber # 0
          /\ frames' = [Popped EXCEPT ![Absorber].text = Absorbed(@)]
          /\ UNCHANGED <<candidates, ordinals>>
       \/ /\ Absorber = 0
          /\ frames' = Popped
          /\ candidates' = Append(candidates,
                FrameNode([Last(frames) EXCEPT !.parent = SectionParent,
                                               !.ordinal = OrdinalIn(ordinals, SectionParent)],
                          "paragraph"))
          /\ ordinals' = CountedIn(ordinals, SectionParent)
    /\ UNCHANGED <<sections, usedAnchors, footnotesSeen, diagnostics>>

\* Of SourceNodeKind.
KindOf(frame) ==
    CASE frame.kind = "quote" -> "note"
      [] frame.kind = "footnote" -> "note"
      [] frame.kind = "code" -> "code_block"
      [] frame.kind = "item" -> "list_item"
      [] frame.kind = "table" -> "table"
      [] frame.kind = "row" -> "table_row"
      [] frame.kind = "cell" -> "table_cell"

\* emit_simple for the blocks whose node is made as they close.
EndNode ==
    /\ Closes({"quote", "code", "item", "table", "head", "row", "cell"})
    /\ candidates' = Append(candidates, FrameNode(Last(frames), KindOf(Last(frames))))
    /\ frames' = Popped
    /\ UNCHANGED <<sections, ordinals, usedAnchors, footnotesSeen, diagnostics>>

EndList ==
    /\ Closes({"list"})
    /\ frames' = Popped
    /\ UNCHANGED <<sections, candidates, ordinals, usedAnchors, footnotesSeen, diagnostics>>

Skipped(frame) == frame.kind = "footnote" /\ frame.level = 1

\* close_footnote.
EndFootnote ==
    /\ Closes({"footnote"})
    /\ LET frame == Last(frames)
       IN \/ /\ Skipped(frame)
             /\ diagnostics' = diagnostics \cup {<<"footnote_definition", frame.provisional>>}
             /\ UNCHANGED candidates
          \/ /\ ~Skipped(frame)
             /\ candidates' = Append(candidates, [FrameNode(frame, "note") EXCEPT !.label = frame.id])
             /\ UNCHANGED diagnostics
    /\ frames' = Popped
    /\ UNCHANGED <<sections, ordinals, usedAnchors, footnotesSeen>>

\* Raw HTML and thematic breaks leave a diagnostic and nothing else.
Lossy ==
    /\ ~ingested
    /\ Top = "document" /\ diagnostics = {}      \* bound: one, outside all blocks
    /\ diagnostics' = {<<"lossy_construct", 0>>}
    /\ UNCHANGED <<opened, blocks, texts, frames, sections, candidates, ordinals, usedAnchors,
                   footnotesSeen, nextProvisional, ingested>>

EndOfDocument ==
    /\ ~ingested /\ opened = <<>>
    /\ ingested' = TRUE
    /\ UNCHANGED <<opened, blocks, texts, frames, sections, candidates, ordinals, usedAnchors,
                   footnotesSeen, diagnostics, nextProvisional>>

MarkdownIdle == frames = <<>> /\ footnotesSeen = {}

MarkdownInit == AdapterInit /\ opened = <<>> /\ MarkdownIdle

MarkdownNext ==
    \/ StartHeading \/ StartBare \/ StartNode \/ StartFootnote
    \/ Text \/ Lossy
    \/ EndHeading \/ EndParagraph \/ EndNode \/ EndList \/ EndFootnote
    \/ EndOfDocument

-----------------------------------------------------------------------------
(* Properties.                                                             *)

Repeated == {d \in diagnostics : d[1] = "footnote_definition"}

\* Every run of text is in one node or one open frame; only the second definition
\* of a footnote, which is reported, is left out.
MarkdownTextIsKept ==
    Repeated = {} => \A t \in 1..texts : TimesIn(t, candidates) + TimesIn(t, frames) = 1

\* Only a repeated footnote can leave a gap in the ordinals.
MarkdownGraphIsValid == ingested /\ Repeated = {} => GraphIsValid
=============================================================================
