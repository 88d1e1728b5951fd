------------------------------ MODULE HtmlIngest ------------------------------
(***************************************************************************)
(* The HTML adapter (corpus/ingest/html): a document-order walk of the     *)
(* element tree.  The walk never looks ahead, so it is modelled as the     *)
(* tree is written down: an element is opened, given text and children,    *)
(* and closed.                                                             *)
(*                                                                         *)
(* The selectors a recipe classifies notes and captions with, internal     *)
(* links and the ids of elements other than headings are left out.         *)
(***************************************************************************)
EXTENDS Adapter

CONSTANTS
    HeadingIds,         \* ids written on headings
    Spans,              \* <<colspan, rowspan>> of cells
    MaxTexts,
    MaxRows, MaxCells   \* bounds on the rows and cells of a document, which are no blocks

ASSUME SpansAreCounts == Spans \subseteq (Nat \ {0}) \X (Nat \ {0})

VARIABLES
    raw,                \* the stray text, or the text of the leaf being collected
    notes,              \* the open absorbing notes
    unread              \* texts collect_text passed over without a report

htmlVars == <<adapterVars, raw, notes, unread>>

\* Of the tags, one for each rule of the walk.
NestedBlocks == {"ul", "table", "pre", "quote", "heading"}      \* NESTED_BLOCK_TAGS
Dropped == {"script"}                                           \* DROP_TAGS
Flow == {"div", "ul", "p", "pre", "quote", "heading", "table", "caption"}
Anywhere == {"inline", "script", "svg"}     \* "svg": also what a recipe excludes

NoColumns == [c \in {} |-> 0]

\* mode: how the children are visited.  "walk" is walk_children; "raw" and "node"
\* are collect_text, into the buffer or into a node; "children" is collect_text and
\* then walk_nested_blocks; below "reported" and "silent" nothing is visited.
Element(tag, mode, fold, node) ==
    [tag |-> tag, mode |-> mode, fold |-> fold, node |-> node, filled |-> FALSE,
     carry |-> NoColumns, pending |-> NoColumns, later |-> NoColumns, column |-> 0]

Parent == Last(opened)

-----------------------------------------------------------------------------
(* What is emitted, as a record of the variables it changes.               *)

Emitted ==
    [candidates |-> candidates, ordinals |-> ordinals, next |-> nextProvisional, notes |-> notes]

Becomes(out) ==
    /\ candidates' = out.candidates /\ ordinals' = out.ordinals
    /\ nextProvisional' = out.next /\ notes' = out.notes

Emit(out, parent, kind, text) ==
    [out EXCEPT !.candidates = Append(@, Node(out.next + 1, parent, kind,
                                              OrdinalIn(out.ordinals, parent), text)),
                !.ordinals = CountedIn(@, parent), !.next = @ + 1]

\* n cells, one after the other.
EmptyCells(out, row, n) ==
    LET cell(i) == Node(out.next + i, row, "table_cell", OrdinalIn(out.ordinals, row) + i - 1, <<>>)
    IN [out EXCEPT !.candidates = @ \o [i \in 1..n |-> cell(i)],
                   !.ordinals = CountedBy(@, row, n), !.next = @ + n]

\* Faulty variant: a stray run of text starts the text of the note again.
Prose_Replaces(out, text) ==
    IF notes = <<>> THEN Emit(out, SectionParent, "paragraph", text)
    ELSE [out EXCEPT !.notes[Len(notes)].text = text]

\* A paragraph, or stray text: into the open note, or a node of its own.
Prose(out, text) ==
    IF notes = <<>> THEN Emit(out, SectionParent, "paragraph", text)
    ELSE [out EXCEPT !.notes[Len(notes)].text = @ \o text]

\* flush_stray
Flushed == IF raw = <<>> THEN Emitted ELSE Prose(Emitted, raw)

-----------------------------------------------------------------------------
(* Opening an element.                                                     *)

InParagraph == \E i \in DOMAIN opened : opened[i].tag = "p"

\* What the HTML parser lets stand where.
MayStand(tag) ==
    /\ ~ingested /\ blocks < MaxBlocks
    /\ Parent.mode \notin {"reported", "silent"}        \* bound: text alone below these
    /\ Parent.tag \notin {"table", "tr"} /\ Parent.tag # "ul"
    /\ InParagraph => tag \in Anywhere

Open(element) ==
    /\ blocks' = blocks + 1
    /\ opened' = Append([opened EXCEPT ![Len(opened)].filled = FALSE], element)
    /\ UNCHANGED <<texts, ingested, unread>>

\* The walk visits the element: it is a child of a walked one, or a nested block of
\* a list item or a cell.
Walked(tag) ==
    \/ Parent.mode = "walk" /\ tag # "inline"
    \/ Parent.mode = "children" /\ tag \in NestedBlocks

Unmoved == UNCHANGED <<sections, usedAnchors>>

Emissions(kind) == Cardinality({i \in DOMAIN candidates : candidates[i].kind = kind})

\* walk_element, for the elements whose node, if any, is emitted as they close, and
\* for those that drop.
WalkElement ==
    \E tag \in Flow \cup Anywhere :
        /\ MayStand(tag) /\ Walked(tag) /\ tag \notin {"table", "quote"}
        /\ Open(CASE tag \in {"div", "ul"} -> Element(tag, "walk", FALSE, 0)
                  [] tag \in {"p", "pre", "heading"} -> Element(tag, "raw", FALSE, 0)
                  [] tag = "caption" -> Element(tag, "raw", TRUE, 0)
                  [] OTHER -> Element(tag, "reported", FALSE, 0))
        /\ Becomes(Flushed)
        /\ raw' = <<>>
        /\ Unmoved /\ UNCHANGED diagnostics

\* absorbing_note: the note takes its ordinal as it opens.
WalkQuote ==
    /\ MayStand("quote") /\ Walked("quote")
    /\ Open(Element("quote", "walk", FALSE, 0))
    /\ LET out == Flushed
           note == [provisional |-> out.next + 1, parent |-> SectionParent,
                    ordinal |-> OrdinalIn(out.ordinals, SectionParent), text |-> <<>>]
       IN Becomes([out EXCEPT !.notes = Append(@, note), !.next = @ + 1,
                              !.ordinals = CountedIn(@, SectionParent)])
    /\ raw' = <<>>
    /\ Unmoved /\ UNCHANGED diagnostics

\* table: its node is emitted first, then its rows.
WalkTable ==
    /\ MayStand("table") /\ Walked("table")
    /\ LET out == Emit(Flushed, SectionParent, "table", <<>>)
       IN Becomes(out) /\ Open(Element("table", "table", FALSE, out.next))
    /\ raw' = <<>>
    /\ Unmoved /\ UNCHANGED diagnostics

\* list_item and definition: the node first, then its nested blocks.
WalkItem ==
    /\ ~ingested /\ blocks < MaxBlocks
    /\ Parent.tag = "ul" /\ Parent.mode = "walk"
    /\ LET out == Emit(Flushed, SectionParent, "list_item", <<>>)
       IN Becomes(out) /\ Open(Element("li", "children", FALSE, out.next))
    /\ raw' = <<>>
    /\ Unmoved /\ UNCHANGED diagnostics

WalkRow ==
    /\ ~ingested /\ Emissions("table_row") < MaxRows
    /\ Parent.mode = "table"
    /\ LET out == Emit(Emitted, Parent.node, "table_row", <<>>)
       IN /\ Becomes(out)
          /\ opened' = Append(opened, [Element("tr", "row", FALSE, out.next)
                                        EXCEPT !.carry = Parent.pending])
    /\ Unmoved /\ UNCHANGED <<raw, diagnostics, blocks, texts, ingested, unread>>

LessOne(columns, S) ==
    [c \in {c \in S : columns[c] > 1} |-> columns[c] - 1]

\* The map g, with what is in f inserted.
Inserted(f, g) == [c \in DOMAIN f \cup DOMAIN g |-> IF c \in DOMAIN f THEN f[c] ELSE g[c]]

\* table_row, one cell: the columns a rowspan above covers get a cell of their own
\* before it, and the columns it spans one each after it.
WalkCell ==
    \E span \in Spans :
        LET row == Parent
            covered == {c \in DOMAIN row.carry :
                            c >= row.column /\ \A d \in row.column..c : d \in DOMAIN row.carry}
            first == row.column + Cardinality(covered)
            origin == Emit(EmptyCells(Emitted, row.node, Cardinality(covered)), row.node,
                           "table_cell", <<>>)
        IN /\ ~ingested /\ Emissions("table_cell") < MaxCells
           /\ row.mode = "row"
           /\ Becomes(EmptyCells(origin, row.node, span[1] - 1))
           /\ opened' = Append([opened EXCEPT ![Len(opened)] =
                    [row EXCEPT !.carry = [c \in DOMAIN row.carry \ covered |-> row.carry[c]],
                                !.pending = Inserted(LessOne(row.carry, covered), row.pending),
                                !.later = IF span[2] = 1 THEN row.later
                                          ELSE Inserted([c \in first..first + span[1] - 1 |-> span[2] - 1],
                                                        row.later),
                                !.column = first + span[1]]],
                Element("td", "children", FALSE, origin.next))
           /\ Unmoved /\ UNCHANGED <<raw, diagnostics, blocks, texts, ingested, unread>>

\* collect_text: an inline child of a walked element is stray text; below a leaf a
\* nested block is left to be walked, whether or not something will walk it.
Collect ==
    \E tag \in Flow \cup Anywhere :
        /\ MayStand(tag) /\ ~Walked(tag)
        /\ Open(IF tag \in Dropped THEN Element(tag, "reported", FALSE, 0)
                ELSE IF Parent.mode = "walk" THEN Element(tag, "raw", TRUE, 0)
                ELSE IF Parent.mode = "children" THEN Element(tag, "node", FALSE, Parent.node)
                ELSE IF ~Parent.fold /\ tag \in NestedBlocks THEN Element(tag, "silent", FALSE, 0)
                ELSE Element(tag, Parent.mode, Parent.fold, Parent.node))
        /\ Unmoved
        /\ UNCHANGED <<raw, candidates, ordinals, nextProvisional, notes, diagnostics>>

-----------------------------------------------------------------------------
(* Text.                                                                   *)

GiveText ==
    /\ ~ingested
    /\ Parent.mode \notin {"table", "row"} /\ Parent.tag # "ul" /\ ~Parent.filled
    /\ texts < MaxTexts
    /\ texts' = texts + 1
    /\ opened' = [opened EXCEPT ![Len(opened)].filled = TRUE]
    /\ raw' = IF Parent.mode \in {"walk", "raw"} THEN Append(raw, texts + 1) ELSE raw
    /\ candidates' = IF Parent.mode \in {"node", "children"}
                     THEN [i \in DOMAIN candidates |->
                            IF candidates[i].provisional = Parent.node
                            THEN [candidates[i] EXCEPT !.text = Append(@, texts + 1)]
                            ELSE candidates[i]]
                     ELSE candidates
    /\ diagnostics' = IF Parent.mode = "reported" THEN diagnostics \cup {<<"dropped", texts + 1>>}
                      ELSE diagnostics
    /\ unread' = IF Parent.mode = "silent" THEN unread \cup {texts + 1} ELSE unread
    /\ UNCHANGED <<blocks, ordinals, nextProvisional, notes, ingested>>
    /\ Unmoved

-----------------------------------------------------------------------------
(* Closing an element.                                                     *)

Close(modes) ==
    /\ ~ingested
    /\ Len(opened) > 1
    /\ Parent.mode \in modes
    /\ opened' = [Front(opened) EXCEPT ![Len(opened) - 1].filled = FALSE]
    /\ UNCHANGED <<blocks, texts, ingested, unread>>

\* The element whose text is in the buffer is the innermost one.
Leaf(tag) == Parent.tag = tag /\ Parent.mode = "raw" /\ opened[Len(opened) - 1].mode # "raw"

\* Nothing is left to do: inline elements, what collect_text passed through, list
\* items, cells, tables and what was dropped.
CloseQuietly ==
    /\ Close({"raw", "node", "children", "table", "reported", "silent"})
    /\ ~\E tag \in {"p", "pre", "caption", "heading"} : Leaf(tag)
    /\ Unmoved
    /\ UNCHANGED <<raw, candidates, ordinals, nextProvisional, notes, diagnostics>>

\* walk_children ends with the stray text.
CloseContainer ==
    /\ Close({"walk"})
    /\ Parent.tag # "quote"
    /\ Becomes(Flushed)
    /\ raw' = <<>>
    /\ Unmoved /\ UNCHANGED diagnostics

CloseQuote ==
    /\ Close({"walk"})
    /\ Parent.tag = "quote"
    /\ LET out == Flushed
           note == Last(out.notes)
       IN Becomes([out EXCEPT !.notes = Front(@),
                              !.candidates = Append(@, Node(note.provisional, note.parent, "note",
                                                            note.ordinal, note.text))])
    /\ raw' = <<>>
    /\ Unmoved /\ UNCHANGED diagnostics

\* paragraph: an empty one leaves nothing.
CloseParagraph ==
    /\ Leaf("p") /\ Close({"raw"})
    /\ Becomes(Flushed)
    /\ raw' = <<>>
    /\ Unmoved /\ UNCHANGED diagnostics

\* code_block and figure_caption: even empty they are nodes.
CloseLeaf ==
    /\ Leaf("pre") \/ Leaf("caption")
    /\ Close({"raw"})
    /\ Becomes(Emit(Emitted, SectionParent,
                    IF Parent.tag = "pre" THEN "code_block" ELSE "figure_caption", raw))
    /\ raw' = <<>>
    /\ Unmoved /\ UNCHANGED diagnostics

\* heading
CloseHeading ==
    /\ Leaf("heading") /\ Close({"raw"})
    /\ \E level \in HeadingLevels, explicit \in HeadingIds \cup {NoId} :
        LET out == Emit(Emitted, ParentAfter(SectionsAbove(level)), "section", raw)
        IN /\ Becomes([out EXCEPT !.candidates[Len(out.candidates)] =
                            [@ EXCEPT !.label = LabelOf(raw), !.anchor = Anchor(explicit)]])
           /\ sections' = Append(SectionsAbove(level), [level |-> level, provisional |-> out.next])
           /\ ClaimAnchor(out.next, explicit)
    /\ raw' = <<>>

\* The end of table_row: the columns still covered from above.
CloseRow ==
    /\ ~ingested /\ Parent.mode = "row"
    /\ LET rest == {c \in DOMAIN Parent.carry : c >= Parent.column}
       IN /\ Becomes(EmptyCells(Emitted, Parent.node, Cardinality(rest)))
          /\ opened' = [Front(opened) EXCEPT ![Len(opened) - 1].pending =
                            Inserted(Parent.later,
                                Inserted(LessOne(Parent.carry, rest), Parent.pending))]
    /\ Unmoved /\ UNCHANGED <<raw, diagnostics, blocks, texts, ingested, unread>>

\* ingest_html: the root is walked to its end, and the graph assembled.
EndOfTree ==
    /\ ~ingested /\ Len(opened) = 1
    /\ Becomes(Flushed)
    /\ raw' = <<>> /\ ingested' = TRUE
    /\ Unmoved /\ UNCHANGED <<opened, blocks, texts, unread, diagnostics>>

HtmlIdle == raw = <<>> /\ notes = <<>> /\ unread = {}

HtmlInit == AdapterInit /\ opened = <<Element("document", "walk", FALSE, 0)>> /\ HtmlIdle

HtmlNext ==
    \/ WalkElement \/ WalkQuote \/ WalkTable \/ WalkItem \/ WalkRow \/ WalkCell \/ Collect
    \/ GiveText
    \/ CloseQuietly \/ CloseContainer \/ CloseQuote \/ CloseParagraph \/ CloseLeaf \/ CloseHeading
    \/ CloseRow \/ EndOfTree

-----------------------------------------------------------------------------
(* Properties.                                                             *)

\* Every run of text is in one node, in the buffer or in an open note, or an element
\* above it was reported, or collect_text left it to a walk that never came, which
\* NothingIsDroppedSilently denies.
HtmlTextIsKept ==
    \A t \in 1..texts :
        TimesIn(t, candidates) + TimesIn(t, notes) + TimesIn(t, <<[text |-> raw]>>)
            = IF t \in unread \/ <<"dropped", t>> \in diagnostics THEN 0 ELSE 1

\* What the adapter says of itself: "Silent dropping is forbidden; every configured
\* exclusion and every element the projection cannot represent produces a
\* diagnostic" (html.rs:70-73).
NothingIsDroppedSilently == ingested => unread = {}

HtmlGraphIsValid == ingested => GraphIsValid
=============================================================================
