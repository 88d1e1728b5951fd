---------------------------- MODULE MCSourcePlane ----------------------------
(***************************************************************************)
(* The source plane on small instances: a behaviour is one of the records  *)
(* and their lock, of a committed graph and its second ingestion, or of    *)
(* one of the three adapters on one document.                              *)
(***************************************************************************)
EXTENDS SourceLineage, Reingestion, MarkdownIngest, HtmlIngest, PdfIngest

VARIABLE part

all == <<sourceVars, driftVars, adapterVars, frames, footnotesSeen, raw, notes, unread, page, pages,
         part>>

Symmetric == Permutations(Sources) \cup Permutations(Documents) \cup Permutations(Digests)

\* The n-th slug of a text, written by hand.
SecondSlug == {<<"s", 2>>}
OneFootnote == {<<"fn", 1>>}
CellSpans == {<<1, 1>>, <<2, 1>>, <<1, 3>>}

\* One change of a locator at a time.
OneChange ==
    {l \in [anchor : {"none", "x"}, semantic : {0, 1}, diagnostic : {0, 1}] :
        Cardinality({l.anchor, "none"}) + l.semantic + l.diagnostic <= 2}

Line(yMin, yMax, first, words) == [yMin |-> yMin, yMax |-> yMax, first |-> first, words |-> words]
Block(column, aligned, lines) ==
    [column |-> column, top |-> IF lines = <<>> THEN 0 ELSE lines[1].yMin, aligned |-> aligned,
     lines |-> lines]

Depths == [w \in {"1", "1.1"} |-> IF w = "1" THEN 1 ELSE 2]

\* In both columns one line of each kind; a block that reaches into a band, one
\* within it, a table, an empty one, and one that reaches out of the page.
PageLayouts ==
    {Block(c, FALSE, <<Line(2, 3, w, 1)>>) : c \in {0, 1}, w \in {"1", "1.1", "NOTE", "text"}}
    \cup {Block(0, FALSE, <<Line(0, 1, "text", 1), Line(2, 3, "1", 1)>>),
          Block(0, FALSE, <<Line(4, 5, "text", 1)>>),
          Block(0, TRUE, <<Line(3, 4, "text", 3), Line(3, 4, "text", 3), Line(4, 5, "text", 1)>>),
          Block(0, FALSE, <<>>),
          Block(0, FALSE, <<Line(5, 6, "text", 1)>>)}

Init ==
    /\ part \in {"sources", "reingestion", "markdown", "html", "pdf"}
    /\ IF part = "sources" THEN SourcesInit ELSE SourcesIdle
    /\ IF part = "reingestion" THEN ReingestionInit ELSE ReingestionIdle
    /\ IF part = "html" THEN HtmlInit ELSE AdapterInit /\ opened = <<>> /\ HtmlIdle
    /\ MarkdownIdle /\ PdfIdle

Only(p) ==
    /\ part = p /\ UNCHANGED part
    /\ p # "sources" => UNCHANGED sourceVars
    /\ p # "reingestion" => UNCHANGED driftVars
    /\ p \notin {"markdown", "html", "pdf"} => UNCHANGED adapterVars
    /\ p # "markdown" => UNCHANGED <<frames, footnotesSeen>>
    /\ p # "html" => UNCHANGED <<raw, notes, unread>>
    /\ p # "pdf" => UNCHANGED <<page, pages>>

\* A document that was ingested stays as it is, as do records nobody edits.
Rest == (ingested \/ part \in {"sources", "reingestion"}) /\ UNCHANGED all

Next ==
    \/ Only("sources") /\ SourcesNext
    \/ Only("reingestion") /\ ReingestionNext
    \/ Only("markdown") /\ MarkdownNext
    \/ Only("html") /\ HtmlNext
    \/ Only("pdf") /\ PdfNext
    \/ Rest

Spec == Init /\ [][Next]_all

-----------------------------------------------------------------------------

\* No adapter loses text or projects it twice: every run of text the parser gives
\* is in one node, or waits in a frame of the adapter for its block to close, or is
\* reported (markdown/close.rs, html/walk.rs, pdf/project.rs).  In HTML it may also
\* lie in a block that collect_text leaves to walk_nested_blocks, which visits only
\* children of its own (html/emit.rs:167, html/walk.rs:394): that this text is lost
\* and not reported is what NothingIsDroppedSilently finds.
EveryTextIsKeptOnce ==
    CASE part = "markdown" -> MarkdownTextIsKept
      [] part = "html" -> HtmlTextIsKept
      [] part = "pdf" -> PdfTextIsKept
      [] OTHER -> TRUE

\* What an adapter assembles passes the validation of a structural graph: parents
\* before children, ordinals without gaps below each parent although some are taken
\* as a block opens and others as it closes, labels unique.  A second definition of
\* a footnote takes an ordinal and emits nothing, and numbered PDF sections may
\* repeat a number: those documents are refused.  So are two headings of the same
\* words (source_graph.rs:208), which no document of the model has: its runs of text
\* are all different.
IngestedGraphsAreValid ==
    CASE part = "markdown" -> MarkdownGraphIsValid
      [] part = "html" -> HtmlGraphIsValid
      [] part = "pdf" -> PdfGraphIsValid
      [] OTHER -> TRUE
=============================================================================
