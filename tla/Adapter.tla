------------------------------- MODULE Adapter -------------------------------
(***************************************************************************)
(* What the Markdown, HTML and PDF adapters (corpus/ingest) have in        *)
(* common: the open sections, the candidate nodes emitted so far, the      *)
(* ordinals below each parent, and the graph they are assembled into.      *)
(*                                                                         *)
(* The parser of the format is the environment.  It gives every run of     *)
(* text a number of its own.  Locators, heading paths and normalisation    *)
(* of text are left out.                                                   *)
(***************************************************************************)
EXTENDS Integers, Sequences, FiniteSets, SequencesExt

CONSTANTS
    MaxBlocks,      \* bound on the blocks, elements or layout blocks of a document
    HeadingLevels   \* of Markdown and HTML

VARIABLES
    opened,         \* the parser's open blocks, outermost first
    blocks, texts,  \* how many it has opened, and how many runs of text it has given
    sections,       \* the open sections
    candidates,     \* the nodes emitted so far
    ordinals,       \* the next ordinal below each parent
    usedAnchors,
    diagnostics,    \* what was reported
    nextProvisional,
    ingested        \* the end of the document was reached

adapterVars == <<opened, blocks, texts, sections, candidates, ordinals, usedAnchors, diagnostics,
                 nextProvisional, ingested>>

NoId == <<"none", 0>>
DocumentRoot == 0       \* the parent of a top-level node

AdapterInit ==
    /\ blocks = 0 /\ texts = 0 /\ sections = <<>> /\ candidates = <<>>
    /\ ordinals = [p \in {} |-> 0] /\ usedAnchors = {} /\ diagnostics = {}
    /\ nextProvisional = 0 /\ ingested = FALSE

Top == IF opened = <<>> THEN "document" ELSE Last(opened).tag

ParentAfter(open) == IF open = <<>> THEN DocumentRoot ELSE Last(open).provisional

SectionParent == ParentAfter(sections)

\* A heading closes the innermost sections, as long as they are of its level or below it.
SectionsAbove(level) ==
    LET open == {i \in DOMAIN sections : sections[i].level < level}
    IN SubSeq(sections, 1, CHOOSE n \in open \cup {0} : \A i \in open : i <= n)

OrdinalIn(counts, parent) == IF parent \in DOMAIN counts THEN counts[parent] ELSE 0

CountedBy(counts, parent, n) ==
    [p \in DOMAIN counts \cup {parent} |->
        IF p = parent THEN OrdinalIn(counts, p) + n ELSE counts[p]]

CountedIn(counts, parent) == CountedBy(counts, parent, 1)

Node(provisional, parent, kind, ordinal, text) ==
    [provisional |-> provisional, parent |-> parent, kind |-> kind, ordinal |-> ordinal,
     text |-> text, label |-> NoId, anchor |-> NoId]

\* slugify and dedup: the first slug of this text that no heading has claimed.
Slug == CHOOSE s \in {<<"s", n>> : n \in 1..MaxBlocks + 2} :
            s \notin usedAnchors /\ \A n \in 1..s[2] - 1 : <<"s", n>> \in usedAnchors

Anchor(explicit) == IF explicit = NoId THEN Slug ELSE explicit

\* An anchor written by hand that was claimed before is used again, and reported.
ClaimAnchor(provisional, explicit) ==
    /\ usedAnchors' = usedAnchors \cup {Anchor(explicit)}
    /\ diagnostics' = IF explicit \in usedAnchors
                      THEN diagnostics \cup {<<"duplicate_anchor", provisional>>} ELSE diagnostics

LabelOf(text) == IF text = <<>> THEN NoId ELSE <<"heading", text[1]>>

-----------------------------------------------------------------------------
(* assemble: the graph of the candidates, by provisional id.               *)

CandidateGraph ==
    [p \in {candidates[i].provisional : i \in DOMAIN candidates} |->
        candidates[CHOOSE i \in DOMAIN candidates : candidates[i].provisional = p]]

SourceGraph == INSTANCE SourcePatch
    WITH Uids <- 1..MaxBlocks, Kinds <- {"section"}, Labels <- {}, Texts <- {}, NoLabel <- NoId,
         Root <- DocumentRoot, MaxOperations <- 0, base <- <<>>, working <- <<>>, ops <- {}

GraphIsValid == SourceGraph!Valid(CandidateGraph) /\ SourceGraph!LabelsUnique(CandidateGraph)

\* How often a run of text is in a sequence of nodes.
PlacesOf(t, nodes) ==
    {place \in UNION {{i} \X DOMAIN nodes[i].text : i \in DOMAIN nodes} :
        nodes[place[1]].text[place[2]] = t}

TimesIn(t, nodes) == Cardinality(PlacesOf(t, nodes))
=============================================================================
