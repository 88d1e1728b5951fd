----------------------------- MODULE SourcePatch -----------------------------
(***************************************************************************)
(* Curated patches over the structural graph of one source revision        *)
(* (corpus/source_patch, corpus/source_graph): the patch language,         *)
(* operation by operation on a working copy, and the validation that       *)
(* decides whether the result is a source graph again.                     *)
(*                                                                         *)
(* A behaviour starts from any committed graph the loader accepts.  It     *)
(* builds a patch one operation at a time, already applying it: a patch    *)
(* whose next operation is not enabled here is one the code rejects, and   *)
(* a rejection leaves everything as it was.  The stored digests are left   *)
(* out: they are recomputed before the result is validated, and the        *)
(* expected digest of an operation is that of the committed content.       *)
(* Locators are left out too.                                              *)
(***************************************************************************)
EXTENDS Integers, FiniteSets

CONSTANTS
    Uids,           \* snode_ uids: a finite set of numbers, compared by the code
    Kinds,          \* of SourceNodeKind, those exercised
    Labels, Texts,
    NoLabel,
    Root,           \* the parent of a top-level node
    MaxOperations   \* bound on the operations of a patch

ASSUME UidsAreNumbers == Uids \subseteq Nat \ {0} /\ IsFiniteSet(Uids)
ASSUME RootIsNoUid == Root = 0

VARIABLES
    base,       \* the committed parser graph
    working,    \* apply_patch's clone of it
    ops         \* <<op_tag, conflict_identity>> of the operations applied so far

patchVars == <<base, working, ops>>

\* SourceNodeKind::may_parent.
MayParent(parent, child) ==
    \/ parent = "section"
    \/ parent = "table" /\ child = "table_row"
    \/ parent = "table_row" /\ child = "table_cell"

Node == [parent : Uids \cup {Root}, kind : Kinds, ordinal : 0..Cardinality(Uids),
         label : Labels \cup {NoLabel}, text : Texts]

Graphs == UNION {[D -> Node] : D \in SUBSET Uids}

Children(G, p) == {u \in DOMAIN G : G[u].parent = p}
Without(G, S) == [u \in DOMAIN G \ S |-> G[u]]

-----------------------------------------------------------------------------
(* validate_graph_standalone.                                              *)

ParentsResolve(G) == \A u \in DOMAIN G : G[u].parent \in DOMAIN G \cup {Root}

\* Faulty variant: only a node that is its own parent counts as a cycle.
Acyclic_SelfLoopsOnly(G) == \A u \in DOMAIN G : G[u].parent # u

\* No set of nodes has all its parents inside itself.
Acyclic(G) ==
    \A S \in SUBSET DOMAIN G : S # {} => \E u \in S : G[u].parent \notin S

KindsLegal(G) ==
    \A u \in DOMAIN G : G[u].parent \in DOMAIN G => MayParent(G[G[u].parent].kind, G[u].kind)

\* Sibling ordinals are unique and contiguous from 0.
OrdinalsContiguous(G) ==
    \A p \in DOMAIN G \cup {Root} :
        {G[u].ordinal : u \in Children(G, p)} = 0..Cardinality(Children(G, p)) - 1

Valid(G) == ParentsResolve(G) /\ Acyclic(G) /\ KindsLegal(G) /\ OrdinalsContiguous(G)

\* What SourceGraph::insert enforces as the records load.
LabelsUnique(G) ==
    \A u, w \in DOMAIN G :
        G[u].kind = G[w].kind /\ G[u].label = G[w].label /\ G[u].label # NoLabel => u = w

-----------------------------------------------------------------------------
(* The operations on the working copy.                                     *)

\* replace_content, reclassify, reparent: the target must be there and its
\* stored digest, kind, or parent and ordinal must be the expected ones; the
\* expected values are those of the patch, any node can be described so.
Replaced(G, u, text, label) == [G EXCEPT ![u].text = text, ![u].label = label]
Reclassified(G, u, kind) == [G EXCEPT ![u].kind = kind]
Reparented(G, u, parent, ordinal) == [G EXCEPT ![u].parent = parent, ![u].ordinal = ordinal]

\* insert: SourceGraph::insert refuses a uid or a label that is taken.
MayInsert(G, u, parent, node) ==
    /\ parent \in DOMAIN G \cup {Root}
    /\ u \notin DOMAIN G
    /\ \A w \in DOMAIN G : G[w].kind = node.kind /\ G[w].label = node.label => node.label = NoLabel

Inserted(G, u, node) == [w \in DOMAIN G \cup {u} |-> IF w = u THEN node ELSE G[w]]

\* Order by (ordinal, uid).
Before(G, u, w) ==
    \/ G[u].ordinal < G[w].ordinal
    \/ G[u].ordinal = G[w].ordinal /\ u < w

\* Faulty variant: the removed node's children go behind its later siblings.
PromoteChildren_AtTheEnd(G, t) ==
    LET H == Without(G, {t})
        p == G[t].parent
        promoted == Children(H, t)
        others == {u \in Children(H, p) : G[u].ordinal # G[t].ordinal}
        Rank(u, S) == Cardinality({w \in S : Before(G, w, u)})
    IN [u \in DOMAIN H |->
          IF u \in promoted
          THEN [H[u] EXCEPT !.parent = p, !.ordinal = Cardinality(others) + Rank(u, promoted)]
          ELSE IF u \in others THEN [H[u] EXCEPT !.ordinal = Rank(u, others)]
          ELSE H[u]]

\* remove with reparent_children: the children take the place of their parent
\* among its siblings, and that sequence is numbered again.
PromoteChildren(G, t) ==
    LET H == Without(G, {t})
        p == G[t].parent
        promoted == Children(H, t)
        earlier == {u \in Children(H, p) : G[u].ordinal < G[t].ordinal}
        later == {u \in Children(H, p) : G[u].ordinal > G[t].ordinal}
        Rank(u, S) == Cardinality({w \in S : Before(G, w, u)})
    IN [u \in DOMAIN H |->
          IF u \in promoted
          THEN [H[u] EXCEPT !.parent = p, !.ordinal = Cardinality(earlier) + Rank(u, promoted)]
          ELSE IF u \in earlier THEN [H[u] EXCEPT !.ordinal = Rank(u, earlier)]
          ELSE IF u \in later
          THEN [H[u] EXCEPT !.ordinal = Cardinality(earlier \cup promoted) + Rank(u, later)]
          ELSE H[u]]

\* remove with remove_subtree: the node and everything below it.
Subtree(G, t) ==
    {u \in DOMAIN G :
        \A S \in SUBSET DOMAIN G :
            t \in S /\ (\A w \in DOMAIN G : G[w].parent \in S => w \in S) => u \in S}

-----------------------------------------------------------------------------
(* The behaviours.                                                         *)

PatchInit ==
    /\ base \in {G \in Graphs : Valid(G) /\ LabelsUnique(G)}
    /\ working = base
    /\ ops = {}

\* One operation: the record must not hold another of this tag and target.
Operation(tag, u, G) ==
    /\ Cardinality(ops) < MaxOperations
    /\ <<tag, u>> \notin ops
    /\ ops' = ops \cup {<<tag, u>>}
    /\ working' = G
    /\ UNCHANGED base

ReplaceContent(u) ==
    \E text \in Texts, label \in Labels \cup {NoLabel} :
        /\ label = NoLabel => working[u].label = NoLabel    \* a label is set, never cleared
        /\ Operation("replace_content", u, Replaced(working, u, text, label))

Reclassify(u) ==
    \E kind \in Kinds : Operation("reclassify", u, Reclassified(working, u, kind))

Reparent(u) ==
    \E parent \in DOMAIN working \cup {Root}, ordinal \in 0..Cardinality(Uids) :
        Operation("reparent", u, Reparented(working, u, parent, ordinal))

Insert(u) ==
    \E parent \in Uids \cup {Root}, kind \in Kinds, ordinal \in 0..Cardinality(Uids),
       label \in Labels \cup {NoLabel}, text \in Texts :
        LET node == [parent |-> parent, kind |-> kind, ordinal |-> ordinal, label |-> label,
                     text |-> text]
        IN /\ MayInsert(working, u, parent, node)
           /\ Operation("insert", u, Inserted(working, u, node))

Remove(u) ==
    \/ Operation("remove", u, PromoteChildren(working, u))
    \/ Operation("remove", u, Without(working, Subtree(working, u)))

\* The patch is complete, whatever comes of it, or it is dropped.
NextPatch ==
    /\ ops # {}
    /\ working' = base
    /\ ops' = {}
    /\ UNCHANGED base

\* apply_patch returns the working copy as the candidate graph.
Accepted == ops # {} /\ Valid(working)

PatchNext ==
    \/ \E u \in DOMAIN working :
        ReplaceContent(u) \/ Reclassify(u) \/ Reparent(u) \/ Remove(u)
    \/ \E u \in Uids : Insert(u)
    \/ NextPatch

PatchSpec == PatchInit /\ [][PatchNext]_patchVars

-----------------------------------------------------------------------------
(* Properties.                                                             *)

\* The nodes above u, u itself among them.
Above(G, u) == {a \in DOMAIN G : u \in Subtree(G, a)}

\* Reading order: a node before what is below it, siblings by ordinal and uid.
ReadsBefore(G, u, w) ==
    \/ u # w /\ u \in Above(G, w)
    \/ \E a \in Above(G, u), b \in Above(G, w) :
        a # b /\ G[a].parent = G[b].parent /\ Before(G, a, b)

Named(tags) == {u \in Uids : \E tag \in tags : <<tag, u>> \in ops}

\* A graph apply_patch accepts has one reading order: of two nodes exactly one
\* comes first, which a loop of parents would spoil, and no uid decides which: two
\* siblings never share an ordinal (validate_graph_standalone after the operations).
ResultReadsInOneOrder ==
    Accepted =>
        \A u, w \in DOMAIN working :
            u # w =>
                /\ ReadsBefore(working, u, w) <=> ~ReadsBefore(working, w, u)
                /\ working[u].parent = working[w].parent => working[u].ordinal # working[w].ordinal

\* No implicit cascade (source_patch.rs): in the working copy a node is gone
\* only if a remove named it or a node above it, a node is new only if an insert
\* named it, a node's kind, label and text are the committed ones unless an
\* operation named it, and it hangs under its nearest ancestor that is left
\* unless a reparent or an insert moved it.  Removing nodes, in any order and with
\* either disposition, never reorders what is left (reparent_children,
\* remove_subtree).
NoImplicitCascade ==
    /\ DOMAIN working \ DOMAIN base \subseteq Named({"insert"})
    /\ \A u \in (DOMAIN working \cap DOMAIN base) \ Named({"insert"}) :
        /\ u \notin Named({"reclassify"}) => working[u].kind = base[u].kind
        /\ u \notin Named({"replace_content"}) =>
            working[u].label = base[u].label /\ working[u].text = base[u].text
    /\ Named({"reparent", "insert"}) = {} =>
        /\ \A u \in DOMAIN base \ DOMAIN working :
            Above(base, u) \cap Named({"remove"}) # {}
        /\ \A u \in DOMAIN working :
            Above(working, u) = Above(base, u) \cap DOMAIN working
        /\ \A u, w \in DOMAIN working :
            ReadsBefore(base, u, w) => ReadsBefore(working, u, w)

\* Labels are the human identity of a node, unique within one kind and
\* revision (source_graph.rs, "Structural invariants").  The graph a patch
\* produces is checked by the complete validator; it does not keep this.
LabelsStayUnique == Accepted => LabelsUnique(working)
=============================================================================
