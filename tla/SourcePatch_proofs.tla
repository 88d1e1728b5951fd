------------------------- MODULE SourcePatch_proofs -------------------------
(***************************************************************************)
(* An accepted patch leaves a graph with one reading order, for any set of *)
(* uids and patches of any length.  What the operations contribute is only *)
(* the shape of the working copy (Shape, inductive): nodes are finitely    *)
(* many, and their ordinals numbers.  The order itself follows from what   *)
(* validate_graph_standalone asks: subtrees of an acyclic graph are nested *)
(* or apart, and siblings numbered 0..n-1 have n ordinals.                 *)
(*                                                                         *)
(* A removal cascades to nothing the patch does not name, and promoting    *)
(* the children of a removed node keeps the order of what is left          *)
(* (RemovalNeverCascades).  Promotion renumbers by rank in groups: the     *)
(* children of the removed node stand where it stood.                      *)
(***************************************************************************)
EXTENDS SourcePatch, FiniteSetTheorems, TLAPS

-----------------------------------------------------------------------------
(* Subtrees.                                                               *)

LEMMA SubtreeHasItsRoot ==
  ASSUME NEW G, NEW a \in DOMAIN G
  PROVE  a \in Subtree(G, a)
BY DEF Subtree

LEMMA SubtreeHasTheChildren ==
  ASSUME NEW G, NEW a, NEW u \in DOMAIN G, G[u].parent \in Subtree(G, a)
  PROVE  u \in Subtree(G, a)
BY DEF Subtree

LEMMA SubtreesNest ==
  ASSUME NEW G, NEW a, NEW b \in Subtree(G, a)
  PROVE  Subtree(G, b) \subseteq Subtree(G, a)
BY DEF Subtree

\* Below its root, a subtree holds the parent of each of its nodes: without
\* it the node could be left out.
LEMMA SubtreeHasTheParents ==
  ASSUME NEW G, NEW a \in DOMAIN G, NEW u \in Subtree(G, a), u # a
  PROVE  G[u].parent \in Subtree(G, a)
<1>1. SUFFICES ASSUME G[u].parent \notin Subtree(G, a) PROVE FALSE
  OBVIOUS
<1> DEFINE S == Subtree(G, a) \ {u}
<1>2. S \in SUBSET DOMAIN G /\ a \in S
  BY SubtreeHasItsRoot DEF Subtree
<1>3. \A w \in DOMAIN G : G[w].parent \in S => w \in S
  BY <1>1, SubtreeHasTheChildren
<1>4. u \in S
  <2> HIDE DEF S
  <2> QED BY <1>2, <1>3 DEF Subtree
<1> QED BY <1>4

\* A node is in the subtree of its parent.
LEMMA ParentIsAbove ==
  ASSUME NEW G, NEW u \in DOMAIN G, G[u].parent \in DOMAIN G
  PROVE  u \in Subtree(G, G[u].parent)
BY SubtreeHasItsRoot, SubtreeHasTheChildren

\* Two nodes below each other would lie on a cycle.
LEMMA SubtreesAreAntisymmetric ==
  ASSUME NEW G, Acyclic(G), NEW a \in DOMAIN G, NEW b \in DOMAIN G,
         b \in Subtree(G, a), a \in Subtree(G, b)
  PROVE  a = b
<1>1. SUFFICES ASSUME a # b PROVE FALSE
  OBVIOUS
<1> DEFINE S == {v \in DOMAIN G : v \in Subtree(G, a) /\ a \in Subtree(G, v)}
<1>2. S \in SUBSET DOMAIN G /\ a \in S
  BY SubtreeHasItsRoot
<1>3. ASSUME NEW v \in S PROVE G[v].parent \in S
  <2>1. G[v].parent \in Subtree(G, a)
    <3>1. CASE v # a
      BY <3>1, SubtreeHasTheParents
    <3>2. CASE v = a
      BY <3>2, <1>1, SubtreeHasTheParents, SubtreesNest
    <3> QED BY <3>1, <3>2
  <2>2. G[v].parent \in DOMAIN G
    BY <2>1 DEF Subtree
  <2>3. v \in Subtree(G, G[v].parent)
    BY <2>2, ParentIsAbove
  <2>4. a \in Subtree(G, G[v].parent)
    BY <2>3, SubtreesNest
  <2> QED BY <2>1, <2>2, <2>4
<1> HIDE DEF S
<1> QED BY <1>2, <1>3 DEF Acyclic

\* Of two nodes above the same one, one is above the other.
LEMMA SubtreesAreNestedOrApart ==
  ASSUME NEW G, Acyclic(G), NEW a \in DOMAIN G, NEW b \in DOMAIN G,
         NEW u, u \in Subtree(G, a), u \in Subtree(G, b)
  PROVE  a \in Subtree(G, b) \/ b \in Subtree(G, a)
<1>1. SUFFICES ASSUME a \notin Subtree(G, b), b \notin Subtree(G, a) PROVE FALSE
  OBVIOUS
<1> DEFINE S == Subtree(G, a) \cap Subtree(G, b)
<1>2. S \in SUBSET DOMAIN G /\ u \in S
  BY DEF Subtree
<1>3. ASSUME NEW v \in S PROVE G[v].parent \in S
  BY <1>1, SubtreeHasTheParents
<1> HIDE DEF S
<1> QED BY <1>2, <1>3 DEF Acyclic

\* No node is its own parent, and none is below a sibling of its own.
LEMMA SiblingsAreApart ==
  ASSUME NEW G, Acyclic(G), NEW a \in DOMAIN G, NEW b \in DOMAIN G,
         a # b, G[a].parent = G[b].parent
  PROVE  a \notin Subtree(G, b)
<1>1. SUFFICES ASSUME a \in Subtree(G, b) PROVE FALSE
  OBVIOUS
<1>2. G[b].parent \in Subtree(G, b)
  BY <1>1, SubtreeHasTheParents
<1>3. G[b].parent \in DOMAIN G
  BY <1>2 DEF Subtree
<1>4. G[b].parent = b
  BY <1>2, <1>3, ParentIsAbove, SubtreesAreAntisymmetric
<1>5. {b} \in SUBSET DOMAIN G /\ {b} # {} /\ \A v \in {b} : G[v].parent \in {b}
  BY <1>4
<1> QED BY <1>5 DEF Acyclic

LEMMA NoNodeIsBelowTwoSiblings ==
  ASSUME NEW G, Acyclic(G), NEW a \in DOMAIN G, NEW b \in DOMAIN G,
         a # b, G[a].parent = G[b].parent, NEW u, u \in Subtree(G, a)
  PROVE  u \notin Subtree(G, b)
BY SubtreesAreNestedOrApart, SiblingsAreApart

-----------------------------------------------------------------------------
(* Reading order.                                                          *)

\* What the operations preserve of the working copy, valid or not.
WorkingNode == [parent : Uids \cup {Root}, kind : Kinds, ordinal : Nat,
                label : Labels \cup {NoLabel}, text : Texts]

Shape(G) ==
    /\ DOMAIN G \subseteq Uids
    /\ G = [u \in DOMAIN G |-> G[u]]
    /\ \A u \in DOMAIN G : G[u] \in WorkingNode

LEMMA ShapeIsFinite ==
  ASSUME NEW G, Shape(G)
  PROVE  \A S \in SUBSET DOMAIN G : IsFiniteSet(S) /\ Cardinality(S) \in Nat
<1>1. \A S \in SUBSET DOMAIN G : S \in SUBSET Uids
  BY DEF Shape
<1> QED BY <1>1, UidsAreNumbers, FS_Subset, FS_CardinalityType

\* n siblings with the ordinals 0..n-1 have n ordinals.
LEMMA SiblingsDiffer ==
  ASSUME NEW G, Shape(G), ParentsResolve(G), OrdinalsContiguous(G),
         NEW a \in DOMAIN G, NEW b \in DOMAIN G, a # b, G[a].parent = G[b].parent
  PROVE  G[a].ordinal # G[b].ordinal
<1> DEFINE C == Children(G, G[a].parent)
           n == Cardinality(C)
           f == [u \in C |-> G[u].ordinal]
<1>1. C \in SUBSET DOMAIN G /\ a \in C /\ b \in C
  BY DEF Children
<1>2. IsFiniteSet(C) /\ n \in Nat
  BY <1>1, ShapeIsFinite
<1>3. {G[u].ordinal : u \in C} = 0..n - 1
  BY DEF ParentsResolve, OrdinalsContiguous
<1>4. f \in Surjection(C, 0..n - 1)
  <2> HIDE DEF C, n
  <2> QED BY <1>3 DEF Surjection
<1>5. Cardinality(0..n - 1) = n
  <2>1. n - 1 \in Int /\ (0 > n - 1 => n = 0)
    <3> HIDE DEF n
    <3> QED BY <1>2
  <2>2. Cardinality(0..n - 1) = IF 0 > n - 1 THEN 0 ELSE n - 1 - 0 + 1
    <3> HIDE DEF n
    <3> QED BY <2>1, FS_Interval
  <2> HIDE DEF n
  <2> QED BY <1>2, <2>1, <2>2
<1>6. f \in Injection(C, 0..n - 1)
  <2> HIDE DEF C, f
  <2> QED BY <1>2, <1>4, <1>5, FS_Surjection
<1>7. f[a] # f[b]
  <2> HIDE DEF C, n, f
  <2> QED BY <1>1, <1>6 DEF Injection, IsInjective
<1> QED BY <1>1, <1>7

\* The order of siblings is total and exclusive.
LEMMA SiblingsAreOrdered ==
  ASSUME NEW G, Shape(G), NEW a \in DOMAIN G, NEW b \in DOMAIN G, a # b
  PROVE  Before(G, a, b) <=> ~Before(G, b, a)
<1>1. a \in Nat /\ b \in Nat
  BY UidsAreNumbers DEF Shape
<1>2. G[a].ordinal \in Nat /\ G[b].ordinal \in Nat
  BY DEF Shape, WorkingNode
<1> QED BY <1>1, <1>2 DEF Before

\* Two nodes that are not below each other are below two siblings: climb from
\* u until the parent is above w too, or is no node, then from w to that parent.
LEMMA OneComesFirst ==
  ASSUME NEW G, Shape(G), ParentsResolve(G), Acyclic(G),
         NEW u \in DOMAIN G, NEW w \in DOMAIN G, u # w
  PROVE  ReadsBefore(G, u, w) \/ ReadsBefore(G, w, u)
<1>1. CASE u \in Subtree(G, w) \/ w \in Subtree(G, u)
  BY <1>1 DEF ReadsBefore, Above
<1>2. CASE u \notin Subtree(G, w) /\ w \notin Subtree(G, u)
  <2> DEFINE S == {v \in DOMAIN G : u \in Subtree(G, v) /\ w \notin Subtree(G, v)}
  <2>1. S \in SUBSET DOMAIN G /\ u \in S
    BY <1>2, SubtreeHasItsRoot
  <2>2. PICK a \in S : G[a].parent \notin S
    <3> HIDE DEF S
    <3> QED BY <2>1 DEF Acyclic
  <2> DEFINE p == G[a].parent
             T == {v \in DOMAIN G : w \in Subtree(G, v)
                                    /\ (p \in DOMAIN G => v \in Subtree(G, p) /\ v # p)}
  <2>3. p \in DOMAIN G => u \in Subtree(G, p) /\ w \in Subtree(G, p)
    BY <2>2, ParentIsAbove, SubtreesNest
  <2>4. T \in SUBSET DOMAIN G /\ w \in T
    BY <1>2, <2>3, SubtreeHasItsRoot
  <2>5. PICK b \in T : G[b].parent \notin T
    <3> HIDE DEF T
    <3> QED BY <2>4 DEF Acyclic
  <2>6. G[b].parent \in DOMAIN G => w \in Subtree(G, G[b].parent)
    BY <2>5, ParentIsAbove, SubtreesNest
  <2>7. G[b].parent = p
    <3>1. CASE p \in DOMAIN G
      <4>1. G[b].parent \in Subtree(G, p)
        BY <3>1, <2>5, SubtreeHasTheParents
      <4> QED BY <3>1, <4>1, <2>5, <2>6 DEF Subtree
    <3>2. CASE p \notin DOMAIN G
      BY <3>2, <2>2, <2>5, <2>6 DEF ParentsResolve
    <3> QED BY <3>1, <3>2
  <2>8. a \in Above(G, u) /\ b \in Above(G, w) /\ a # b
    BY <2>2, <2>5 DEF Above
  <2>9. Before(G, a, b) \/ Before(G, b, a)
    BY <2>2, <2>5, <2>8, SiblingsAreOrdered
  <2> QED BY <2>7, <2>8, <2>9 DEF ReadsBefore
<1> QED BY <1>1, <1>2

\* The siblings above two nodes are the same whichever way they are found.
LEMMA SameSiblings ==
  ASSUME NEW G, Acyclic(G), NEW u, NEW w,
         NEW a \in DOMAIN G, NEW b \in DOMAIN G, a # b, G[a].parent = G[b].parent,
         NEW c \in DOMAIN G, NEW d \in DOMAIN G, c # d, G[c].parent = G[d].parent,
         u \in Subtree(G, a), w \in Subtree(G, b), w \in Subtree(G, c), u \in Subtree(G, d)
  PROVE  a = d
<1>1. ASSUME a # d, a \in Subtree(G, d) PROVE FALSE
  <2>1. b \in Subtree(G, d)
    BY <1>1, SubtreeHasTheParents, SubtreeHasTheChildren
  <2> QED BY <2>1, SubtreesNest, NoNodeIsBelowTwoSiblings
<1>2. ASSUME a # d, d \in Subtree(G, a) PROVE FALSE
  <2>1. c \in Subtree(G, a)
    BY <1>2, SubtreeHasTheParents, SubtreeHasTheChildren
  <2> QED BY <2>1, SubtreesNest, NoNodeIsBelowTwoSiblings
<1> QED BY <1>1, <1>2, SubtreesAreNestedOrApart

LEMMA NotBothComeFirst ==
  ASSUME NEW G, Shape(G), Acyclic(G), NEW u \in DOMAIN G, NEW w \in DOMAIN G, u # w,
         ReadsBefore(G, u, w), ReadsBefore(G, w, u)
  PROVE  FALSE
<1>1. CASE u \in Above(G, w) /\ w \in Above(G, u)
  BY <1>1, SubtreesAreAntisymmetric DEF Above
<1>2. ASSUME NEW x \in DOMAIN G, NEW y \in DOMAIN G, y \in Subtree(G, x),
             NEW a \in Above(G, y), NEW b \in Above(G, x), a # b, G[a].parent = G[b].parent
      PROVE  FALSE
  <2>1. y \in Subtree(G, a) /\ y \in Subtree(G, b)
    BY <1>2, SubtreesNest DEF Above
  <2> QED BY <1>2, <2>1, NoNodeIsBelowTwoSiblings DEF Above
<1>3. ASSUME NEW a \in Above(G, u), NEW b \in Above(G, w), a # b, G[a].parent = G[b].parent,
             Before(G, a, b),
             NEW c \in Above(G, w), NEW d \in Above(G, u), c # d, G[c].parent = G[d].parent,
             Before(G, c, d)
      PROVE  FALSE
  <2>1. a = d
    BY <1>3, SameSiblings DEF Above
  <2>2. c = b
    BY <1>3, SameSiblings DEF Above
  <2> QED BY <1>3, <2>1, <2>2, SiblingsAreOrdered DEF Above
<1>4. ASSUME NEW x \in DOMAIN G, NEW y \in DOMAIN G, x \in Above(G, y), ReadsBefore(G, y, x),
             ~(x # y /\ y \in Above(G, x))
      PROVE  FALSE
  BY <1>2, <1>4 DEF ReadsBefore, Above
<1>5. CASE u \in Above(G, w) /\ w \notin Above(G, u)
  BY <1>5, <1>4
<1>6. CASE w \in Above(G, u) /\ u \notin Above(G, w)
  BY <1>6, <1>4
<1>7. CASE u \notin Above(G, w) /\ w \notin Above(G, u)
  BY <1>7, <1>3 DEF ReadsBefore
<1> QED BY <1>1, <1>5, <1>6, <1>7

\* validate_graph_standalone: a graph it accepts has one reading order.
LEMMA ValidReadsInOneOrder ==
  ASSUME NEW G, Shape(G), Valid(G), NEW u \in DOMAIN G, NEW w \in DOMAIN G, u # w
  PROVE  /\ ReadsBefore(G, u, w) <=> ~ReadsBefore(G, w, u)
         /\ G[u].parent = G[w].parent => G[u].ordinal # G[w].ordinal
BY OneComesFirst, NotBothComeFirst, SiblingsDiffer DEF Valid

-----------------------------------------------------------------------------
(* The operations.                                                         *)

LEMMA OperationsKeepTheShape ==
  ASSUME NEW G, Shape(G)
  PROVE  /\ \A u \in DOMAIN G :
             /\ \A text \in Texts, label \in Labels \cup {NoLabel} :
                 Shape(Replaced(G, u, text, label))
             /\ \A kind \in Kinds : Shape(Reclassified(G, u, kind))
             /\ \A parent \in DOMAIN G \cup {Root}, ordinal \in Nat :
                 Shape(Reparented(G, u, parent, ordinal))
         /\ \A u \in Uids, node \in WorkingNode : Shape(Inserted(G, u, node))
         /\ \A S : Shape(Without(G, S))
<1>1. DOMAIN G \subseteq Uids /\ \A u \in DOMAIN G : G[u] \in WorkingNode
  BY DEF Shape
<1>0. ASSUME NEW u \in DOMAIN G, NEW node \in WorkingNode
      PROVE  Shape([G EXCEPT ![u] = node])
  BY <1>1 DEF Shape
<1>2. ASSUME NEW u \in DOMAIN G, NEW text \in Texts, NEW label \in Labels \cup {NoLabel}
      PROVE  Shape(Replaced(G, u, text, label))
  <2>1. [G[u] EXCEPT !.text = text, !.label = label] \in WorkingNode
    BY <1>1 DEF WorkingNode
  <2>2. Replaced(G, u, text, label)
          = [G EXCEPT ![u] = [G[u] EXCEPT !.text = text, !.label = label]]
    BY <1>1 DEF Replaced, WorkingNode
  <2> QED BY <1>0, <2>1, <2>2
<1>3. ASSUME NEW u \in DOMAIN G, NEW kind \in Kinds PROVE Shape(Reclassified(G, u, kind))
  <2>1. [G[u] EXCEPT !.kind = kind] \in WorkingNode
    BY <1>1 DEF WorkingNode
  <2> QED BY <1>0, <2>1 DEF Reclassified
<1>4. ASSUME NEW u \in DOMAIN G, NEW parent \in DOMAIN G \cup {Root}, NEW ordinal \in Nat
      PROVE  Shape(Reparented(G, u, parent, ordinal))
  <2>1. [G[u] EXCEPT !.parent = parent, !.ordinal = ordinal] \in WorkingNode
    BY <1>1 DEF WorkingNode
  <2>2. Reparented(G, u, parent, ordinal)
          = [G EXCEPT ![u] = [G[u] EXCEPT !.parent = parent, !.ordinal = ordinal]]
    BY <1>1 DEF Reparented, WorkingNode
  <2> QED BY <1>0, <2>1, <2>2
<1>5. ASSUME NEW u \in Uids, NEW node \in WorkingNode PROVE Shape(Inserted(G, u, node))
  BY <1>1 DEF Shape, Inserted
<1>6. ASSUME NEW S PROVE Shape(Without(G, S))
  BY <1>1 DEF Shape, Without
<1> QED BY <1>2, <1>3, <1>4, <1>5, <1>6

\* The new ordinals of promoted children are counts of siblings.
LEMMA PromotionKeepsTheShape ==
  ASSUME NEW G, Shape(G), NEW t \in DOMAIN G
  PROVE  Shape(PromoteChildren(G, t))
<1> DEFINE H == Without(G, {t})
           p == G[t].parent
           promoted == Children(H, t)
           earlier == {u \in Children(H, p) : G[u].ordinal < G[t].ordinal}
           later == {u \in Children(H, p) : G[u].ordinal > G[t].ordinal}
           Rank(u, S) == Cardinality({w \in S : Before(G, w, u)})
           At(u) == IF u \in promoted
                    THEN [H[u] EXCEPT !.parent = p,
                                      !.ordinal = Cardinality(earlier) + Rank(u, promoted)]
                    ELSE IF u \in earlier THEN [H[u] EXCEPT !.ordinal = Rank(u, earlier)]
                    ELSE IF u \in later
                    THEN [H[u] EXCEPT !.ordinal = Cardinality(earlier \cup promoted)
                                                  + Rank(u, later)]
                    ELSE H[u]
<1>1. Shape(H)
  BY OperationsKeepTheShape
<1>2. p \in Uids \cup {Root}
  BY DEF Shape, WorkingNode
<1>3. promoted \in SUBSET DOMAIN H /\ earlier \in SUBSET DOMAIN H /\ later \in SUBSET DOMAIN H
  BY DEF Children
<1>4. /\ Cardinality(earlier) \in Nat
      /\ Cardinality(earlier \cup promoted) \in Nat
      /\ \A u : /\ Rank(u, promoted) \in Nat
                /\ Rank(u, earlier) \in Nat
                /\ Rank(u, later) \in Nat
  <2> HIDE DEF H, promoted, earlier, later
  <2> QED BY <1>1, <1>3, ShapeIsFinite
<1>5. ASSUME NEW u \in DOMAIN H PROVE At(u) \in WorkingNode
  <2>1. H[u] \in WorkingNode
    BY <1>1 DEF Shape
  <2>2. ASSUME NEW x \in WorkingNode, NEW n \in Nat
        PROVE  /\ [x EXCEPT !.ordinal = n] \in WorkingNode
               /\ [x EXCEPT !.parent = p, !.ordinal = n] \in WorkingNode
    <3> HIDE DEF p
    <3> QED BY <1>2 DEF WorkingNode
  <2>3. Cardinality(earlier) + Rank(u, promoted) \in Nat
        /\ Cardinality(earlier \cup promoted) + Rank(u, later) \in Nat
    <3> HIDE DEF promoted, earlier, later, Rank
    <3> QED BY <1>4
  <2>4. CASE u \in promoted
    <3>1. At(u) = [H[u] EXCEPT !.parent = p, !.ordinal = Cardinality(earlier) + Rank(u, promoted)]
      BY <2>4
    <3> HIDE DEF H, p, promoted, earlier, Rank, At
    <3> QED BY <2>1, <2>2, <2>3, <3>1
  <2>5. CASE u \notin promoted
    <3> HIDE DEF H, p, promoted, earlier, later, Rank
    <3> QED BY <1>4, <2>1, <2>2, <2>3, <2>5
  <2> QED BY <2>4, <2>5
<1>6. PromoteChildren(G, t) = [u \in DOMAIN H |-> At(u)]
  BY DEF PromoteChildren
<1>7. DOMAIN H \subseteq Uids
  BY <1>1 DEF Shape
<1> HIDE DEF H, At
<1> QED BY <1>5, <1>6, <1>7 DEF Shape

LEMMA CommittedShape ==
  ASSUME PatchInit
  PROVE  Shape(base) /\ Shape(working)
<1>1. PICK D \in SUBSET Uids : base \in [D -> Node]
  BY DEF PatchInit, Graphs
<1>2. 0..Cardinality(Uids) \subseteq Nat
  BY UidsAreNumbers, FS_CardinalityType
<1>3. Node \subseteq WorkingNode
  BY <1>2 DEF Node, WorkingNode
<1> QED BY <1>1, <1>3 DEF PatchInit, Shape

LEMMA StepKeepsTheShape ==
  ASSUME Shape(base), Shape(working), [PatchNext]_patchVars
  PROVE  Shape(base)' /\ Shape(working)'
<1>1. CASE UNCHANGED patchVars
  BY <1>1 DEF patchVars, Shape, WorkingNode
<1>2. \A n \in 0..Cardinality(Uids) : n \in Nat
  BY UidsAreNumbers, FS_CardinalityType
<1>3. ASSUME NEW tag, NEW u, NEW G, Shape(G), Operation(tag, u, G)
      PROVE  Shape(base)' /\ Shape(working)'
  BY <1>3 DEF Operation, Shape, WorkingNode
<1>4. ASSUME NEW u \in DOMAIN working, ReplaceContent(u) PROVE Shape(base)' /\ Shape(working)'
  BY <1>3, <1>4, OperationsKeepTheShape DEF ReplaceContent
<1>5. ASSUME NEW u \in DOMAIN working, Reclassify(u) PROVE Shape(base)' /\ Shape(working)'
  BY <1>3, <1>5, OperationsKeepTheShape DEF Reclassify
<1>6. ASSUME NEW u \in DOMAIN working, Reparent(u) PROVE Shape(base)' /\ Shape(working)'
  BY <1>2, <1>3, <1>6, OperationsKeepTheShape DEF Reparent
<1>7. ASSUME NEW u \in DOMAIN working, Remove(u) PROVE Shape(base)' /\ Shape(working)'
  BY <1>3, <1>7, OperationsKeepTheShape, PromotionKeepsTheShape DEF Remove
<1>8. ASSUME NEW u \in Uids, Insert(u) PROVE Shape(base)' /\ Shape(working)'
  <2>1. PICK parent \in Uids \cup {Root}, kind \in Kinds, ordinal \in 0..Cardinality(Uids),
             label \in Labels \cup {NoLabel}, text \in Texts :
               Operation("insert", u, Inserted(working, u,
                 [parent |-> parent, kind |-> kind, ordinal |-> ordinal, label |-> label,
                  text |-> text]))
    BY <1>8 DEF Insert
  <2>2. [parent |-> parent, kind |-> kind, ordinal |-> ordinal, label |-> label,
         text |-> text] \in WorkingNode
    BY <1>2 DEF WorkingNode
  <2>3. Shape(Inserted(working, u, [parent |-> parent, kind |-> kind, ordinal |-> ordinal,
                                    label |-> label, text |-> text]))
    BY <2>2, OperationsKeepTheShape
  <2> QED BY <1>3, <2>1, <2>3
<1>9. CASE NextPatch
  BY <1>9 DEF NextPatch, Shape, WorkingNode
<1> QED BY <1>1, <1>4, <1>5, <1>6, <1>7, <1>8, <1>9 DEF PatchNext

\* A graph apply_patch accepts has one reading order, whatever operations led
\* to it and in whatever order (validate_graph_standalone after the operations).
THEOREM AcceptedPatchesReadInOneOrder == PatchSpec => []ResultReadsInOneOrder
<1> DEFINE Shapes == Shape(base) /\ Shape(working)
<1>1. PatchInit => Shapes
  BY CommittedShape
<1>2. Shapes /\ [PatchNext]_patchVars => Shapes'
  BY StepKeepsTheShape
<1>3. Shapes => ResultReadsInOneOrder
  BY ValidReadsInOneOrder DEF ResultReadsInOneOrder, Accepted
<1> QED BY <1>1, <1>2, <1>3, PTL DEF PatchSpec

-----------------------------------------------------------------------------
(* What a removal does to the order.                                       *)

\* What validation establishes and removals keep; gaps between ordinals are
\* left where a subtree was.
Ordered(G) ==
    /\ ParentsResolve(G)
    /\ Acyclic(G)
    /\ \A a, b \in DOMAIN G :
        a # b /\ G[a].parent = G[b].parent => G[a].ordinal # G[b].ordinal

\* H is G less some nodes: who is above whom, and who reads first, is as it was.
KeepsOrder(G, H) ==
    /\ DOMAIN H \subseteq DOMAIN G
    /\ \A u \in DOMAIN H : Above(H, u) = Above(G, u) \cap DOMAIN H
    /\ \A u, w \in DOMAIN H : ReadsBefore(G, u, w) => ReadsBefore(H, u, w)

KeepsContent(G, H) ==
    \A u \in DOMAIN G \cap DOMAIN H :
        H[u].kind = G[u].kind /\ H[u].label = G[u].label /\ H[u].text = G[u].text

LEMMA ValidIsOrdered ==
  ASSUME NEW G, Shape(G), Valid(G)
  PROVE  Ordered(G)
BY SiblingsDiffer DEF Valid, Ordered

\* remove_subtree.
LEMMA SubtreeRemovalKeepsOrder ==
  ASSUME NEW G, Ordered(G), NEW t \in DOMAIN G
  PROVE  LET H == Without(G, Subtree(G, t))
         IN Ordered(H) /\ KeepsOrder(G, H) /\ KeepsContent(G, H)
<1> DEFINE H == Without(G, Subtree(G, t))
<1>1. DOMAIN H = DOMAIN G \ Subtree(G, t) /\ \A u \in DOMAIN H : H[u] = G[u]
  BY DEF Without
<1> HIDE DEF H
<1>2. \A u \in DOMAIN H : G[u].parent \notin Subtree(G, t)
  BY <1>1, SubtreeHasTheChildren
<1>3. Ordered(H)
  <2>1. ParentsResolve(H)
    BY <1>1, <1>2 DEF Ordered, ParentsResolve
  <2>2. Acyclic(H)
    <3> SUFFICES ASSUME NEW S \in SUBSET DOMAIN H, S # {} PROVE \E u \in S : H[u].parent \notin S
      BY DEF Acyclic
    <3>1. S \in SUBSET DOMAIN G
      BY <1>1
    <3>2. PICK u \in S : G[u].parent \notin S
      BY <3>1 DEF Ordered, Acyclic
    <3> QED BY <1>1, <3>2
  <2> QED BY <1>1, <2>1, <2>2 DEF Ordered
<1>4. ASSUME NEW a \in DOMAIN H, NEW u \in DOMAIN H, u \in Subtree(G, a)
      PROVE  u \in Subtree(H, a)
  <2> SUFFICES ASSUME NEW S \in SUBSET DOMAIN H, a \in S,
                      \A w \in DOMAIN H : H[w].parent \in S => w \in S
               PROVE  u \in S
    BY DEF Subtree
  <2> DEFINE R == S \cup Subtree(G, t)
  <2>1. R \in SUBSET DOMAIN G /\ a \in R
    BY <1>1 DEF Subtree
  <2>2. \A w \in DOMAIN G : G[w].parent \in R => w \in R
    BY <1>1, SubtreeHasTheChildren
  <2>3. u \in R
    <3> HIDE DEF R
    <3> QED BY <1>4, <2>1, <2>2 DEF Subtree
  <2> QED BY <1>1, <2>3
<1>5. ASSUME NEW a \in DOMAIN H, NEW u \in Subtree(H, a)
      PROVE  u \in Subtree(G, a)
  <2> SUFFICES ASSUME NEW S \in SUBSET DOMAIN G, a \in S,
                      \A w \in DOMAIN G : G[w].parent \in S => w \in S
               PROVE  u \in S
    BY <1>1, <1>5 DEF Subtree
  <2> DEFINE R == S \cap DOMAIN H
  <2>1. R \in SUBSET DOMAIN H /\ a \in R /\ \A w \in DOMAIN H : H[w].parent \in R => w \in R
    BY <1>1
  <2> HIDE DEF R
  <2>2. u \in R
    BY <1>5, <2>1 DEF Subtree
  <2> QED BY <2>2 DEF R
<1>6. \A u \in DOMAIN H : Above(H, u) = Above(G, u) \cap DOMAIN H
  BY <1>1, <1>4, <1>5 DEF Above
<1>7. ASSUME NEW u \in DOMAIN H, NEW w \in DOMAIN H, ReadsBefore(G, u, w)
      PROVE  ReadsBefore(H, u, w)
  <2>1. CASE u # w /\ u \in Above(G, w)
    BY <1>6, <2>1 DEF ReadsBefore
  <2>2. ASSUME NEW a \in Above(G, u), NEW b \in Above(G, w), a # b,
               G[a].parent = G[b].parent, Before(G, a, b)
        PROVE  ReadsBefore(H, u, w)
    <3>1. a \in DOMAIN H /\ b \in DOMAIN H
      BY <1>1, SubtreesNest DEF Above
    <3>2. a \in Above(H, u) /\ b \in Above(H, w)
      BY <1>6, <3>1
    <3>3. Before(H, a, b) /\ H[a].parent = H[b].parent
      BY <1>1, <2>2, <3>1 DEF Before
    <3> QED BY <2>2, <3>2, <3>3 DEF ReadsBefore
  <2> QED BY <1>7, <2>1, <2>2 DEF ReadsBefore
<1>8. KeepsOrder(G, H) /\ KeepsContent(G, H)
  BY <1>1, <1>6, <1>7 DEF KeepsOrder, KeepsContent
<1> QED BY <1>3, <1>8 DEF H

\* reparent_children: the promoted, and the siblings before and after the
\* removed node t; each group is numbered by rank behind the one before it.
Promoted(G, t) == Children(G, t)
Earlier(G, t) == {u \in Children(G, G[t].parent) : G[u].ordinal < G[t].ordinal}
Later(G, t) == {u \in Children(G, G[t].parent) : G[u].ordinal > G[t].ordinal}
RankIn(G, u, S) == Cardinality({w \in S : Before(G, w, u)})

LEMMA NoNodeIsItsOwnParent ==
  ASSUME NEW G, Acyclic(G), NEW u \in DOMAIN G
  PROVE  G[u].parent # u
<1>1. SUFFICES ASSUME G[u].parent = u PROVE FALSE
  OBVIOUS
<1>2. {u} \in SUBSET DOMAIN G /\ {u} # {} /\ \A v \in {u} : G[v].parent \in {u}
  BY <1>1
<1> QED BY <1>2 DEF Acyclic

\* H is G with t gone and its children in its place.
IsPromotion(G, t, H) ==
    /\ DOMAIN H = DOMAIN G \ {t}
    /\ \A u \in DOMAIN H :
        /\ H[u].parent = IF u \in Promoted(G, t) THEN G[t].parent ELSE G[u].parent
        /\ H[u].ordinal = IF u \in Promoted(G, t)
                          THEN Cardinality(Earlier(G, t)) + RankIn(G, u, Promoted(G, t))
                          ELSE IF u \in Earlier(G, t) THEN RankIn(G, u, Earlier(G, t))
                          ELSE IF u \in Later(G, t)
                          THEN Cardinality(Earlier(G, t) \cup Promoted(G, t))
                               + RankIn(G, u, Later(G, t))
                          ELSE G[u].ordinal
        /\ H[u].kind = G[u].kind /\ H[u].label = G[u].label /\ H[u].text = G[u].text

LEMMA PromotionAsGroups ==
  ASSUME NEW G, Shape(G), Acyclic(G), NEW t \in DOMAIN G
  PROVE  IsPromotion(G, t, PromoteChildren(G, t))
<1> DEFINE W == Without(G, {t})
           p == G[t].parent
           promoted == Children(W, t)
           earlier == {u \in Children(W, p) : G[u].ordinal < G[t].ordinal}
           later == {u \in Children(W, p) : G[u].ordinal > G[t].ordinal}
           Rank(u, S) == Cardinality({w \in S : Before(G, w, u)})
           At(u) == IF u \in promoted
                    THEN [W[u] EXCEPT !.parent = p,
                                      !.ordinal = Cardinality(earlier) + Rank(u, promoted)]
                    ELSE IF u \in earlier THEN [W[u] EXCEPT !.ordinal = Rank(u, earlier)]
                    ELSE IF u \in later
                    THEN [W[u] EXCEPT !.ordinal = Cardinality(earlier \cup promoted)
                                                  + Rank(u, later)]
                    ELSE W[u]
           H == PromoteChildren(G, t)
<1>1. DOMAIN W = DOMAIN G \ {t} /\ \A u \in DOMAIN W : W[u] = G[u]
  BY DEF Without
<1>2. G[t].parent # t
  BY NoNodeIsItsOwnParent
<1>3. G[t].ordinal \in Nat
  BY DEF Shape, WorkingNode
<1>4. promoted = Promoted(G, t)
  BY <1>1, <1>2 DEF Children, Promoted
<1>5. earlier = Earlier(G, t)
  BY <1>1, <1>3 DEF Children, Earlier
<1>6. later = Later(G, t)
  BY <1>1, <1>3 DEF Children, Later
<1>7. H = [u \in DOMAIN W |-> At(u)]
  BY DEF PromoteChildren
<1>8. \A u, S : Rank(u, S) = RankIn(G, u, S)
  BY DEF RankIn
<1>9. ASSUME NEW u \in DOMAIN W
      PROVE  /\ At(u).parent = IF u \in promoted THEN p ELSE G[u].parent
             /\ At(u).ordinal = IF u \in promoted
                                THEN Cardinality(earlier) + Rank(u, promoted)
                                ELSE IF u \in earlier THEN Rank(u, earlier)
                                ELSE IF u \in later
                                THEN Cardinality(earlier \cup promoted) + Rank(u, later)
                                ELSE G[u].ordinal
             /\ At(u).kind = G[u].kind /\ At(u).label = G[u].label /\ At(u).text = G[u].text
  <2>1. ASSUME NEW x \in WorkingNode, NEW n, NEW q
        PROVE  /\ [x EXCEPT !.ordinal = n].ordinal = n
               /\ [x EXCEPT !.ordinal = n].parent = x.parent
               /\ [x EXCEPT !.ordinal = n].kind = x.kind
               /\ [x EXCEPT !.ordinal = n].label = x.label
               /\ [x EXCEPT !.ordinal = n].text = x.text
               /\ [x EXCEPT !.parent = q, !.ordinal = n].ordinal = n
               /\ [x EXCEPT !.parent = q, !.ordinal = n].parent = q
               /\ [x EXCEPT !.parent = q, !.ordinal = n].kind = x.kind
               /\ [x EXCEPT !.parent = q, !.ordinal = n].label = x.label
               /\ [x EXCEPT !.parent = q, !.ordinal = n].text = x.text
    BY DEF WorkingNode
  <2>2. W[u] = G[u] /\ G[u] \in WorkingNode
    BY <1>1 DEF Shape
  <2>3. CASE u \in promoted
    <3>1. At(u) = [W[u] EXCEPT !.parent = p, !.ordinal = Cardinality(earlier) + Rank(u, promoted)]
      BY <2>3
    <3> HIDE DEF W, p, promoted, earlier, later, Rank, At
    <3> QED BY <2>1, <2>2, <2>3, <3>1
  <2>4. CASE u \notin promoted /\ u \in earlier
    <3>1. At(u) = [W[u] EXCEPT !.ordinal = Rank(u, earlier)]
      BY <2>4
    <3> HIDE DEF W, p, promoted, earlier, later, Rank, At
    <3> QED BY <2>1, <2>2, <2>4, <3>1
  <2>5. CASE u \notin promoted /\ u \notin earlier /\ u \in later
    <3>1. At(u) = [W[u] EXCEPT !.ordinal = Cardinality(earlier \cup promoted) + Rank(u, later)]
      BY <2>5
    <3> HIDE DEF W, p, promoted, earlier, later, Rank, At
    <3> QED BY <2>1, <2>2, <2>5, <3>1
  <2>6. CASE u \notin promoted /\ u \notin earlier /\ u \notin later
    <3>1. At(u) = W[u]
      BY <2>6
    <3> HIDE DEF W, p, promoted, earlier, later, Rank, At
    <3> QED BY <2>2, <2>6, <3>1
  <2> QED BY <2>3, <2>4, <2>5, <2>6
<1>10. DOMAIN H = DOMAIN W /\ \A u \in DOMAIN H : H[u] = At(u)
  <2> HIDE DEF At, W
  <2> QED BY <1>7
<1> HIDE DEF W, p, promoted, earlier, later, Rank, At, H
<1>11. IsPromotion(G, t, H)
  BY <1>1, <1>4, <1>5, <1>6, <1>8, <1>9, <1>10 DEF IsPromotion, p
<1> QED BY <1>11 DEF H

\* Ranks follow the order, and are less than the size of the group.
LEMMA RanksFollowTheOrder ==
  ASSUME NEW G, Shape(G), NEW S \in SUBSET DOMAIN G, NEW a \in S
  PROVE  /\ RankIn(G, a, S) \in Nat
         /\ RankIn(G, a, S) < Cardinality(S)
         /\ \A b \in S : Before(G, a, b) => RankIn(G, a, S) < RankIn(G, b, S)
<1> DEFINE Behind(u) == {w \in S : Before(G, w, u)}
<1>1. \A u \in S : u \in Nat /\ G[u].ordinal \in Nat
  BY UidsAreNumbers DEF Shape, WorkingNode
<1>2. IsFiniteSet(S) /\ Cardinality(S) \in Nat
  BY ShapeIsFinite
<1>3. \A u : /\ Behind(u) \in SUBSET S
             /\ IsFiniteSet(Behind(u)) /\ Cardinality(Behind(u)) \in Nat
             /\ Cardinality(Behind(u)) <= Cardinality(S)
             /\ Cardinality(S) = Cardinality(Behind(u)) => S = Behind(u)
  <2> SUFFICES ASSUME NEW u
               PROVE  /\ Behind(u) \in SUBSET S
                      /\ IsFiniteSet(Behind(u)) /\ Cardinality(Behind(u)) \in Nat
                      /\ Cardinality(Behind(u)) <= Cardinality(S)
                      /\ Cardinality(S) = Cardinality(Behind(u)) => S = Behind(u)
    OBVIOUS
  <2>1. Behind(u) \in SUBSET S
    OBVIOUS
  <2> HIDE DEF Behind
  <2> QED BY <1>2, <2>1, FS_Subset, FS_CardinalityType
<1>4. a \notin Behind(a)
  BY <1>1 DEF Before
<1>5. ASSUME NEW b \in S, Before(G, a, b)
      PROVE  Cardinality(Behind(a)) < Cardinality(Behind(b))
  <2>1. a \in Behind(b)
    BY <1>5
  <2>2. Behind(a) \subseteq Behind(b)
    BY <1>1, <1>5 DEF Before
  <2> HIDE DEF Behind
  <2>3. Cardinality(Behind(a)) <= Cardinality(Behind(b))
        /\ (Cardinality(Behind(b)) = Cardinality(Behind(a)) => Behind(b) = Behind(a))
    BY <1>3, <2>2, FS_Subset
  <2> QED BY <1>3, <1>4, <2>1, <2>3
<1>6. Cardinality(Behind(a)) < Cardinality(S)
  <2> HIDE DEF Behind
  <2> QED BY <1>2, <1>3, <1>4
<1>7. \A u : RankIn(G, u, S) = Cardinality(Behind(u))
  BY DEF RankIn
<1> HIDE DEF Behind
<1> QED BY <1>3, <1>5, <1>6, <1>7

\* Below t, on the way to u, is a child of t.
LEMMA ChildOnTheWay ==
  ASSUME NEW G, Acyclic(G), NEW t \in DOMAIN G, NEW u \in Subtree(G, t), u # t
  PROVE  \E c \in Promoted(G, t) : u \in Subtree(G, c)
<1> DEFINE S == {v \in DOMAIN G : u \in Subtree(G, v) /\ v \in Subtree(G, t) /\ v # t}
<1>1. S \in SUBSET DOMAIN G /\ u \in S
  BY SubtreeHasItsRoot DEF Subtree
<1>2. PICK c \in S : G[c].parent \notin S
  <2> HIDE DEF S
  <2> QED BY <1>1 DEF Acyclic
<1>3. G[c].parent \in Subtree(G, t)
  BY <1>2, SubtreeHasTheParents
<1>4. G[c].parent \in DOMAIN G
  BY <1>3 DEF Subtree
<1>5. u \in Subtree(G, G[c].parent)
  BY <1>2, <1>4, ParentIsAbove, SubtreesNest
<1>6. G[c].parent = t
  BY <1>2, <1>3, <1>4, <1>5
<1> QED BY <1>2, <1>6 DEF Promoted, Children

LEMMA PromotionOfSiblings ==
  ASSUME NEW G, Shape(G), Ordered(G), NEW t \in DOMAIN G,
         NEW a, NEW b, a # b,
         \/ a \in Promoted(G, t) /\ b \in Promoted(G, t) /\ Before(G, a, b)
         \/ a \in Earlier(G, t) /\ b \in Earlier(G, t) /\ Before(G, a, b)
         \/ a \in Later(G, t) /\ b \in Later(G, t) /\ Before(G, a, b)
         \/ a \in Earlier(G, t) /\ b \in Promoted(G, t)
         \/ a \in Promoted(G, t) /\ b \in Later(G, t)
         \/ a \in Earlier(G, t) /\ b \in Later(G, t)
  PROVE  LET H == PromoteChildren(G, t) IN H[a].ordinal < H[b].ordinal
<1> DEFINE H == PromoteChildren(G, t)
           P == Promoted(G, t)
           E == Earlier(G, t)
           L == Later(G, t)
<1>1. Acyclic(G) /\ G[t].parent # t /\ G[t].ordinal \in Nat
  BY NoNodeIsItsOwnParent DEF Ordered, Shape, WorkingNode
<1>2. P \in SUBSET DOMAIN G /\ E \in SUBSET DOMAIN G /\ L \in SUBSET DOMAIN G
  BY DEF Promoted, Earlier, Later, Children
<1>3. P \cap E = {} /\ P \cap L = {} /\ E \cap L = {}
  <2>1. P \cap E = {} /\ P \cap L = {}
    BY <1>1 DEF Promoted, Earlier, Later, Children
  <2>2. \A u \in DOMAIN G : G[u].ordinal \in Nat
    BY DEF Shape, WorkingNode
  <2>3. E \cap L = {}
    BY <1>1, <1>2, <2>2 DEF Earlier, Later
  <2> QED BY <2>1, <2>3
<1>4. t \notin P /\ t \notin E /\ t \notin L
  BY <1>1 DEF Promoted, Earlier, Later, Children
<1>5. /\ \A u \in P : H[u].ordinal = Cardinality(E) + RankIn(G, u, P)
      /\ \A u \in E : H[u].ordinal = RankIn(G, u, E)
      /\ \A u \in L : H[u].ordinal = Cardinality(E \cup P) + RankIn(G, u, L)
  <2>1. IsPromotion(G, t, H)
    BY <1>1, PromotionAsGroups
  <2> HIDE DEF H
  <2>2. /\ DOMAIN H = DOMAIN G \ {t}
        /\ \A u \in DOMAIN H :
             H[u].ordinal = IF u \in P THEN Cardinality(E) + RankIn(G, u, P)
                            ELSE IF u \in E THEN RankIn(G, u, E)
                            ELSE IF u \in L THEN Cardinality(E \cup P) + RankIn(G, u, L)
                            ELSE G[u].ordinal
    BY <2>1 DEF IsPromotion
  <2> HIDE DEF P, E, L
  <2> QED BY <1>2, <1>3, <1>4, <2>2
<1> HIDE DEF H, P, E, L
<1>6. /\ IsFiniteSet(E) /\ IsFiniteSet(P) /\ E \cup P \in SUBSET DOMAIN G
      /\ Cardinality(E) \in Nat /\ Cardinality(P) \in Nat
  BY <1>2, ShapeIsFinite
<1>7. Cardinality(E \cup P) = Cardinality(E) + Cardinality(P)
  <2>1. Cardinality(E \cap P) = 0
    BY <1>3, FS_EmptySet
  <2>2. Cardinality(E \cup P) = Cardinality(E) + Cardinality(P) - Cardinality(E \cap P)
    BY <1>6, FS_Union
  <2> QED BY <1>6, <2>1, <2>2
<1>8. \A u \in P : RankIn(G, u, P) \in Nat /\ RankIn(G, u, P) < Cardinality(P)
  BY <1>2, RanksFollowTheOrder
<1>9. \A u \in E : RankIn(G, u, E) \in Nat /\ RankIn(G, u, E) < Cardinality(E)
  BY <1>2, RanksFollowTheOrder
<1>10. \A u \in L : RankIn(G, u, L) \in Nat
  BY <1>2, RanksFollowTheOrder
<1>11. CASE a \in P /\ b \in P /\ Before(G, a, b)
  <2>1. RankIn(G, a, P) < RankIn(G, b, P)
    BY <1>2, <1>11, RanksFollowTheOrder
  <2> QED BY <1>5, <1>6, <1>8, <1>11, <2>1 DEF H
<1>12. CASE a \in E /\ b \in E /\ Before(G, a, b)
  <2>1. RankIn(G, a, E) < RankIn(G, b, E)
    BY <1>2, <1>12, RanksFollowTheOrder
  <2> QED BY <1>5, <1>12, <2>1 DEF H
<1>13. CASE a \in L /\ b \in L /\ Before(G, a, b)
  <2>1. RankIn(G, a, L) < RankIn(G, b, L)
    BY <1>2, <1>13, RanksFollowTheOrder
  <2> QED BY <1>5, <1>6, <1>7, <1>10, <1>13, <2>1 DEF H
<1>14. CASE a \in E /\ b \in P
  BY <1>5, <1>6, <1>8, <1>9, <1>14 DEF H
<1>15. CASE a \in P /\ b \in L
  BY <1>5, <1>6, <1>7, <1>8, <1>10, <1>15 DEF H
<1>16. CASE a \in E /\ b \in L
  BY <1>5, <1>6, <1>7, <1>9, <1>10, <1>16 DEF H
<1> QED BY <1>11, <1>12, <1>13, <1>14, <1>15, <1>16 DEF P, E, L

\* Siblings that stay are in no group, or both around the removed node.
LEMMA PromotionKeepsSiblings ==
  ASSUME NEW G, Shape(G), Ordered(G), NEW t \in DOMAIN G,
         NEW a \in DOMAIN G \ {t}, NEW b \in DOMAIN G \ {t}, a # b,
         G[a].parent = G[b].parent, Before(G, a, b)
  PROVE  LET H == PromoteChildren(G, t)
         IN H[a].parent = H[b].parent /\ H[a].ordinal < H[b].ordinal
<1> DEFINE H == PromoteChildren(G, t)
           p == G[t].parent
<1>1. Acyclic(G)
  BY DEF Ordered
<1>0. IsPromotion(G, t, H)
  BY <1>1, PromotionAsGroups
<1>2. /\ a \in DOMAIN H /\ b \in DOMAIN H
      /\ \A u \in DOMAIN H :
           H[u].parent = IF u \in Promoted(G, t) THEN p ELSE G[u].parent
  <2> HIDE DEF H
  <2> QED BY <1>0 DEF IsPromotion
<1>3. G[a].ordinal \in Nat /\ G[b].ordinal \in Nat /\ G[t].ordinal \in Nat
  BY DEF Shape, WorkingNode
<1>4. H[a].parent = H[b].parent
  <2> HIDE DEF H, p
  <2> QED BY <1>2 DEF Promoted, Children
<1>5. G[a].ordinal < G[b].ordinal
  BY <1>3 DEF Ordered, Before
<1>6. CASE G[a].parent = t
  <2>1. a \in Promoted(G, t) /\ b \in Promoted(G, t)
    BY <1>6 DEF Promoted, Children
  <2> QED BY <1>4, <2>1, PromotionOfSiblings
<1>7. CASE G[a].parent = p /\ G[a].parent # t
  <2>1. G[a].ordinal # G[t].ordinal /\ G[b].ordinal # G[t].ordinal
    BY <1>7 DEF Ordered
  <2>0. a \in Children(G, p) /\ b \in Children(G, p)
    BY <1>7 DEF Children
  <2>2. a \in Earlier(G, t) \/ a \in Later(G, t)
    BY <1>3, <2>0, <2>1 DEF Earlier, Later
  <2>3. b \in Earlier(G, t) \/ b \in Later(G, t)
    BY <1>3, <2>0, <2>1 DEF Earlier, Later
  <2>4. ~(a \in Later(G, t) /\ b \in Earlier(G, t))
    BY <1>3, <1>5 DEF Earlier, Later
  <2> QED BY <1>4, <2>2, <2>3, <2>4, PromotionOfSiblings
<1>8. CASE G[a].parent # p /\ G[a].parent # t
  <2>1. \A u \in {a, b} : u \notin Promoted(G, t) /\ u \notin Earlier(G, t) /\ u \notin Later(G, t)
    BY <1>8 DEF Promoted, Earlier, Later, Children
  <2>2. H[a].ordinal = G[a].ordinal /\ H[b].ordinal = G[b].ordinal
    <3> HIDE DEF H
    <3> QED BY <1>0, <1>2, <2>1 DEF IsPromotion
  <2> QED BY <1>4, <1>5, <2>2
<1> QED BY <1>6, <1>7, <1>8

LEMMA PromotionKeepsOrder ==
  ASSUME NEW G, Shape(G), Ordered(G), NEW t \in DOMAIN G
  PROVE  LET H == PromoteChildren(G, t)
         IN Ordered(H) /\ KeepsOrder(G, H) /\ KeepsContent(G, H)
<1> DEFINE H == PromoteChildren(G, t)
           p == G[t].parent
<1>1. Acyclic(G) /\ p # t
  BY NoNodeIsItsOwnParent DEF Ordered
<1>2. IsPromotion(G, t, H)
  BY <1>1, PromotionAsGroups
<1> HIDE DEF H
<1>3. /\ DOMAIN H = DOMAIN G \ {t}
      /\ \A u \in DOMAIN H : H[u].parent = IF G[u].parent = t THEN p ELSE G[u].parent
  BY <1>2 DEF IsPromotion, Promoted, Children
<1>4. ParentsResolve(H)
  <2>1. p \in DOMAIN H \cup {Root}
    BY <1>1, <1>3 DEF Ordered, ParentsResolve
  <2> HIDE DEF p
  <2> QED BY <1>3, <2>1 DEF Ordered, ParentsResolve
<1>5. Acyclic(H)
  <2> SUFFICES ASSUME NEW S \in SUBSET DOMAIN H, S # {}, \A u \in S : H[u].parent \in S
               PROVE  FALSE
    BY DEF Acyclic
  <2>1. CASE \A u \in S : G[u].parent # t
    <3>1. S \in SUBSET DOMAIN G /\ \A u \in S : G[u].parent \in S
      BY <1>3, <2>1
    <3> QED BY <1>1, <3>1 DEF Acyclic
  <2>2. CASE \E u \in S : G[u].parent = t
    <3> DEFINE R == S \cup {t}
    <3>1. p \in S
      BY <1>3, <2>2
    <3>2. R \in SUBSET DOMAIN G /\ R # {} /\ \A u \in R : G[u].parent \in R
      BY <1>3, <3>1
    <3> HIDE DEF R
    <3> QED BY <1>1, <3>2 DEF Acyclic
  <2> QED BY <2>1, <2>2
<1>6. ASSUME NEW a \in DOMAIN H, NEW u \in DOMAIN H, u \in Subtree(G, a)
      PROVE  u \in Subtree(H, a)
  <2> SUFFICES ASSUME NEW S \in SUBSET DOMAIN H, a \in S,
                      \A w \in DOMAIN H : H[w].parent \in S => w \in S
               PROVE  u \in S
    BY DEF Subtree
  <2> DEFINE R == S \cup {x \in {t} : p \in S}
  <2>1. R \in SUBSET DOMAIN G /\ a \in R
    BY <1>3
  <2>2. ASSUME NEW w \in DOMAIN G, G[w].parent \in R PROVE w \in R
    <3>1. CASE G[w].parent = t
      <4>1. p \in S /\ w # t
        BY <1>1, <1>3, <2>2, <3>1
      <4> QED BY <1>3, <3>1, <4>1
    <3>2. CASE G[w].parent # t /\ w # t
      BY <1>3, <2>2, <3>2
    <3>3. CASE G[w].parent # t /\ w = t
      BY <2>2, <3>3
    <3> QED BY <3>1, <3>2, <3>3
  <2>3. u \in R
    <3> HIDE DEF R
    <3> QED BY <1>6, <2>1, <2>2 DEF Subtree
  <2> QED BY <1>3, <2>3
<1>7. ASSUME NEW a \in DOMAIN H, NEW u \in Subtree(H, a)
      PROVE  u \in Subtree(G, a)
  <2> SUFFICES ASSUME NEW S \in SUBSET DOMAIN G, a \in S,
                      \A w \in DOMAIN G : G[w].parent \in S => w \in S
               PROVE  u \in S
    BY <1>3, <1>7 DEF Subtree
  <2> DEFINE R == S \ {t}
  <2>1. R \in SUBSET DOMAIN H /\ a \in R
    BY <1>3
  <2>2. ASSUME NEW w \in DOMAIN H, H[w].parent \in R PROVE w \in R
    BY <1>3, <2>2
  <2> HIDE DEF R
  <2>3. u \in R
    BY <1>7, <2>1, <2>2 DEF Subtree
  <2> QED BY <2>3 DEF R
<1>8. \A u \in DOMAIN H : Above(H, u) = Above(G, u) \cap DOMAIN H
  BY <1>3, <1>6, <1>7 DEF Above
<1>9. \A u \in DOMAIN G : u \in Nat /\ G[u].ordinal \in Nat
  BY UidsAreNumbers DEF Shape, WorkingNode
<1>10. ASSUME NEW a \in DOMAIN H, NEW b \in DOMAIN H, a # b, G[a].parent = G[b].parent,
              Before(G, a, b)
       PROVE  H[a].parent = H[b].parent /\ H[a].ordinal < H[b].ordinal
  BY <1>3, <1>10, PromotionKeepsSiblings DEF H
<1>11. ASSUME NEW a \in DOMAIN H, NEW b \in DOMAIN H, a # b, H[a].parent = H[b].parent
       PROVE  H[a].ordinal < H[b].ordinal \/ H[b].ordinal < H[a].ordinal
  <2>1. CASE G[a].parent = G[b].parent
    <3>1. Before(G, a, b) \/ Before(G, b, a)
      BY <1>3, <1>11, SiblingsAreOrdered
    <3> QED BY <1>10, <1>11, <2>1, <3>1
  <2>2. ASSUME NEW c \in DOMAIN H, NEW d \in DOMAIN H, c # d, G[c].parent = t, G[d].parent = p
        PROVE  H[c].ordinal < H[d].ordinal \/ H[d].ordinal < H[c].ordinal
    <3>1. c \in Promoted(G, t)
      BY <1>3, <2>2 DEF Promoted, Children
    <3>2. G[d].ordinal # G[t].ordinal
      BY <1>3, <2>2 DEF Ordered
    <3>3. d \in Earlier(G, t) \/ d \in Later(G, t)
      BY <1>3, <1>9, <2>2, <3>2 DEF Earlier, Later, Children
    <3> QED BY <2>2, <3>1, <3>3, PromotionOfSiblings DEF H
  <2>3. CASE G[a].parent # G[b].parent
    <3>1. \/ G[a].parent = t /\ G[b].parent = p
          \/ G[b].parent = t /\ G[a].parent = p
      BY <1>3, <1>11, <2>3
    <3> QED BY <1>11, <2>2, <3>1
  <2> QED BY <2>1, <2>3
<1>12. \A a \in DOMAIN H : H[a].ordinal \in Nat
  BY PromotionKeepsTheShape DEF H, Shape, WorkingNode
<1>13. Ordered(H)
  BY <1>4, <1>5, <1>11, <1>12 DEF Ordered
<1>14. ASSUME NEW u \in DOMAIN H, NEW w \in DOMAIN H, ReadsBefore(G, u, w)
       PROVE  ReadsBefore(H, u, w)
  <2>1. CASE u # w /\ u \in Above(G, w)
    BY <1>8, <2>1 DEF ReadsBefore
  <2>2. ASSUME NEW a \in DOMAIN H, NEW b \in DOMAIN H, u \in Subtree(G, a), w \in Subtree(G, b),
               a # b, H[a].parent = H[b].parent, H[a].ordinal < H[b].ordinal
        PROVE  ReadsBefore(H, u, w)
    <3>1. a \in Above(H, u) /\ b \in Above(H, w)
      BY <1>6, <2>2 DEF Above
    <3> QED BY <2>2, <3>1 DEF ReadsBefore, Before
  <2>3. ASSUME NEW a \in DOMAIN G, NEW b \in DOMAIN G, u \in Subtree(G, a), w \in Subtree(G, b),
               a # b, G[a].parent = G[b].parent, Before(G, a, b)
        PROVE  ReadsBefore(H, u, w)
    <3>1. G[a].ordinal < G[b].ordinal
      BY <1>9, <2>3 DEF Ordered, Before
    <3>2. CASE a # t /\ b # t
      BY <1>3, <1>10, <2>2, <2>3, <3>2
    <3>3. CASE a = t
      <4>1. PICK c \in Promoted(G, t) : u \in Subtree(G, c)
        BY <1>1, <1>3, <2>3, <3>3, ChildOnTheWay
      <4>2. b \in Later(G, t)
        BY <1>9, <2>3, <3>1, <3>3 DEF Later, Children
      <4>3. c \in DOMAIN H /\ b \in DOMAIN H /\ c # b
        BY <1>1, <1>3, <2>3, <3>3 DEF Promoted, Children
      <4>4. H[c].ordinal < H[b].ordinal
        BY <4>2, <4>3, PromotionOfSiblings DEF H
      <4>5. H[c].parent = H[b].parent
        BY <1>1, <1>3, <2>3, <3>3, <4>3 DEF Promoted, Children
      <4> QED BY <2>2, <2>3, <4>1, <4>3, <4>4, <4>5
    <3>4. CASE b = t
      <4>1. PICK c \in Promoted(G, t) : w \in Subtree(G, c)
        BY <1>1, <1>3, <2>3, <3>4, ChildOnTheWay
      <4>2. a \in Earlier(G, t)
        BY <1>9, <2>3, <3>1, <3>4 DEF Earlier, Children
      <4>3. c \in DOMAIN H /\ a \in DOMAIN H /\ c # a
        BY <1>1, <1>3, <2>3, <3>4 DEF Promoted, Children
      <4>4. H[a].ordinal < H[c].ordinal
        BY <4>2, <4>3, PromotionOfSiblings DEF H
      <4>5. H[c].parent = H[a].parent
        BY <1>1, <1>3, <2>3, <3>4, <4>3 DEF Promoted, Children
      <4> QED BY <2>2, <2>3, <4>1, <4>3, <4>4, <4>5
    <3> QED BY <3>2, <3>3, <3>4
  <2> QED BY <1>14, <2>1, <2>3 DEF ReadsBefore, Above
<1>15. KeepsOrder(G, H) /\ KeepsContent(G, H)
  BY <1>2, <1>3, <1>8, <1>14 DEF KeepsOrder, KeepsContent, IsPromotion
<1> QED BY <1>13, <1>15 DEF H

-----------------------------------------------------------------------------
(* What an operation may change.                                           *)

\* As long as nothing was moved or inserted, the working copy is an ordered
\* graph with the order of the base, less the subtrees of removed nodes.
CascadeInv ==
    /\ Shape(base) /\ Valid(base) /\ Shape(working)
    /\ NoImplicitCascade
    /\ Named({"reparent", "insert"}) = {} => Ordered(working) /\ KeepsOrder(base, working)

\* replace_content and reclassify leave parents and ordinals alone.
LEMMA SameStructureKeepsOrder ==
  ASSUME NEW G, NEW H, Ordered(G), DOMAIN H = DOMAIN G,
         \A u \in DOMAIN G : H[u].parent = G[u].parent /\ H[u].ordinal = G[u].ordinal
  PROVE  Ordered(H) /\ KeepsOrder(G, H)
<1>1. Ordered(H)
  BY DEF Ordered, ParentsResolve, Acyclic
<1>2. \A u : Subtree(H, u) = Subtree(G, u)
  BY DEF Subtree
<1>3. \A u : Above(H, u) = Above(G, u)
  BY <1>2 DEF Above
<1>4. \A u, w \in DOMAIN G : Before(G, u, w) => Before(H, u, w)
  BY DEF Before
<1>5. \A u : Above(G, u) \subseteq DOMAIN G
  BY DEF Above
<1>6. \A u, w \in DOMAIN H : ReadsBefore(G, u, w) => ReadsBefore(H, u, w)
  BY <1>3, <1>4, <1>5 DEF ReadsBefore
<1> QED BY <1>1, <1>3, <1>5, <1>6 DEF KeepsOrder

LEMMA KeepsOrderIsTransitive ==
  ASSUME NEW F, NEW G, NEW H, KeepsOrder(F, G), KeepsOrder(G, H)
  PROVE  KeepsOrder(F, H)
BY DEF KeepsOrder

\* An operation names its target, and what was named stays named.
LEMMA NamedGrows ==
  ASSUME NEW tag, NEW u \in Uids, NEW G, Operation(tag, u, G), NEW tags
  PROVE  Named(tags)' = Named(tags) \cup {w \in {u} : tag \in tags}
BY DEF Operation, Named

\* The parts of the invariant in the next state.
LEMMA CascadeInvPrimed ==
  /\ Shape(base)' <=> Shape(base')
  /\ Valid(base)' <=> Valid(base')
  /\ Shape(working)' <=> Shape(working')
  /\ Ordered(working)' <=> Ordered(working')
  /\ KeepsOrder(base, working)' <=> KeepsOrder(base', working')
<1>1. Shape(base)' <=> Shape(base')
  BY DEF Shape, WorkingNode
<1>2. Valid(base)' <=> Valid(base')
  BY DEF Valid, ParentsResolve, Acyclic, KindsLegal, OrdinalsContiguous, Children
<1>3. Shape(working)' <=> Shape(working')
  BY DEF Shape, WorkingNode
<1>4. Ordered(working)' <=> Ordered(working')
  BY DEF Ordered, ParentsResolve, Acyclic
<1>5. KeepsOrder(base, working)' <=> KeepsOrder(base', working')
  BY DEF KeepsOrder, Above, Subtree, ReadsBefore, Before
<1> QED BY <1>1, <1>2, <1>3, <1>4, <1>5

LEMMA CascadePrimed ==
  NoImplicitCascade' <=>
    /\ DOMAIN working' \ DOMAIN base' \subseteq Named({"insert"})'
    /\ \A u \in (DOMAIN working' \cap DOMAIN base') \ Named({"insert"})' :
        /\ u \notin Named({"reclassify"})' => working'[u].kind = base'[u].kind
        /\ u \notin Named({"replace_content"})' =>
            working'[u].label = base'[u].label /\ working'[u].text = base'[u].text
    /\ Named({"reparent", "insert"})' = {} =>
        /\ \A u \in DOMAIN base' \ DOMAIN working' :
            Above(base', u) \cap Named({"remove"})' # {}
        /\ \A u \in DOMAIN working' :
            Above(working', u) = Above(base', u) \cap DOMAIN working'
        /\ \A u, w \in DOMAIN working' :
            ReadsBefore(base', u, w) => ReadsBefore(working', u, w)
BY DEF NoImplicitCascade, Named, Above, Subtree, ReadsBefore, Before

\* How an operation other than a move or an insertion keeps the invariant.
LEMMA StepWithinTheCopy ==
  ASSUME CascadeInv, NEW tag \in {"replace_content", "reclassify", "remove"}, NEW u \in Uids,
         NEW H, Operation(tag, u, H), Shape(H), DOMAIN H \subseteq DOMAIN working,
         u \in DOMAIN working,
         \A w \in DOMAIN H : w # u \/ tag = "remove" =>
             /\ H[w].kind = working[w].kind
             /\ H[w].label = working[w].label /\ H[w].text = working[w].text,
         tag # "reclassify" /\ u \in DOMAIN H => H[u].kind = working[u].kind,
         tag # "replace_content" /\ u \in DOMAIN H =>
             H[u].label = working[u].label /\ H[u].text = working[u].text,
         tag # "remove" => DOMAIN H = DOMAIN working,
         \A w \in DOMAIN working \ DOMAIN H : u \in Above(working, w),
         Ordered(working) => Ordered(H) /\ KeepsOrder(working, H)
  PROVE  CascadeInv'
<1>1. base' = base /\ working' = H
  BY DEF Operation
<1>2. \A tags : Named(tags)' = Named(tags) \cup {w \in {u} : tag \in tags}
  BY NamedGrows
<1>3. Named({"insert"})' = Named({"insert"})
      /\ Named({"reparent", "insert"})' = Named({"reparent", "insert"})
  BY <1>2
<1>4. /\ tag = "reclassify" => u \in Named({"reclassify"})'
      /\ tag = "replace_content" => u \in Named({"replace_content"})'
      /\ tag = "remove" => u \in Named({"remove"})'
      /\ Named({"reclassify"}) \subseteq Named({"reclassify"})'
      /\ Named({"replace_content"}) \subseteq Named({"replace_content"})'
      /\ Named({"remove"}) \subseteq Named({"remove"})'
  BY <1>2
<1>5. Shape(base)' /\ Valid(base)' /\ Shape(working)'
  BY <1>1, CascadeInvPrimed DEF CascadeInv
<1>6. Named({"reparent", "insert"})' = {} => Ordered(working)' /\ KeepsOrder(base, working)'
  <2>1. Named({"reparent", "insert"}) = {} => Ordered(H) /\ KeepsOrder(base, H)
    BY KeepsOrderIsTransitive DEF CascadeInv
  <2> QED BY <1>1, <1>3, <2>1, CascadeInvPrimed
<1>7. DOMAIN H \ DOMAIN base \subseteq Named({"insert"})
  BY DEF CascadeInv, NoImplicitCascade
<1>8. ASSUME NEW w \in (DOMAIN H \cap DOMAIN base) \ Named({"insert"})
      PROVE  /\ w \notin Named({"reclassify"})' => H[w].kind = base[w].kind
             /\ w \notin Named({"replace_content"})' =>
                  H[w].label = base[w].label /\ H[w].text = base[w].text
  <2>1. /\ w \notin Named({"reclassify"}) => working[w].kind = base[w].kind
        /\ w \notin Named({"replace_content"}) =>
             working[w].label = base[w].label /\ working[w].text = base[w].text
    BY DEF CascadeInv, NoImplicitCascade
  <2> QED BY <1>4, <2>1
<1>9. ASSUME Named({"reparent", "insert"}) = {}, NEW w \in DOMAIN base \ DOMAIN H
      PROVE  Above(base, w) \cap Named({"remove"})' # {}
  <2>1. CASE w \notin DOMAIN working
    BY <1>4, <1>9, <2>1 DEF CascadeInv, NoImplicitCascade
  <2>2. CASE w \in DOMAIN working
    <3>1. u \in Above(base, w)
      BY <1>9, <2>2 DEF CascadeInv, KeepsOrder
    <3> QED BY <1>4, <1>9, <2>2, <3>1
  <2> QED BY <2>1, <2>2
<1>10. NoImplicitCascade'
  <2>1. Named({"reparent", "insert"}) = {} => KeepsOrder(base, H) /\ DOMAIN H \subseteq DOMAIN base
    <3>1. Named({"reparent", "insert"}) = {} => KeepsOrder(base, working) /\ Ordered(working)
      BY DEF CascadeInv
    <3> QED BY <3>1, KeepsOrderIsTransitive DEF KeepsOrder
  <2> QED BY <1>1, <1>3, <1>7, <1>8, <1>9, <2>1, CascadePrimed DEF KeepsOrder
<1> QED BY <1>5, <1>6, <1>10 DEF CascadeInv

LEMMA ReplacementStep ==
  ASSUME CascadeInv, NEW u \in DOMAIN working, ReplaceContent(u)
  PROVE  CascadeInv'
<1>1. PICK text \in Texts, label \in Labels \cup {NoLabel} :
        Operation("replace_content", u, Replaced(working, u, text, label))
  BY DEF ReplaceContent
<1> DEFINE H == Replaced(working, u, text, label)
<1>2. Shape(working) /\ u \in Uids
  BY DEF CascadeInv, Shape
<1>3. Shape(H)
  BY <1>2, OperationsKeepTheShape
<1>4. H = [working EXCEPT ![u] = [[@ EXCEPT !.text = text] EXCEPT !.label = label]]
  BY DEF Replaced
<1>5. working[u] \in WorkingNode
  BY <1>2 DEF Shape
<1> DEFINE node == [[working[u] EXCEPT !.text = text] EXCEPT !.label = label]
<1>7. node.parent = working[u].parent /\ node.ordinal = working[u].ordinal
      /\ node.kind = working[u].kind
  BY <1>5 DEF WorkingNode
<1>8. DOMAIN H = DOMAIN working /\ \A w \in DOMAIN H : H[w] = IF w = u THEN node ELSE working[w]
  BY <1>4
<1> HIDE DEF node, H
<1>9. \A w \in DOMAIN working :
        /\ H[w].parent = working[w].parent /\ H[w].ordinal = working[w].ordinal
        /\ H[w].kind = working[w].kind
  BY <1>7, <1>8
<1>10. Ordered(working) => Ordered(H) /\ KeepsOrder(working, H)
  BY <1>8, <1>9, SameStructureKeepsOrder
<1>11. Operation("replace_content", u, H)
  BY <1>1 DEF H
<1> QED BY <1>2, <1>3, <1>8, <1>9, <1>10, <1>11, StepWithinTheCopy

LEMMA ReclassificationStep ==
  ASSUME CascadeInv, NEW u \in DOMAIN working, Reclassify(u)
  PROVE  CascadeInv'
<1>1. PICK kind \in Kinds : Operation("reclassify", u, Reclassified(working, u, kind))
  BY DEF Reclassify
<1> DEFINE H == Reclassified(working, u, kind)
<1>2. Shape(working) /\ u \in Uids
  BY DEF CascadeInv, Shape
<1>3. Shape(H)
  BY <1>2, OperationsKeepTheShape
<1>4. H = [working EXCEPT ![u] = [@ EXCEPT !.kind = kind]]
  BY DEF Reclassified
<1>5. working[u] \in WorkingNode
  BY <1>2 DEF Shape
<1> DEFINE node == [working[u] EXCEPT !.kind = kind]
<1>7. node.parent = working[u].parent /\ node.ordinal = working[u].ordinal
      /\ node.label = working[u].label /\ node.text = working[u].text
  BY <1>5 DEF WorkingNode
<1>8. DOMAIN H = DOMAIN working /\ \A w \in DOMAIN H : H[w] = IF w = u THEN node ELSE working[w]
  BY <1>4
<1> HIDE DEF node, H
<1>9. \A w \in DOMAIN working :
        /\ H[w].parent = working[w].parent /\ H[w].ordinal = working[w].ordinal
        /\ H[w].label = working[w].label /\ H[w].text = working[w].text
  BY <1>7, <1>8
<1>10. Ordered(working) => Ordered(H) /\ KeepsOrder(working, H)
  BY <1>8, <1>9, SameStructureKeepsOrder
<1>11. Operation("reclassify", u, H)
  BY <1>1 DEF H
<1> QED BY <1>2, <1>3, <1>8, <1>9, <1>10, <1>11, StepWithinTheCopy

\* Whatever the graph looks like, promotion moves and renumbers nodes only.
LEMMA PromotionKeepsContent ==
  ASSUME NEW G, Shape(G), NEW t \in DOMAIN G
  PROVE  LET H == PromoteChildren(G, t)
         IN DOMAIN H = DOMAIN G \ {t} /\ KeepsContent(G, H)
<1> DEFINE W == Without(G, {t})
           p == G[t].parent
           promoted == Children(W, t)
           earlier == {u \in Children(W, p) : G[u].ordinal < G[t].ordinal}
           later == {u \in Children(W, p) : G[u].ordinal > G[t].ordinal}
           Rank(u, S) == Cardinality({w \in S : Before(G, w, u)})
           At(u) == IF u \in promoted
                    THEN [W[u] EXCEPT !.parent = p,
                                      !.ordinal = Cardinality(earlier) + Rank(u, promoted)]
                    ELSE IF u \in earlier THEN [W[u] EXCEPT !.ordinal = Rank(u, earlier)]
                    ELSE IF u \in later
                    THEN [W[u] EXCEPT !.ordinal = Cardinality(earlier \cup promoted) + Rank(u, later)]
                    ELSE W[u]
           H == PromoteChildren(G, t)
<1>1. DOMAIN W = DOMAIN G \ {t} /\ \A u \in DOMAIN W : W[u] = G[u] /\ W[u] \in WorkingNode
  BY DEF Without, Shape
<1>2. H = [u \in DOMAIN W |-> At(u)]
  BY DEF PromoteChildren
<1>3. ASSUME NEW node \in WorkingNode, NEW q, NEW n
      PROVE  /\ [node EXCEPT !.parent = q, !.ordinal = n].kind = node.kind
             /\ [node EXCEPT !.parent = q, !.ordinal = n].label = node.label
             /\ [node EXCEPT !.parent = q, !.ordinal = n].text = node.text
             /\ [node EXCEPT !.ordinal = n].kind = node.kind
             /\ [node EXCEPT !.ordinal = n].label = node.label
             /\ [node EXCEPT !.ordinal = n].text = node.text
  BY DEF WorkingNode
<1>4. ASSUME NEW u \in DOMAIN W
      PROVE  At(u).kind = G[u].kind /\ At(u).label = G[u].label /\ At(u).text = G[u].text
  <2> HIDE DEF W, p, promoted, earlier, later, Rank
  <2>1. CASE u \in promoted
    BY <1>1, <1>3, <2>1
  <2>2. CASE u \notin promoted /\ u \in earlier
    BY <1>1, <1>3, <2>2
  <2>3. CASE u \notin promoted /\ u \notin earlier /\ u \in later
    BY <1>1, <1>3, <2>3
  <2>4. CASE u \notin promoted /\ u \notin earlier /\ u \notin later
    BY <1>1, <2>4
  <2> QED BY <2>1, <2>2, <2>3, <2>4
<1> HIDE DEF At, W
<1>5. DOMAIN H = DOMAIN W /\ \A u \in DOMAIN W : H[u] = At(u)
  BY <1>2
<1> HIDE DEF H
<1>6. DOMAIN H = DOMAIN G \ {t} /\ KeepsContent(G, H)
  BY <1>1, <1>4, <1>5 DEF KeepsContent
<1> QED BY <1>6 DEF H

LEMMA RemovalStep ==
  ASSUME CascadeInv, NEW u \in DOMAIN working, Remove(u)
  PROVE  CascadeInv'
<1>1. Shape(working) /\ u \in Uids
  BY DEF CascadeInv, Shape
<1>2. CASE Operation("remove", u, PromoteChildren(working, u))
  <2> DEFINE H == PromoteChildren(working, u)
  <2>1. Shape(H) /\ DOMAIN H = DOMAIN working \ {u} /\ KeepsContent(working, H)
    BY <1>1, PromotionKeepsTheShape, PromotionKeepsContent
  <2>2. Ordered(working) => Ordered(H) /\ KeepsOrder(working, H)
    BY <1>1, PromotionKeepsOrder
  <2>3. u \in Above(working, u)
    BY SubtreeHasItsRoot DEF Above
  <2> HIDE DEF H
  <2>4. Operation("remove", u, H)
    BY <1>2 DEF H
  <2>5. \A w \in DOMAIN H : /\ H[w].kind = working[w].kind
                            /\ H[w].label = working[w].label /\ H[w].text = working[w].text
    BY <2>1 DEF KeepsContent
  <2> QED BY <1>1, <2>1, <2>2, <2>3, <2>4, <2>5, StepWithinTheCopy
<1>3. CASE Operation("remove", u, Without(working, Subtree(working, u)))
  <2> DEFINE H == Without(working, Subtree(working, u))
  <2>1. Shape(H)
    BY <1>1, OperationsKeepTheShape
  <2>2. /\ DOMAIN H = DOMAIN working \ Subtree(working, u)
        /\ \A w \in DOMAIN H : H[w] = working[w]
    BY DEF Without
  <2>3. Ordered(working) => Ordered(H) /\ KeepsOrder(working, H)
    BY SubtreeRemovalKeepsOrder
  <2>4. \A w \in Subtree(working, u) : u \in Above(working, w)
    BY DEF Above
  <2>5. u \in Subtree(working, u)
    BY SubtreeHasItsRoot
  <2> HIDE DEF H
  <2>6. Operation("remove", u, H)
    BY <1>3 DEF H
  <2> QED BY <1>1, <2>1, <2>2, <2>3, <2>4, <2>5, <2>6, StepWithinTheCopy
<1> QED BY <1>2, <1>3 DEF Remove

\* A move or an insertion: from here on only content and kinds are followed.
LEMMA StepOutOfTheCopy ==
  ASSUME CascadeInv, NEW tag \in {"reparent", "insert"}, NEW u \in Uids,
         NEW H, Operation(tag, u, H), Shape(H),
         DOMAIN H = IF tag = "insert" THEN DOMAIN working \cup {u} ELSE DOMAIN working,
         \A w \in DOMAIN H : w # u \/ tag = "reparent" =>
             /\ H[w].kind = working[w].kind
             /\ H[w].label = working[w].label /\ H[w].text = working[w].text
  PROVE  CascadeInv'
<1>1. base' = base /\ working' = H
  BY DEF Operation
<1>2. \A tags : Named(tags)' = Named(tags) \cup {w \in {u} : tag \in tags}
  BY DEF Operation, Named
<1>3. Named({"reparent", "insert"})' # {}
  BY <1>2
<1>4. /\ Named({"reclassify"})' = Named({"reclassify"})
      /\ Named({"replace_content"})' = Named({"replace_content"})
      /\ Named({"insert"}) \subseteq Named({"insert"})'
      /\ tag = "insert" => u \in Named({"insert"})'
  BY <1>2
<1>5. Shape(base)' /\ Valid(base)' /\ Shape(working)'
  BY <1>1, CascadeInvPrimed DEF CascadeInv
<1>6. DOMAIN H \ DOMAIN base \subseteq Named({"insert"})'
  BY <1>4 DEF CascadeInv, NoImplicitCascade
<1>7. ASSUME NEW w \in (DOMAIN H \cap DOMAIN base) \ Named({"insert"})'
      PROVE  /\ w \notin Named({"reclassify"})' => H[w].kind = base[w].kind
             /\ w \notin Named({"replace_content"})' =>
                  H[w].label = base[w].label /\ H[w].text = base[w].text
  <2>1. w \in DOMAIN working /\ (w # u \/ tag = "reparent") /\ w \notin Named({"insert"})
    BY <1>4, <1>7
  <2>2. /\ w \notin Named({"reclassify"}) => working[w].kind = base[w].kind
        /\ w \notin Named({"replace_content"}) =>
             working[w].label = base[w].label /\ working[w].text = base[w].text
    BY <1>7, <2>1 DEF CascadeInv, NoImplicitCascade
  <2> QED BY <1>4, <1>7, <2>1, <2>2
<1>8. NoImplicitCascade'
  BY <1>1, <1>3, <1>6, <1>7, CascadePrimed
<1> QED BY <1>3, <1>5, <1>8 DEF CascadeInv

LEMMA MoveStep ==
  ASSUME CascadeInv, NEW u \in DOMAIN working, Reparent(u)
  PROVE  CascadeInv'
<1>1. PICK parent \in DOMAIN working \cup {Root}, ordinal \in 0..Cardinality(Uids) :
        Operation("reparent", u, Reparented(working, u, parent, ordinal))
  BY DEF Reparent
<1> DEFINE H == Reparented(working, u, parent, ordinal)
<1>2. Shape(working) /\ u \in Uids /\ ordinal \in Nat
  BY UidsAreNumbers, FS_CardinalityType DEF CascadeInv, Shape
<1>3. Shape(H)
  BY <1>2, OperationsKeepTheShape
<1>4. H = [working EXCEPT ![u] = [[@ EXCEPT !.parent = parent] EXCEPT !.ordinal = ordinal]]
  BY DEF Reparented
<1>5. working[u] \in WorkingNode
  BY <1>2 DEF Shape
<1> DEFINE node == [[working[u] EXCEPT !.parent = parent] EXCEPT !.ordinal = ordinal]
<1>7. node.kind = working[u].kind /\ node.label = working[u].label
      /\ node.text = working[u].text
  BY <1>5 DEF WorkingNode
<1>8. DOMAIN H = DOMAIN working /\ \A w \in DOMAIN H : H[w] = IF w = u THEN node ELSE working[w]
  BY <1>4
<1> HIDE DEF node, H
<1>9. \A w \in DOMAIN H : /\ H[w].kind = working[w].kind
                          /\ H[w].label = working[w].label /\ H[w].text = working[w].text
  BY <1>7, <1>8
<1>10. Operation("reparent", u, H)
  BY <1>1 DEF H
<1> QED BY <1>2, <1>3, <1>8, <1>9, <1>10, StepOutOfTheCopy

LEMMA InsertionStep ==
  ASSUME CascadeInv, NEW u \in Uids, Insert(u)
  PROVE  CascadeInv'
<1>1. PICK node \in WorkingNode : Operation("insert", u, Inserted(working, u, node))
  <2>1. PICK parent \in Uids \cup {Root}, kind \in Kinds, ordinal \in 0..Cardinality(Uids),
             label \in Labels \cup {NoLabel}, text \in Texts :
               Operation("insert", u, Inserted(working, u,
                 [parent |-> parent, kind |-> kind, ordinal |-> ordinal, label |-> label,
                  text |-> text]))
    BY DEF Insert
  <2>2. ordinal \in Nat
    BY UidsAreNumbers, FS_CardinalityType
  <2>3. [parent |-> parent, kind |-> kind, ordinal |-> ordinal, label |-> label,
         text |-> text] \in WorkingNode
    BY <2>2 DEF WorkingNode
  <2> QED BY <2>1, <2>3
<1> DEFINE H == Inserted(working, u, node)
<1>2. Shape(H)
  BY OperationsKeepTheShape DEF CascadeInv
<1>3. DOMAIN H = DOMAIN working \cup {u} /\ \A w \in DOMAIN H : w # u => H[w] = working[w]
  BY DEF Inserted
<1> HIDE DEF H
<1>4. Operation("insert", u, H)
  BY <1>1 DEF H
<1> QED BY <1>2, <1>3, <1>4, StepOutOfTheCopy

\* A fresh working copy is the base.
LEMMA FreshCopy ==
  ASSUME Shape(base), Valid(base), working = base, ops = {}
  PROVE  CascadeInv
<1>1. \A tags : Named(tags) = {}
  BY DEF Named
<1>2. Ordered(base)
  BY ValidIsOrdered
<1>3. \A u : Above(base, u) = Above(base, u) \cap DOMAIN base
  BY DEF Above
<1>4. KeepsOrder(base, base)
  BY <1>3 DEF KeepsOrder
<1>5. NoImplicitCascade
  BY <1>1, <1>3 DEF NoImplicitCascade
<1> QED BY <1>2, <1>4, <1>5 DEF CascadeInv

LEMMA NextPatchStep ==
  ASSUME CascadeInv, NextPatch
  PROVE  CascadeInv'
<1>1. base' = base /\ working' = base /\ ops' = {}
  BY DEF NextPatch
<1>2. \A tags : Named(tags)' = {}
  BY <1>1 DEF Named
<1>3. Shape(base) /\ Valid(base) /\ Ordered(base)
  BY ValidIsOrdered DEF CascadeInv
<1>4. \A u : Above(base, u) = Above(base, u) \cap DOMAIN base
  BY DEF Above
<1>5. KeepsOrder(base, base)
  BY <1>4 DEF KeepsOrder
<1>6. NoImplicitCascade'
  BY <1>1, <1>2, <1>4, CascadePrimed
<1> QED BY <1>1, <1>3, <1>5, <1>6, CascadeInvPrimed DEF CascadeInv

\* Removing nodes in any order and with either disposition takes away what the
\* patch names and its subtrees and never reorders the rest; no operation
\* touches a node it does not name (apply_patch, reparent_children,
\* remove_subtree).
THEOREM RemovalNeverCascades == PatchSpec => []NoImplicitCascade
<1>1. PatchInit => CascadeInv
  BY CommittedShape, FreshCopy DEF PatchInit
<1>2. CascadeInv /\ [PatchNext]_patchVars => CascadeInv'
  <2> SUFFICES ASSUME CascadeInv, [PatchNext]_patchVars PROVE CascadeInv'
    OBVIOUS
  <2>1. CASE UNCHANGED patchVars
    <3>1. base' = base /\ working' = working /\ \A tags : Named(tags)' = Named(tags)
      BY <2>1 DEF patchVars, Named
    <3>2. NoImplicitCascade'
      BY <3>1, CascadePrimed DEF CascadeInv, NoImplicitCascade
    <3> QED BY <3>1, <3>2, CascadeInvPrimed DEF CascadeInv
  <2>2. CASE PatchNext
    BY <2>2, ReplacementStep, ReclassificationStep, MoveStep, RemovalStep, InsertionStep,
       NextPatchStep DEF PatchNext
  <2> QED BY <2>1, <2>2
<1>3. CascadeInv => NoImplicitCascade
  BY DEF CascadeInv
<1> QED BY <1>1, <1>2, <1>3, PTL DEF PatchSpec

=============================================================================
