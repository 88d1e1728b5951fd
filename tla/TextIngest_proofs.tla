------------------------- MODULE TextIngest_proofs -------------------------
(***************************************************************************)
(* Proofs about the adapters, first part: sequences of nodes and the       *)
(* places they take in the tree, the runs of text they hold, and the two   *)
(* adapters that read a flat stream: the PDF text adapter and the Markdown *)
(* one.  PdfInv and MarkdownInv are inductive; Ingest_proofs adds HTML and *)
(* puts the three together.                                                *)
(***************************************************************************)
EXTENDS MCSourcePlane, FiniteSetTheorems, WellFoundedInduction, FunctionTheorems, SequenceTheorems,
        TLAPS

\* A set of numbers has a least one.
LEMMA LeastNatural ==
  ASSUME NEW S \in SUBSET Nat, S # {}
  PROVE  \E x \in S : \A y \in S : x <= y
<1> DEFINE T == {1..n : n \in S}
<1>1. T \subseteq FiniteSubsetsOf(Nat) /\ T # {}
  <2>1. \A n \in Nat : 1..n \in SUBSET Nat /\ IsFiniteSet(1..n)
    BY FS_Interval
  <2> QED BY <2>1 DEF FiniteSubsetsOf
<1>2. IsWellFoundedOn(StrictSubsetOrdering(Nat), FiniteSubsetsOf(Nat))
  BY FS_StrictSubsetOrderingWellFounded
<1> HIDE DEF T
<1>3. PICK X \in T : \A Y \in T : <<Y, X>> \notin StrictSubsetOrdering(Nat)
  BY <1>1, <1>2, WFMin
<1>4. PICK x \in S : X = 1..x
  BY DEF T
<1>5. ASSUME NEW y \in S, y < x
      PROVE  FALSE
  <2>1. 1..y \in T /\ 1..y \subseteq 1..x /\ 1..y \in SUBSET Nat /\ 1..x \in SUBSET Nat
    BY <1>5 DEF T
  <2>2. 1..y # 1..x
    <3>1. x \in 1..x /\ x \notin 1..y
      BY <1>5
    <3> QED BY <3>1
  <2>3. <<1..y, 1..x>> \in StrictSubsetOrdering(Nat)
    BY <2>1, <2>2 DEF StrictSubsetOrdering
  <2> QED BY <1>3, <1>4, <2>1, <2>3
<1> QED BY <1>5

\* A set of bounded numbers has a greatest one.
LEMMA GreatestIndex ==
  ASSUME NEW n \in Nat, NEW S \in SUBSET (0..n), S # {}
  PROVE  \E x \in S : \A y \in S : y <= x
<1> DEFINE T == {m \in Nat : n - m \in S}
<1>1. PICK s \in S : TRUE
  OBVIOUS
<1>2. n - s \in T
  OBVIOUS
<1>3. T \in SUBSET Nat /\ T # {}
  BY <1>2
<1>4. PICK m \in T : \A k \in T : m <= k
  <2> HIDE DEF T
  <2> QED BY <1>3, LeastNatural
<1>5. \A y \in S : n - y \in T
  OBVIOUS
<1>6. \A y \in S : m <= n - y
  BY <1>4, <1>5
<1> QED BY <1>4, <1>6

-----------------------------------------------------------------------------
(* The tree.                                                               *)

Place(id, parent, kind, ordinal) ==
    [id |-> id, parent |-> parent, kind |-> kind, ordinal |-> ordinal]

\* The places of a document: parents first, and below each as many as were counted.
Planted(R, counts) ==
    /\ \A p : OrdinalIn(counts, p) \in Nat
    /\ \A a \in R :
        /\ a.id \in Nat /\ a.parent \in Nat /\ a.parent < a.id
        /\ a.ordinal \in Nat /\ a.ordinal < OrdinalIn(counts, a.parent)
        /\ a.parent = DocumentRoot
           \/ \E b \in R : b.id = a.parent /\ SourceGraph!MayParent(b.kind, a.kind)
    /\ \A a, b \in R : a.id = b.id => a = b
    /\ \A a, b \in R : a.parent = b.parent /\ a.ordinal = b.ordinal => a = b
    /\ \A p : \A k \in Nat : k < OrdinalIn(counts, p) =>
          \E a \in R : a.parent = p /\ a.ordinal = k

MayBear(R, p, kind) ==
    p = DocumentRoot \/ \E b \in R : b.id = p /\ SourceGraph!MayParent(b.kind, kind)

\* CountedBy moves the next ordinal of one parent only.
LEMMA CountsGrow ==
  ASSUME NEW counts, NEW p, NEW n
  PROVE  \A q : OrdinalIn(CountedBy(counts, p, n), q)
                  = IF q = p THEN OrdinalIn(counts, p) + n ELSE OrdinalIn(counts, q)
BY DEF OrdinalIn, CountedBy

\* V is R and n new places in a row.
PlantedRow(V, R, id, n, p, kind, first) ==
    \A x : x \in V <=> x \in R \/ \E i \in 1..n : x = Place(id + i, p, kind, first + i - 1)

\* n children more of one parent, at its next ordinals (the empty cells of a row).
LEMMA PlantMany ==
  ASSUME NEW R, NEW counts, Planted(R, counts),
         NEW n \in Nat, NEW id \in Nat, \A a \in R : \A i \in 1..n : a.id # id + i,
         NEW p \in Nat, p <= id, NEW kind, MayBear(R, p, kind),
         NEW V, PlantedRow(V, R, id, n, p, kind, OrdinalIn(counts, p))
  PROVE  Planted(V, CountedBy(counts, p, n))
<1>0. \A x : x \in V <=> x \in R \/ \E i \in 1..n :
                    x = Place(id + i, p, kind, OrdinalIn(counts, p) + i - 1)
  BY DEF PlantedRow
<1> DEFINE more == CountedBy(counts, p, n)
           new(i) == Place(id + i, p, kind, OrdinalIn(counts, p) + i - 1)
           m == OrdinalIn(counts, p)
<1>1. \A q : OrdinalIn(more, q) = IF q = p THEN m + n ELSE OrdinalIn(counts, q)
  BY CountsGrow
<1>2. m \in Nat
  BY DEF Planted
<1>3. \A i : /\ new(i).id = id + i /\ new(i).parent = p /\ new(i).kind = kind
             /\ new(i).ordinal = m + i - 1
  BY DEF Place
<1>4. \A x \in V : x \in R \/ \E i \in 1..n : x = new(i)
  BY <1>0
<1>5. \A x \in R : x \in V
  BY <1>0
<1>6. \A i \in 1..n : new(i) \in V
  BY <1>0
<1> HIDE DEF more, new, m
<1>7. \A q : OrdinalIn(more, q) \in Nat
  BY <1>1, <1>2 DEF Planted
<1>8. ASSUME NEW a \in V
      PROVE  /\ a.id \in Nat /\ a.parent \in Nat /\ a.parent < a.id
             /\ a.ordinal \in Nat /\ a.ordinal < OrdinalIn(more, a.parent)
             /\ a.parent = DocumentRoot
                \/ \E b \in V : b.id = a.parent /\ SourceGraph!MayParent(b.kind, a.kind)
  <2>1. CASE a \in R
    <3>1. /\ a.id \in Nat /\ a.parent \in Nat /\ a.parent < a.id
          /\ a.ordinal \in Nat /\ a.ordinal < OrdinalIn(counts, a.parent)
          /\ OrdinalIn(counts, a.parent) \in Nat
          /\ a.parent = DocumentRoot
             \/ \E b \in R : b.id = a.parent /\ SourceGraph!MayParent(b.kind, a.kind)
      BY <2>1 DEF Planted
    <3>2. a.ordinal < OrdinalIn(more, a.parent)
      BY <1>1, <1>2, <3>1 DEF m
    <3> QED BY <1>5, <3>1, <3>2
  <2>2. ASSUME NEW i \in 1..n, a = new(i)
        PROVE  /\ a.id \in Nat /\ a.parent \in Nat /\ a.parent < a.id
               /\ a.ordinal \in Nat /\ a.ordinal < OrdinalIn(more, a.parent)
               /\ a.parent = DocumentRoot
                  \/ \E b \in V : b.id = a.parent /\ SourceGraph!MayParent(b.kind, a.kind)
    <3>1. a.id = id + i /\ a.parent = p /\ a.kind = kind /\ a.ordinal = m + i - 1
      BY <1>3, <2>2
    <3>2. p = DocumentRoot \/ \E b \in V : b.id = p /\ SourceGraph!MayParent(b.kind, kind)
      BY <1>5 DEF MayBear
    <3> QED BY <1>1, <1>2, <3>1, <3>2
  <2> QED BY <1>4, <2>1, <2>2
<1>9. ASSUME NEW a \in V, NEW b \in V, a.id = b.id
      PROVE  a = b
  <2>1. \A x \in R, i \in 1..n : x.id # new(i).id
    BY <1>3
  <2>2. \A i, j \in 1..n : new(i).id = new(j).id => i = j
    BY <1>3
  <2>3. \A x, y \in R : x.id = y.id => x = y
    BY DEF Planted
  <2> QED BY <1>4, <1>9, <2>1, <2>2, <2>3
<1>10. ASSUME NEW a \in V, NEW b \in V, a.parent = b.parent, a.ordinal = b.ordinal
       PROVE  a = b
  <2>1. \A x \in R : x.parent = p => x.ordinal \in Nat /\ x.ordinal < m
    BY DEF Planted, m
  <2>2. \A x \in R, i \in 1..n : x.parent # new(i).parent \/ x.ordinal # new(i).ordinal
    BY <1>2, <1>3, <2>1
  <2>3. \A i, j \in 1..n : new(i).ordinal = new(j).ordinal => i = j
    BY <1>2, <1>3
  <2>4. \A x, y \in R : x.parent = y.parent /\ x.ordinal = y.ordinal => x = y
    BY DEF Planted
  <2> QED BY <1>4, <1>10, <2>2, <2>3, <2>4
<1>11. ASSUME NEW q, NEW k \in Nat, k < OrdinalIn(more, q)
       PROVE  \E a \in V : a.parent = q /\ a.ordinal = k
  <2>1. CASE k < OrdinalIn(counts, q)
    BY <1>5, <2>1 DEF Planted
  <2>2. CASE ~(k < OrdinalIn(counts, q))
    <3>1. OrdinalIn(counts, q) \in Nat
      BY DEF Planted
    <3>2. q = p /\ k - m + 1 \in 1..n
      BY <1>1, <1>2, <1>11, <2>2, <3>1 DEF m
    <3>3. new(k - m + 1).ordinal = k /\ new(k - m + 1).parent = q
      BY <1>2, <1>3, <3>2
    <3> QED BY <1>6, <3>2, <3>3
  <2> QED BY <2>1, <2>2
<1> QED BY <1>7, <1>8, <1>9, <1>10, <1>11 DEF Planted, more

\* One child more of one parent, at its next ordinal.
LEMMA PlantOne ==
  ASSUME NEW R, NEW counts, Planted(R, counts),
         NEW id \in Nat, \A a \in R : a.id # id,
         NEW p \in Nat, p < id, NEW kind, MayBear(R, p, kind),
         NEW V, \A x : x \in V <=> x \in R \/ x = Place(id, p, kind, OrdinalIn(counts, p))
  PROVE  Planted(V, CountedIn(counts, p))
<1> DEFINE before == id - 1
           m == OrdinalIn(counts, p)
<1>1. m \in Nat /\ before \in Nat /\ p <= before /\ before + 1 = id /\ m + 1 - 1 = m
  BY DEF Planted
<1>2. \A i \in 1..1 : before + i = id /\ m + i - 1 = m
  BY <1>1
<1>3. 1 \in 1..1
  OBVIOUS
<1> HIDE DEF before
<1>4. \A a \in R : \A i \in 1..1 : a.id # before + i
  BY <1>2
<1>5. \A x : x \in V <=> x \in R \/ \E i \in 1..1 : x = Place(before + i, p, kind, m + i - 1)
  BY <1>2, <1>3
<1>6. Planted(V, CountedBy(counts, p, 1))
  <2>1. PlantedRow(V, R, before, 1, p, kind, OrdinalIn(counts, p))
    BY <1>5 DEF PlantedRow
  <2> QED BY <1>1, <1>4, <2>1, PlantMany
<1> QED BY <1>6 DEF CountedIn

\* A graph all of whose places are taken by candidates.
LEMMA AssembledIsValid ==
  ASSUME \A i, k \in DOMAIN candidates : candidates[i].provisional = candidates[k].provisional => i = k,
         Planted({Place(candidates[i].provisional, candidates[i].parent, candidates[i].kind,
                        candidates[i].ordinal) : i \in DOMAIN candidates}, ordinals)
  PROVE  SourceGraph!Valid(CandidateGraph)
<1> DEFINE G == CandidateGraph
           at(i) == Place(candidates[i].provisional, candidates[i].parent, candidates[i].kind,
                          candidates[i].ordinal)
           R == {at(i) : i \in DOMAIN candidates}
<1>1. \A i : /\ at(i).id = candidates[i].provisional /\ at(i).parent = candidates[i].parent
             /\ at(i).kind = candidates[i].kind /\ at(i).ordinal = candidates[i].ordinal
  BY DEF Place
<1>2. DOMAIN G = {candidates[i].provisional : i \in DOMAIN candidates}
  BY DEF CandidateGraph
<1>3. \A i \in DOMAIN candidates : G[candidates[i].provisional] = candidates[i]
  <2> TAKE i \in DOMAIN candidates
  <2>1. \A k \in DOMAIN candidates : candidates[k].provisional = candidates[i].provisional <=> k = i
    OBVIOUS
  <2>2. (CHOOSE k \in DOMAIN candidates : candidates[k].provisional = candidates[i].provisional) = i
    BY <2>1
  <2> QED BY <2>2 DEF CandidateGraph
<1>4. Planted(R, ordinals)
  OBVIOUS
<1> HIDE DEF G, at
<1>5. \A u \in DOMAIN G : \E a \in R : /\ a.id = u /\ a.parent = G[u].parent
                                       /\ a.kind = G[u].kind /\ a.ordinal = G[u].ordinal
  BY <1>1, <1>2, <1>3
<1>6. \A a \in R : /\ a.id \in DOMAIN G /\ G[a.id].parent = a.parent
                   /\ G[a.id].kind = a.kind /\ G[a.id].ordinal = a.ordinal
  BY <1>1, <1>2, <1>3
<1> HIDE DEF R
<1>7. SourceGraph!ParentsResolve(G)
  <2>1. ASSUME NEW u \in DOMAIN G
        PROVE  G[u].parent \in DOMAIN G \cup {DocumentRoot}
    BY <1>4, <1>5, <1>6 DEF Planted
  <2> QED BY <2>1 DEF SourceGraph!ParentsResolve
<1>8. SourceGraph!Acyclic(G)
  <2>1. ASSUME NEW S \in SUBSET DOMAIN G, S # {}
        PROVE  \E u \in S : G[u].parent \notin S
    <3>1. \A u \in DOMAIN G : u \in Nat /\ G[u].parent \in Nat /\ G[u].parent < u
      BY <1>4, <1>5 DEF Planted
    <3>2. PICK u \in S : \A w \in S : u <= w
      BY <2>1, <3>1, LeastNatural
    <3> QED BY <3>1, <3>2
  <2> QED BY <2>1 DEF SourceGraph!Acyclic
<1>9. SourceGraph!KindsLegal(G)
  <2>1. ASSUME NEW u \in DOMAIN G, G[u].parent \in DOMAIN G
        PROVE  SourceGraph!MayParent(G[G[u].parent].kind, G[u].kind)
    <3>1. PICK a \in R : a.id = u /\ a.parent = G[u].parent /\ a.kind = G[u].kind
      BY <1>5
    <3>2. PICK c \in R : c.id = G[u].parent
      BY <1>5, <2>1
    <3>3. a.parent # DocumentRoot
      BY <1>4, <3>1, <3>2 DEF Planted, DocumentRoot
    <3>4. PICK b \in R : b.id = a.parent /\ SourceGraph!MayParent(b.kind, a.kind)
      BY <1>4, <3>3 DEF Planted
    <3> QED BY <1>6, <3>1, <3>4
  <2> QED BY <2>1 DEF SourceGraph!KindsLegal
<1>10. SourceGraph!OrdinalsContiguous(G)
  <2>1. ASSUME NEW p
        PROVE  {G[u].ordinal : u \in SourceGraph!Children(G, p)}
                  = 0..Cardinality(SourceGraph!Children(G, p)) - 1
    <3> DEFINE below == SourceGraph!Children(G, p)
               n == OrdinalIn(ordinals, p)
               f == [u \in below |-> G[u].ordinal]
    <3>1. n \in Nat
      BY <1>4 DEF Planted
    <3>2. \A u : u \in below <=> u \in DOMAIN G /\ G[u].parent = p
      BY DEF SourceGraph!Children
    <3> HIDE DEF below, n
    <3>3. \A u \in below : f[u] \in 0..n-1
      BY <1>4, <1>5, <3>1, <3>2 DEF Planted, n
    <3>4. \A u, w \in below : f[u] = f[w] => u = w
      BY <1>4, <1>5, <3>2 DEF Planted
    <3>5. \A k \in 0..n-1 : \E u \in below : f[u] = k
      <4> TAKE k \in 0..n-1
      <4>1. PICK a \in R : a.parent = p /\ a.ordinal = k
        BY <1>4, <3>1 DEF Planted, n
      <4> QED BY <1>6, <3>2, <4>1
    <3>6. f \in Bijection(below, 0..n-1)
      BY <3>3, <3>4, <3>5 DEF Bijection, Injection, Surjection, IsInjective
    <3>7. ExistsBijection(0..n-1, below)
      BY <3>6, Fun_ExistsBij, Fun_ExistsBijSymmetric
    <3>8. IsFiniteSet(0..n-1) /\ Cardinality(0..n-1) = n
      BY <3>1, FS_Interval
    <3>9. Cardinality(below) = n
      BY <3>7, <3>8, FS_Bijection
    <3>10. {G[u].ordinal : u \in below} = 0..n-1
      BY <3>3, <3>5
    <3> QED BY <3>9, <3>10 DEF below
  <2>2. \A p \in DOMAIN G \cup {DocumentRoot} : {G[u].ordinal : u \in SourceGraph!Children(G, p)}
                  = 0..Cardinality(SourceGraph!Children(G, p)) - 1
    BY <2>1
  <2>3. \A S : SourceGraph!Cardinality(S) = Cardinality(S)
    BY DEF Cardinality, SourceGraph!Cardinality
  <2> QED BY <2>2, <2>3 DEF SourceGraph!OrdinalsContiguous
<1> QED BY <1>7, <1>8, <1>9, <1>10 DEF SourceGraph!Valid, G

-----------------------------------------------------------------------------
(* Sequences of records with an id.                                        *)

\* No two of the records have the same id.
Distinct(s) ==
    /\ s \in Seq(Range(s))
    /\ \A i, k \in DOMAIN s : s[i].provisional = s[k].provisional => i = k

Without(X, id) == {x \in X : x.provisional # id}

\* A sequence of the elements of its range.
LEMMA ListsHaveLength ==
  ASSUME NEW s, s \in Seq(Range(s))
  PROVE  /\ Len(s) \in Nat /\ DOMAIN s = 1..Len(s)
         /\ \A i \in DOMAIN s : s[i] \in Range(s)
         /\ s = <<>> <=> Len(s) = 0
         /\ \A x \in Range(s) : \E i \in DOMAIN s : x = s[i]
<1>1. \A x \in Range(s) : \E i \in DOMAIN s : x = s[i]
  BY DEF Range
<1> HIDE DEF Range
<1>2. Len(s) \in Nat /\ DOMAIN s = 1..Len(s) /\ (s # <<>> => Len(s) # 0)
  BY LenProperties, EmptySeq
<1>3. \A i \in DOMAIN s : s[i] \in Range(s)
  BY DEF Range
<1> QED BY <1>1, <1>2, <1>3

\* The sequence without elements.
LEMMA EmptyIsDistinct == Distinct(<<>>) /\ Range(<<>>) = {}
<1>1. Range(<<>>) = {}
  BY DEF Range
<1>2. <<>> \in Seq({}) /\ DOMAIN <<>> = {}
  OBVIOUS
<1> QED BY <1>1, <1>2 DEF Distinct

\* One element more at the end.
LEMMA AppendList ==
  ASSUME NEW s, s \in Seq(Range(s)), NEW e
  PROVE  /\ Append(s, e) \in Seq(Range(Append(s, e)))
         /\ Range(Append(s, e)) = Range(s) \cup {e}
         /\ Len(Append(s, e)) = Len(s) + 1
         /\ DOMAIN Append(s, e) = 1..Len(s) + 1
         /\ \A i \in 1..Len(s) + 1 : Append(s, e)[i] = IF i = Len(s) + 1 THEN e ELSE s[i]
<1> DEFINE S == Range(s) \cup {e}
           t == Append(s, e)
<1>1. s \in Seq(S) /\ e \in S
  BY SeqMonotonic, Range(s) \subseteq S
<1>2. Len(s) \in Nat /\ DOMAIN s = 1..Len(s)
  BY LenProperties
<1> HIDE DEF S
<1>3. /\ t \in Seq(S) /\ Len(t) = Len(s) + 1 /\ DOMAIN t = 1..Len(s) + 1
      /\ \A i \in 1..Len(s) + 1 : t[i] = IF i = Len(s) + 1 THEN e ELSE s[i]
  BY <1>1, <1>2
<1> HIDE DEF t
<1>4. ASSUME NEW x
      PROVE  x \in Range(t) <=> x \in Range(s) \/ x = e
  <2>1. x \in Range(t) <=> \E i \in 1..Len(s) + 1 : x = t[i]
    BY <1>3 DEF Range
  <2>2. x \in Range(s) <=> \E i \in 1..Len(s) : x = s[i]
    BY <1>2 DEF Range
  <2>3. Len(s) + 1 \in 1..Len(s) + 1 /\ \A i \in 1..Len(s) : i \in 1..Len(s) + 1 /\ i # Len(s) + 1
    BY <1>2
  <2> QED BY <1>3, <2>1, <2>2, <2>3
<1>5. Range(t) = S
  BY <1>4 DEF S
<1> QED BY <1>3, <1>5 DEF S, t

\* A record with an id of its own at the end.
LEMMA DistinctAppend ==
  ASSUME NEW s, Distinct(s), NEW e, \A x \in Range(s) : x.provisional # e.provisional
  PROVE  Distinct(Append(s, e)) /\ Range(Append(s, e)) = Range(s) \cup {e}
<1>1. s \in Seq(Range(s))
  BY DEF Distinct
<1>2. /\ Len(s) \in Nat /\ DOMAIN s = 1..Len(s)
      /\ \A i \in DOMAIN s : s[i].provisional # e.provisional
  BY <1>1, ListsHaveLength
<1>3. /\ Append(s, e) \in Seq(Range(Append(s, e)))
      /\ Range(Append(s, e)) = Range(s) \cup {e}
      /\ DOMAIN Append(s, e) = 1..Len(s) + 1
      /\ \A i \in 1..Len(s) + 1 : Append(s, e)[i] = IF i = Len(s) + 1 THEN e ELSE s[i]
  BY <1>1, AppendList
<1>4. ASSUME NEW i \in 1..Len(s) + 1, NEW k \in 1..Len(s) + 1,
             Append(s, e)[i].provisional = Append(s, e)[k].provisional
      PROVE  i = k
  <2>1. i # Len(s) + 1 => i \in DOMAIN s /\ Append(s, e)[i] = s[i]
    BY <1>2, <1>3
  <2>2. k # Len(s) + 1 => k \in DOMAIN s /\ Append(s, e)[k] = s[k]
    BY <1>2, <1>3
  <2>3. (i = Len(s) + 1 => Append(s, e)[i] = e) /\ (k = Len(s) + 1 => Append(s, e)[k] = e)
    BY <1>3
  <2> QED BY <1>2, <1>4, <2>1, <2>2, <2>3 DEF Distinct
<1> QED BY <1>3, <1>4 DEF Distinct

\* A sequence without its last element.
LEMMA FrontList ==
  ASSUME NEW s, s \in Seq(Range(s)), s # <<>>
  PROVE  /\ Front(s) \in Seq(Range(Front(s)))
         /\ Len(s) \in Nat \ {0} /\ Len(Front(s)) = Len(s) - 1 /\ Last(s) = s[Len(s)]
         /\ DOMAIN Front(s) = 1..Len(s) - 1
         /\ \A i \in 1..Len(s) - 1 : Front(s)[i] = s[i]
         /\ Last(s) \in Range(s)
<1> DEFINE t == Front(s)
<1>1. Len(s) \in Nat \ {0} /\ DOMAIN s = 1..Len(s) /\ Last(s) = s[Len(s)]
  BY ListsHaveLength DEF Last
<1>2. \A i \in 1..Len(s) - 1 : s[i] \in Range(s)
  BY <1>1, ListsHaveLength
<1>3. Front(s) = SubSeq(s, 1, Len(s) - 1)
  BY DEF Front
<1>4. /\ t \in Seq(Range(s)) /\ Len(t) = Len(s) - 1
      /\ \A i \in 1..Len(s) - 1 : t[i] = s[i]
  BY <1>1, <1>2, <1>3, SubSeqProperties
<1> HIDE DEF t
<1>5. DOMAIN t = 1..Len(s) - 1
  BY <1>4, LenProperties
<1>6. \A i \in 1..Len(t) : t[i] \in Range(t)
  BY <1>4, <1>5 DEF Range
<1>7. t \in [1..Len(t) -> Range(t)] /\ Len(t) \in Nat
  BY <1>4, <1>6, LenProperties
<1>8. t \in Seq(Range(t))
  BY <1>7, SeqDef
<1>9. Last(s) \in Range(s)
  BY <1>1, ListsHaveLength
<1> QED BY <1>1, <1>4, <1>5, <1>8, <1>9 DEF t

\* The last record taken from the others, of which none has its id.
LEMMA DistinctFront ==
  ASSUME NEW s, Distinct(s), s # <<>>
  PROVE  /\ Distinct(Front(s)) /\ Last(s) \in Range(s)
         /\ Range(Front(s)) = Without(Range(s), Last(s).provisional)
<1>1. s \in Seq(Range(s)) /\ DOMAIN s = 1..Len(s) /\ Len(s) \in Nat
  BY ListsHaveLength DEF Distinct
<1>2. /\ Front(s) \in Seq(Range(Front(s)))
      /\ Len(s) \in Nat \ {0} /\ Last(s) = s[Len(s)]
      /\ DOMAIN Front(s) = 1..Len(s) - 1
      /\ \A i \in 1..Len(s) - 1 : Front(s)[i] = s[i]
      /\ Last(s) \in Range(s)
  BY <1>1, FrontList
<1>3. Distinct(Front(s))
  BY <1>1, <1>2 DEF Distinct
<1>4. ASSUME NEW x
      PROVE  x \in Range(Front(s)) <=> x \in Range(s) /\ x.provisional # Last(s).provisional
  <2>1. x \in Range(Front(s)) <=> \E i \in 1..Len(s) - 1 : x = Front(s)[i]
    BY <1>2 DEF Range
  <2>2. x \in Range(s) <=> \E i \in 1..Len(s) : x = s[i]
    BY <1>1 DEF Range
  <2>3. \A i \in 1..Len(s) : i \in 1..Len(s) - 1 <=> s[i].provisional # Last(s).provisional
    BY <1>1, <1>2 DEF Distinct
  <2>4. \A i \in 1..Len(s) - 1 : i \in 1..Len(s)
    BY <1>1
  <2> QED BY <1>2, <2>1, <2>2, <2>3, <2>4
<1> QED BY <1>2, <1>3, <1>4 DEF Without

\* One element replaced.
LEMMA ExceptList ==
  ASSUME NEW s, s \in Seq(Range(s)), NEW k \in DOMAIN s, NEW e
  PROVE  /\ [s EXCEPT ![k] = e] \in Seq(Range([s EXCEPT ![k] = e]))
         /\ Len([s EXCEPT ![k] = e]) = Len(s)
         /\ DOMAIN [s EXCEPT ![k] = e] = DOMAIN s
         /\ \A i \in DOMAIN s : [s EXCEPT ![k] = e][i] = IF i = k THEN e ELSE s[i]
<1> DEFINE S == Range(s) \cup {e}
           t == [s EXCEPT ![k] = e]
<1>1. s \in Seq(S) /\ e \in S
  BY SeqMonotonic, Range(s) \subseteq S
<1>2. Len(s) \in Nat /\ DOMAIN s = 1..Len(s)
  BY LenProperties
<1>3. DOMAIN t = DOMAIN s /\ \A i \in DOMAIN s : t[i] = IF i = k THEN e ELSE s[i]
  OBVIOUS
<1> HIDE DEF S
<1>4. t \in Seq(S) /\ Len(t) = Len(s)
  BY <1>1, <1>2, ExceptSeq
<1> HIDE DEF t
<1>5. t \in [1..Len(t) -> Range(t)] /\ Len(t) \in Nat
  <2>1. t \in [1..Len(t) -> S]
    BY <1>4, LenProperties
  <2>2. \A i \in 1..Len(t) : t[i] \in Range(t)
    BY <2>1 DEF Range
  <2> QED BY <1>2, <1>4, <2>1, <2>2
<1>6. t \in Seq(Range(t))
  BY <1>5, SeqDef
<1> QED BY <1>3, <1>4, <1>6 DEF t

\* One record replaced by another of the same id.
LEMMA DistinctExcept ==
  ASSUME NEW s, Distinct(s), NEW k \in DOMAIN s, NEW e, e.provisional = s[k].provisional
  PROVE  /\ Distinct([s EXCEPT ![k] = e])
         /\ Range([s EXCEPT ![k] = e]) = Without(Range(s), e.provisional) \cup {e}
         /\ s[k] \in Range(s)
<1> DEFINE t == [s EXCEPT ![k] = e]
<1>1. /\ t \in Seq(Range(t)) /\ DOMAIN t = DOMAIN s
      /\ \A i \in DOMAIN s : t[i] = IF i = k THEN e ELSE s[i]
  BY ExceptList DEF Distinct
<1> HIDE DEF t
<1>2. Distinct(t)
  BY <1>1 DEF Distinct
<1>3. ASSUME NEW x
      PROVE  x \in Range(t) <=> x = e \/ (x \in Range(s) /\ x.provisional # e.provisional)
  <2>1. x \in Range(t) <=> \E i \in DOMAIN s : x = t[i]
    BY <1>1 DEF Range
  <2>2. x \in Range(s) <=> \E i \in DOMAIN s : x = s[i]
    BY DEF Range
  <2>3. \A i \in DOMAIN s : i # k <=> s[i].provisional # e.provisional
    BY DEF Distinct
  <2> QED BY <1>1, <2>1, <2>2, <2>3
<1>4. s[k] \in Range(s)
  BY DEF Range
<1> QED BY <1>2, <1>3, <1>4 DEF Without, t

\* n elements more at the end.
LEMMA ConcatLists ==
  ASSUME NEW s, s \in Seq(Range(s)), NEW n \in Nat, NEW f, f = [i \in 1..n |-> f[i]]
  PROVE  /\ s \o f \in Seq(Range(s \o f))
         /\ DOMAIN (s \o f) = 1..Len(s) + n
         /\ Len(s) \in Nat /\ DOMAIN s = 1..Len(s)
         /\ \A i \in 1..Len(s) + n : (s \o f)[i] = IF i <= Len(s) THEN s[i] ELSE f[i - Len(s)]
<1> DEFINE S == Range(s) \cup Range(f)
           t == s \o f
<1>1. Len(s) \in Nat /\ DOMAIN s = 1..Len(s)
  BY LenProperties
<1>2. \A i \in 1..n : f[i] \in S
  BY DEF Range
<1>3. f \in [1..n -> S]
  BY <1>2
<1>4. s \in Seq(S)
  BY SeqMonotonic, Range(s) \subseteq S
<1> HIDE DEF S
<1>5. f \in Seq(S) /\ Len(f) = n
  <2>1. f \in Seq(S)
    BY <1>3, SeqDef
  <2>2. DOMAIN f = 1..n /\ DOMAIN f = 1..Len(f) /\ Len(f) \in Nat
    BY <1>3, <2>1, LenProperties
  <2>3. Len(f) = n
    <3>1. Len(f) \in Nat /\ n \in Nat
      BY <2>2
    <3>2. 1..Len(f) = 1..n
      BY <2>2
    <3>3. \A i \in Nat : i \in 1..Len(f) <=> i \in 1..n
      BY <3>2
    <3> QED BY <3>1, <3>3
  <2> QED BY <2>1, <2>3
<1>6. /\ t \in Seq(S) /\ Len(t) = Len(s) + n
      /\ \A i \in 1..Len(s) + n : t[i] = IF i <= Len(s) THEN s[i] ELSE f[i - Len(s)]
  BY <1>4, <1>5, ConcatProperties
<1> HIDE DEF t
<1>7. DOMAIN t = 1..Len(s) + n /\ t \in [1..Len(t) -> S] /\ Len(t) \in Nat
  BY <1>6, LenProperties
<1>8. \A i \in 1..Len(t) : t[i] \in Range(t)
  BY <1>7 DEF Range
<1>9. t \in Seq(Range(t))
  BY <1>7, <1>8, SeqDef
<1> QED BY <1>1, <1>6, <1>7, <1>9 DEF t

Listed(f, n) == f = [i \in 1..n |-> f[i]]

\* n records with ids of their own at the end.
LEMMA DistinctConcat ==
  ASSUME NEW s, Distinct(s), NEW n \in Nat, NEW f, Listed(f, n),
         \A i, k \in 1..n : f[i].provisional = f[k].provisional => i = k,
         \A x \in Range(s), i \in 1..n : x.provisional # f[i].provisional
  PROVE  /\ Distinct(s \o f)
         /\ \A x : x \in Range(s \o f) <=> x \in Range(s) \/ \E i \in 1..n : x = f[i]
<1> DEFINE t == s \o f
<1>1. s \in Seq(Range(s))
  BY DEF Distinct
<1>2. /\ t \in Seq(Range(t)) /\ DOMAIN t = 1..Len(s) + n /\ Len(s) \in Nat /\ DOMAIN s = 1..Len(s)
      /\ \A i \in 1..Len(s) + n : t[i] = IF i <= Len(s) THEN s[i] ELSE f[i - Len(s)]
  BY <1>1, ConcatLists DEF Listed
<1> HIDE DEF t
<1>3. \A i \in 1..Len(s) : i \in 1..Len(s) + n /\ t[i] = s[i] /\ t[i] \in Range(s)
  <2>1. \A i \in 1..Len(s) : s[i] \in Range(s)
    BY <1>2 DEF Range
  <2> QED BY <1>2, <2>1
<1>4. \A i \in 1..n : Len(s) + i \in 1..Len(s) + n /\ t[Len(s) + i] = f[i]
  <2> TAKE i \in 1..n
  <2>1. Len(s) + i \in 1..Len(s) + n /\ ~(Len(s) + i <= Len(s)) /\ (Len(s) + i) - Len(s) = i
    BY <1>2
  <2>2. t[Len(s) + i] = f[(Len(s) + i) - Len(s)]
    BY <1>2, <2>1
  <2> QED BY <2>1, <2>2
<1>5. \A i \in 1..Len(s) + n : i \in 1..Len(s) \/ (i - Len(s) \in 1..n /\ i = Len(s) + (i - Len(s)))
  BY <1>2
<1>6. ASSUME NEW i \in 1..Len(s) + n, NEW k \in 1..Len(s) + n, t[i].provisional = t[k].provisional
      PROVE  i = k
  <2>1. CASE i \in 1..Len(s) /\ k \in 1..Len(s)
    BY <1>2, <1>3, <1>6, <2>1 DEF Distinct
  <2>2. CASE i \in 1..Len(s) /\ k - Len(s) \in 1..n
    <3>1. t[i] \in Range(s) /\ t[k] = f[k - Len(s)]
      BY <1>3, <1>4, <1>5, <2>2
    <3> QED BY <1>6, <2>2, <3>1
  <2>3. CASE i - Len(s) \in 1..n /\ k \in 1..Len(s)
    <3>1. t[k] \in Range(s) /\ t[i] = f[i - Len(s)]
      BY <1>3, <1>4, <1>5, <2>3
    <3> QED BY <1>6, <2>3, <3>1
  <2>4. CASE i - Len(s) \in 1..n /\ k - Len(s) \in 1..n
    <3>1. t[i] = f[i - Len(s)] /\ t[k] = f[k - Len(s)]
      BY <1>4, <1>5, <2>4
    <3>2. i - Len(s) = k - Len(s)
      BY <1>6, <2>4, <3>1
    <3> QED BY <1>2, <3>2
  <2> QED BY <1>5, <2>1, <2>2, <2>3, <2>4
<1>7. Distinct(t)
  BY <1>2, <1>6 DEF Distinct
<1>8. ASSUME NEW x
      PROVE  x \in Range(t) <=> x \in Range(s) \/ \E i \in 1..n : x = f[i]
  <2>1. x \in Range(t) <=> \E i \in 1..Len(s) + n : x = t[i]
    BY <1>2 DEF Range
  <2>2. x \in Range(s) <=> \E i \in 1..Len(s) : x = s[i]
    BY <1>2 DEF Range
  <2>3. \A i \in 1..Len(s) + n : i \in 1..Len(s) \/ (i - Len(s) \in 1..n /\ t[i] = f[i - Len(s)])
    <3> TAKE i \in 1..Len(s) + n
    <3>1. CASE i - Len(s) \in 1..n
      BY <1>4, <1>5, <3>1
    <3> QED BY <1>5, <3>1
  <2>4. ASSUME x \in Range(t)
        PROVE  x \in Range(s) \/ \E i \in 1..n : x = f[i]
    <3>1. PICK i \in 1..Len(s) + n : x = t[i]
      BY <2>1, <2>4
    <3>2. CASE i \in 1..Len(s)
      BY <1>3, <2>2, <3>1, <3>2
    <3>3. CASE i - Len(s) \in 1..n /\ t[i] = f[i - Len(s)]
      BY <3>1, <3>3
    <3> QED BY <2>3, <3>2, <3>3
  <2>5. x \in Range(s) => x \in Range(t)
    BY <1>3, <2>1, <2>2
  <2>6. (\E i \in 1..n : x = f[i]) => x \in Range(t)
    BY <1>4, <2>1
  <2> QED BY <2>4, <2>5, <2>6
<1> QED BY <1>7, <1>8 DEF t

-----------------------------------------------------------------------------
(* Text.  X is a set of records with an id and a text.                     *)

\* Every run of text but the lost ones is in one record, once.
KeptOnce(X, lost, n) ==
    /\ \A x \in X : \A j \in DOMAIN x.text : x.text[j] \in 1..n /\ x.text[j] \notin lost
    /\ \A x, y \in X : \A j \in DOMAIN x.text, k \in DOMAIN y.text :
          x.text[j] = y.text[k] => x.provisional = y.provisional /\ j = k
    /\ \A t \in 1..n : t \notin lost => \E x \in X : \E j \in DOMAIN x.text : x.text[j] = t

\* Outside the records of these ids, Y has the text of X.
HasTextOf(Y, X, ids) ==
    \A x \in X : \/ x.provisional \in ids \/ x.text = <<>>
                 \/ \E y \in Y : y.provisional = x.provisional /\ y.text = x.text

SameTexts(X, Y, ids) == HasTextOf(Y, X, ids) /\ HasTextOf(X, Y, ids)

\* The text of a record: none, where there is no such record.
Reads(X, id, text) ==
    /\ \A x \in X : x.provisional = id => x.text = text
    /\ text = <<>> \/ \E x \in X : x.provisional = id

\* Records of the same texts keep the same texts.
LEMMA KeptInTheSame ==
  ASSUME NEW X, NEW Y, NEW lost, NEW n, KeptOnce(X, lost, n), SameTexts(X, Y, {})
  PROVE  KeptOnce(Y, lost, n)
<1>1. \A y \in Y : \A j \in DOMAIN y.text : \E x \in X : x.provisional = y.provisional /\ x.text = y.text
  BY DEF SameTexts, HasTextOf
<1>2. \A x \in X : \A j \in DOMAIN x.text : \E y \in Y : x.provisional = y.provisional /\ x.text = y.text
  BY DEF SameTexts, HasTextOf
<1>3. \A y \in Y : \A j \in DOMAIN y.text : y.text[j] \in 1..n /\ y.text[j] \notin lost
  BY <1>1 DEF KeptOnce
<1>4. ASSUME NEW x \in Y, NEW y \in Y, NEW j \in DOMAIN x.text, NEW k \in DOMAIN y.text,
             x.text[j] = y.text[k]
      PROVE  x.provisional = y.provisional /\ j = k
  <2>1. PICK v \in X : v.provisional = x.provisional /\ v.text = x.text
    BY <1>1
  <2>2. PICK w \in X : w.provisional = y.provisional /\ w.text = y.text
    BY <1>1
  <2> QED BY <1>4, <2>1, <2>2 DEF KeptOnce
<1>5. ASSUME NEW t \in 1..n, t \notin lost
      PROVE  \E y \in Y : \E j \in DOMAIN y.text : y.text[j] = t
  <2>1. PICK x \in X : \E j \in DOMAIN x.text : x.text[j] = t
    BY <1>5 DEF KeptOnce
  <2> QED BY <1>2, <2>1
<1> QED BY <1>3, <1>4, <1>5 DEF KeptOnce

\* A new run of text at the end of that of one record.
LEMMA KeptAsGiven ==
  ASSUME NEW X, NEW Y, NEW lost, NEW n \in Nat, KeptOnce(X, lost, n), \A t \in lost : t <= n,
         NEW id, SameTexts(X, Y, {id}),
         NEW text, text \in Seq(Nat), Reads(X, id, text), Reads(Y, id, Append(text, n + 1))
  PROVE  KeptOnce(Y, lost, n + 1)
<1> DEFINE more == Append(text, n + 1)
           m == Len(text)
<1>1. /\ m \in Nat /\ DOMAIN text = 1..m /\ DOMAIN more = 1..m + 1 /\ more[m + 1] = n + 1
      /\ m + 1 \in DOMAIN more
      /\ \A j \in DOMAIN text : j \in DOMAIN more /\ more[j] = text[j] /\ j # m + 1
      /\ \A j \in DOMAIN more : j = m + 1 \/ j \in DOMAIN text
  OBVIOUS
<1>2. more # <<>>
  BY <1>1
<1> HIDE DEF more, m
<1>3. PICK w \in Y : w.provisional = id /\ w.text = more
  BY <1>2 DEF Reads, more
<1>4. n + 1 \notin lost
  OBVIOUS
<1>5. \A j \in DOMAIN text : /\ text[j] \in 1..n /\ text[j] \notin lost
                             /\ \E x \in X : x.provisional = id /\ x.text = text
  BY DEF KeptOnce, Reads
<1>6. \A y \in Y : \/ y.provisional = id /\ y.text = more
                   \/ y.text = <<>>
                   \/ y.provisional # id /\ \E x \in X : x.provisional = y.provisional /\ x.text = y.text
  BY DEF SameTexts, HasTextOf, Reads, more
<1>7. ASSUME NEW y \in Y, NEW j \in DOMAIN y.text
      PROVE  /\ y.text[j] \in 1..n + 1 /\ y.text[j] \notin lost
             /\ \/ y.text[j] = n + 1 /\ y.provisional = id /\ j = m + 1
                \/ y.text[j] \in 1..n /\ \E x \in X : x.provisional = y.provisional
                                             /\ j \in DOMAIN x.text /\ x.text[j] = y.text[j]
  <2>1. CASE y.provisional = id /\ y.text = more
    BY <1>1, <1>4, <1>5, <2>1, SMTT(30)
  <2>2. CASE \E x \in X : x.provisional = y.provisional /\ x.text = y.text
    BY <2>2 DEF KeptOnce
  <2> QED BY <1>6, <2>1, <2>2
<1>8. ASSUME NEW x \in Y, NEW y \in Y, NEW j \in DOMAIN x.text, NEW k \in DOMAIN y.text,
             x.text[j] = y.text[k]
      PROVE  x.provisional = y.provisional /\ j = k
  <2>1. CASE x.text[j] = n + 1
    <3>1. n + 1 \notin 1..n
      OBVIOUS
    <3>2. x.provisional = id /\ j = m + 1
      BY <1>7, <2>1, <3>1
    <3>3. y.text[k] = n + 1
      BY <1>8, <2>1
    <3>4. y.provisional = id /\ k = m + 1
      BY <1>7, <3>1, <3>3
    <3> QED BY <3>2, <3>4
  <2>2. CASE x.text[j] # n + 1
    <3>1. PICK v \in X : v.provisional = x.provisional /\ j \in DOMAIN v.text /\ v.text[j] = x.text[j]
      BY <1>7, <2>2
    <3>2. PICK u \in X : u.provisional = y.provisional /\ k \in DOMAIN u.text /\ u.text[k] = y.text[k]
      BY <1>7, <1>8, <2>2
    <3> QED BY <1>8, <3>1, <3>2 DEF KeptOnce
  <2> QED BY <2>1, <2>2
<1>9. ASSUME NEW t \in 1..n + 1, t \notin lost
      PROVE  \E y \in Y : \E j \in DOMAIN y.text : y.text[j] = t
  <2>1. CASE t = n + 1
    BY <1>1, <1>3, <2>1
  <2>2. CASE t # n + 1
    <3>1. PICK x \in X : \E j \in DOMAIN x.text : x.text[j] = t
      BY <1>9, <2>2 DEF KeptOnce
    <3>2. CASE x.provisional = id
      BY <1>1, <1>3, <3>1, <3>2 DEF Reads
    <3>3. CASE x.provisional # id
      BY <3>1, <3>3 DEF SameTexts, HasTextOf
    <3> QED BY <3>2, <3>3
  <2> QED BY <2>1, <2>2
<1> QED BY <1>7, <1>8, <1>9 DEF KeptOnce

\* The text of one record goes to the end of that of another.
LEMMA KeptAsJoined ==
  ASSUME NEW X, NEW Y, NEW lost, NEW n, KeptOnce(X, lost, n),
         NEW to, NEW from, to # from, SameTexts(X, Y, {to, from}),
         NEW a, a \in Seq(Nat), Reads(X, to, a), NEW b, b \in Seq(Nat), Reads(X, from, b),
         Reads(Y, to, a \o b), Reads(Y, from, <<>>)
  PROVE  KeptOnce(Y, lost, n)
<1> DEFINE both == a \o b
           m == Len(a)
<1>1. /\ m \in Nat /\ DOMAIN a = 1..m /\ DOMAIN b = 1..Len(b) /\ Len(b) \in Nat
      /\ DOMAIN both = 1..m + Len(b)
      /\ \A j \in 1..m + Len(b) : both[j] = IF j <= m THEN a[j] ELSE b[j - m]
  <2>1. both \in Seq(Nat) /\ Len(both) = m + Len(b)
        /\ \A j \in 1..m + Len(b) : both[j] = IF j <= m THEN a[j] ELSE b[j - m]
    BY ConcatProperties
  <2> HIDE DEF both
  <2> QED BY <2>1, LenProperties
<1> HIDE DEF both
<1>2. \A j \in DOMAIN a : j \in DOMAIN both /\ both[j] = a[j]
  BY <1>1
<1>3. \A j \in DOMAIN b : m + j \in DOMAIN both /\ both[m + j] = b[j]
  <2> TAKE j \in DOMAIN b
  <2>1. m + j \in DOMAIN both /\ ~(m + j <= m) /\ (m + j) - m = j
    BY <1>1
  <2> QED BY <1>1, <2>1
<1>4. \A j \in DOMAIN both : (j \in DOMAIN a /\ both[j] = a[j])
                             \/ (j - m \in DOMAIN b /\ both[j] = b[j - m])
  BY <1>1
<1>5. \A j \in DOMAIN a : \E x \in X : x.provisional = to /\ x.text = a
  BY DEF Reads
<1>6. \A j \in DOMAIN b : \E x \in X : x.provisional = from /\ x.text = b
  BY DEF Reads
<1>7. \A j \in DOMAIN both : \E y \in Y : y.provisional = to /\ y.text = both
  BY DEF Reads, both
<1> HIDE DEF m
<1>8. ASSUME NEW y \in Y, NEW j \in DOMAIN y.text
      PROVE  \/ y.provisional \notin {to, from} /\ \E x \in X : x.provisional = y.provisional
                                             /\ j \in DOMAIN x.text /\ x.text[j] = y.text[j]
             \/ y.provisional = to /\ \E x \in X : x.provisional = to
                                             /\ j \in DOMAIN x.text /\ x.text[j] = y.text[j]
             \/ y.provisional = to /\ \E x \in X : x.provisional = from
                                             /\ j - m \in DOMAIN x.text /\ x.text[j - m] = y.text[j]
  <2>1. CASE y.provisional = to
    <3>1. y.text = both
      BY <2>1 DEF Reads, both
    <3> QED BY <1>4, <1>5, <1>6, <2>1, <3>1
  <2>2. CASE y.provisional = from
    BY <2>2 DEF Reads
  <2>3. CASE y.provisional \notin {to, from}
    BY <2>3 DEF SameTexts, HasTextOf
  <2> QED BY <2>1, <2>2, <2>3
<1>9. \A y \in Y : \A j \in DOMAIN y.text : y.text[j] \in 1..n /\ y.text[j] \notin lost
  BY <1>8 DEF KeptOnce
<1>10. ASSUME NEW x \in Y, NEW y \in Y, NEW j \in DOMAIN x.text, NEW k \in DOMAIN y.text,
              x.text[j] = y.text[k]
       PROVE  x.provisional = y.provisional /\ j = k
  <2>1. \A v, u \in X : \A i \in DOMAIN v.text, l \in DOMAIN u.text :
            v.text[i] = u.text[l] => v.provisional = u.provisional /\ i = l
    BY DEF KeptOnce
  <2>2. \A i \in DOMAIN y.text : y.provisional = to => i \in Int
    BY <1>1 DEF Reads, both
  <2>3. \A i \in DOMAIN x.text : x.provisional = to => i \in Int
    BY <1>1 DEF Reads, both
  <2>4. CASE \E v \in X : v.provisional = x.provisional /\ j \in DOMAIN v.text /\ v.text[j] = x.text[j]
    BY <1>8, <1>10, <2>1, <2>4, SMTT(30)
  <2>5. CASE x.provisional = to /\ \E v \in X : v.provisional = from
                                             /\ j - m \in DOMAIN v.text /\ v.text[j - m] = x.text[j]
    <3>1. PICK v \in X : v.provisional = from /\ j - m \in DOMAIN v.text /\ v.text[j - m] = x.text[j]
      BY <2>5
    <3>2. ~\E u \in X : /\ u.provisional # from
                        /\ k \in DOMAIN u.text /\ u.text[k] = y.text[k]
      BY <1>10, <2>1, <3>1
    <3>3. y.provisional = to /\ \E u \in X : u.provisional = from
                                  /\ k - m \in DOMAIN u.text /\ u.text[k - m] = y.text[k]
      BY <1>8, <3>2
    <3>4. j - m = k - m
      BY <1>10, <2>1, <3>1, <3>3
    <3>5. j \in Int /\ k \in Int /\ m \in Int
      BY <1>1, <2>2, <2>3, <2>5, <3>3
    <3>6. j = k
      BY <3>4, <3>5
    <3> QED BY <2>5, <3>3, <3>6
  <2> QED BY <1>8, <2>4, <2>5
<1>11. ASSUME NEW t \in 1..n, t \notin lost
       PROVE  \E y \in Y : \E j \in DOMAIN y.text : y.text[j] = t
  <2>1. PICK x \in X : \E j \in DOMAIN x.text : x.text[j] = t
    BY <1>11 DEF KeptOnce
  <2>2. CASE x.provisional = to
    BY <1>2, <1>7, <2>1, <2>2, SMTT(30) DEF Reads
  <2>3. CASE x.provisional = from
    BY <1>3, <1>7, <2>1, <2>3 DEF Reads
  <2>4. CASE x.provisional \notin {to, from}
    BY <2>1, <2>4 DEF SameTexts, HasTextOf
  <2> QED BY <2>2, <2>3, <2>4
<1> QED BY <1>9, <1>10, <1>11 DEF KeptOnce

\* A run of text that is lost.
LEMMA KeptButOne ==
  ASSUME NEW X, NEW lost, NEW n \in Nat, KeptOnce(X, lost, n),
         NEW missing, \A t \in 1..n + 1 : t \in missing <=> t \in lost \/ t = n + 1
  PROVE  KeptOnce(X, missing, n + 1)
<1>1. \A x \in X : \A j \in DOMAIN x.text : x.text[j] \in 1..n + 1 /\ x.text[j] \notin missing
  BY DEF KeptOnce
<1>2. \A t \in 1..n + 1 : t \notin missing => \E x \in X : \E j \in DOMAIN x.text : x.text[j] = t
  BY DEF KeptOnce
<1> QED BY <1>1, <1>2 DEF KeptOnce

\* Of the m runs of text after the n-th those not kept are lost.
LostBesides(missing, lost, kept, n, m) ==
    \A t \in 1..n + m : t \in missing <=> t \in lost \/ \E j \in 1..m : j \notin kept /\ t = n + j

\* A new record of those that are kept.
LEMMA KeptInANew ==
  ASSUME NEW X, NEW lost, NEW n \in Nat, KeptOnce(X, lost, n), \A t \in lost : t <= n,
         NEW m \in Nat, NEW node, NEW kept \in SUBSET (1..m), \A x \in X : x.provisional # node.provisional,
         DOMAIN node.text = kept, \A j \in kept : node.text[j] = n + j,
         NEW missing, LostBesides(missing, lost, kept, n, m)
  PROVE  KeptOnce(X \cup {node}, missing, n + m)
<1> DEFINE Y == X \cup {node}
<1> USE DEF LostBesides
<1>1. \A x \in X : x \in Y
  OBVIOUS
<1>2. node \in Y
  OBVIOUS
<1>3. \A t \in 1..n : t \in 1..n + m /\ (t \in missing <=> t \in lost)
  OBVIOUS
<1>4. ASSUME NEW j \in 1..m
      PROVE  n + j \in 1..n + m /\ n + j \notin 1..n /\ (n + j \in missing <=> j \notin kept)
  <2>1. n + j \in 1..n + m /\ n + j \notin 1..n /\ n + j \notin lost
    OBVIOUS
  <2>2. \A k \in 1..m : n + j = n + k => j = k
    OBVIOUS
  <2> QED BY <2>1, <2>2
<1>5. ASSUME NEW y \in Y, NEW j \in DOMAIN y.text
      PROVE  y.text[j] \in 1..n + m /\ y.text[j] \notin missing
  <2>1. CASE y \in X
    BY <1>3, <2>1 DEF KeptOnce
  <2>2. CASE y = node
    BY <1>4, <2>2
  <2> QED BY <2>1, <2>2
<1>6. ASSUME NEW x \in Y, NEW y \in Y, NEW j \in DOMAIN x.text, NEW k \in DOMAIN y.text,
             x.text[j] = y.text[k]
      PROVE  x.provisional = y.provisional /\ j = k
  <2>1. \A v \in X : \A i \in DOMAIN v.text : v.text[i] \in 1..n
    BY DEF KeptOnce
  <2>2. \A i \in DOMAIN node.text : i \in 1..m /\ node.text[i] = n + i /\ n + i \notin 1..n
    BY <1>4
  <2>3. CASE x \in X /\ y \in X
    BY <1>6, <2>3 DEF KeptOnce
  <2>4. CASE x = node /\ y = node
    <3>1. n + j = n + k /\ j \in 1..m /\ k \in 1..m
      BY <1>6, <2>2, <2>4
    <3> QED BY <2>4, <3>1
  <2> QED BY <1>6, <2>1, <2>2, <2>3, <2>4
<1>7. ASSUME NEW t \in 1..n + m, t \notin missing
      PROVE  \E y \in Y : \E j \in DOMAIN y.text : y.text[j] = t
  <2>1. CASE t \in 1..n
    <3>1. PICK x \in X : \E j \in DOMAIN x.text : x.text[j] = t
      BY <1>3, <1>7, <2>1 DEF KeptOnce
    <3> QED BY <1>1, <3>1
  <2>2. CASE t \notin 1..n
    <3>1. t - n \in 1..m /\ t = n + (t - n)
      BY <2>2
    <3>2. t - n \in kept
      BY <1>4, <1>7, <3>1
    <3> QED BY <1>2, <3>1, <3>2
  <2> QED BY <2>1, <2>2
<1> QED BY <1>5, <1>6, <1>7 DEF KeptOnce

-----------------------------------------------------------------------------
(* Counting the places of a run of text.                                   *)

\* A place is a node and a position of its text.
LEMMA PlacesInNodes ==
  ASSUME NEW t, NEW s, NEW p
  PROVE  p \in PlacesOf(t, s) <=>
            \E i \in DOMAIN s : \E j \in DOMAIN s[i].text : p = <<i, j>> /\ s[i].text[j] = t
<1>1. p \in UNION {{i} \X DOMAIN s[i].text : i \in DOMAIN s}
        <=> \E i \in DOMAIN s : \E j \in DOMAIN s[i].text : p = <<i, j>>
  OBVIOUS
<1> QED BY <1>1 DEF PlacesOf

\* A run of text that no node has.
LEMMA TimesOfNone ==
  ASSUME NEW t, NEW s, \A i \in DOMAIN s : \A j \in DOMAIN s[i].text : s[i].text[j] # t
  PROVE  TimesIn(t, s) = 0
<1>1. PlacesOf(t, s) = {}
  BY PlacesInNodes
<1> QED BY <1>1, FS_EmptySet DEF TimesIn

\* A run of text that one node has in one place.
LEMMA TimesOfOne ==
  ASSUME NEW t, NEW s, NEW i \in DOMAIN s, NEW j \in DOMAIN s[i].text, s[i].text[j] = t,
         \A k \in DOMAIN s : \A l \in DOMAIN s[k].text : s[k].text[l] = t => k = i /\ l = j
  PROVE  TimesIn(t, s) = 1
<1>1. \A p : p \in PlacesOf(t, s) <=> p = <<i, j>>
  BY PlacesInNodes
<1>2. PlacesOf(t, s) = {<<i, j>>}
  BY <1>1
<1> QED BY <1>2, FS_Singleton DEF TimesIn

\* A sequence of some of the records.
LEMMA TimesInPart ==
  ASSUME NEW X, NEW lost, NEW n, KeptOnce(X, lost, n),
         NEW s, Distinct(s), Range(s) \subseteq X, NEW t
  PROVE  TimesIn(t, s) = IF \E x \in Range(s) : \E j \in DOMAIN x.text : x.text[j] = t THEN 1 ELSE 0
<1>0. \A i \in DOMAIN s : s[i] \in Range(s)
  BY DEF Range
<1>1. CASE \E x \in Range(s) : \E j \in DOMAIN x.text : x.text[j] = t
  <2>1. PICK i \in DOMAIN s : \E j \in DOMAIN s[i].text : s[i].text[j] = t
    BY <1>1 DEF Range
  <2>2. PICK j \in DOMAIN s[i].text : s[i].text[j] = t
    BY <2>1
  <2>3. \A k \in DOMAIN s : \A l \in DOMAIN s[k].text : s[k].text[l] = t => k = i /\ l = j
    BY <1>0, <2>2 DEF KeptOnce, Distinct
  <2>4. TimesIn(t, s) = 1
    BY <2>2, <2>3, TimesOfOne
  <2> QED BY <1>1, <2>4
<1>2. CASE ~\E x \in Range(s) : \E j \in DOMAIN x.text : x.text[j] = t
  <2>1. TimesIn(t, s) = 0
    BY <1>0, <1>2, TimesOfNone
  <2> QED BY <1>2, <2>1
<1> QED BY <1>1, <1>2

\* Two sequences, and a third record.
LEMMA TimesInAll ==
  ASSUME NEW a, Distinct(a), NEW b, Distinct(b), NEW buffer,
         \A x \in Range(a), y \in Range(b) : x.provisional # y.provisional,
         \A x \in Range(a) \cup Range(b) : x.provisional # 0,
         NEW X, \A x : x \in X <=> \/ x \in Range(a) \/ x \in Range(b)
                                   \/ x = [provisional |-> 0, text |-> buffer],
         NEW lost, NEW n, KeptOnce(X, lost, n), NEW t \in 1..n
  PROVE  TimesIn(t, a) + TimesIn(t, b) + TimesIn(t, <<[text |-> buffer]>>)
            = IF t \in lost THEN 0 ELSE 1
<1> DEFINE within(Y) == \E x \in Y : \E j \in DOMAIN x.text : x.text[j] = t
           third == <<[text |-> buffer]>>
           inBuffer == \E j \in DOMAIN buffer : buffer[j] = t
           last == [provisional |-> 0, text |-> buffer]
<1>1. TimesIn(t, a) = IF within(Range(a)) THEN 1 ELSE 0
  BY TimesInPart
<1>2. TimesIn(t, b) = IF within(Range(b)) THEN 1 ELSE 0
  BY TimesInPart
<1>3. DOMAIN third = {1} /\ third[1].text = buffer
  OBVIOUS
<1>4. last \in X /\ last.text = buffer /\ last.provisional = 0
  OBVIOUS
<1> HIDE DEF third, last
<1>5. TimesIn(t, third) = IF inBuffer THEN 1 ELSE 0
  <2>1. CASE inBuffer
    <3>1. PICK j \in DOMAIN buffer : buffer[j] = t
      BY <2>1
    <3>2. \A k \in DOMAIN third : \A l \in DOMAIN third[k].text : third[k].text[l] = t => k = 1 /\ l = j
      BY <1>3, <1>4, <3>1 DEF KeptOnce
    <3>3. TimesIn(t, third) = 1
      BY <1>3, <3>1, <3>2, TimesOfOne
    <3> QED BY <2>1, <3>3
  <2>2. CASE ~inBuffer
    <3>1. TimesIn(t, third) = 0
      BY <1>3, <2>2, TimesOfNone
    <3> QED BY <2>2, <3>1
  <2> QED BY <2>1, <2>2
<1>6. ~(within(Range(a)) /\ within(Range(b)))
  BY DEF KeptOnce
<1>7. ~(inBuffer /\ (within(Range(a)) \/ within(Range(b))))
  BY <1>4 DEF KeptOnce
<1>8. t \in lost => ~within(Range(a)) /\ ~within(Range(b)) /\ ~inBuffer
  BY <1>4 DEF KeptOnce
<1>9. t \notin lost => within(Range(a)) \/ within(Range(b)) \/ inBuffer
  <2>1. SUFFICES ASSUME t \notin lost PROVE within(Range(a)) \/ within(Range(b)) \/ inBuffer
    OBVIOUS
  <2>2. PICK x \in X : \E j \in DOMAIN x.text : x.text[j] = t
    BY <2>1 DEF KeptOnce
  <2>3. x \in Range(a) \/ x \in Range(b) \/ x = last
    BY DEF last
  <2> QED BY <1>4, <2>2, <2>3
<1> HIDE DEF within, inBuffer
<1>10. TimesIn(t, a) + TimesIn(t, b) + TimesIn(t, third) = IF t \in lost THEN 0 ELSE 1
  BY <1>1, <1>2, <1>5, <1>6, <1>7, <1>8, <1>9
<1> QED BY <1>10 DEF third

-----------------------------------------------------------------------------
(* Open sections.                                                          *)

SiteOf(node) == Place(node.provisional, node.parent, node.kind, node.ordinal)

Sites(X) == {SiteOf(x) : x \in X}

\* Of every open section the node is there.
OpenSections(s, C) ==
    /\ s \in Seq(Range(s))
    /\ \A x \in Range(s) : \E c \in C : c.provisional = x.provisional /\ c.kind = "section"

\* The places of a set of records.
LEMMA SitesOf ==
  ASSUME NEW X, NEW a
  PROVE  /\ a \in Sites(X) <=> \E x \in X : a = SiteOf(x)
         /\ \A x : /\ SiteOf(x).id = x.provisional /\ SiteOf(x).parent = x.parent
                   /\ SiteOf(x).kind = x.kind /\ SiteOf(x).ordinal = x.ordinal
BY DEF Sites, SiteOf, Place

\* Before the first heading no section is open.
LEMMA NoSectionsOpen == \A C : OpenSections(<<>>, C)
BY EmptySeq, EmptyIsDistinct DEF OpenSections, Distinct

\* An open section stays one when nodes are added or given text.
LEMMA SectionsStayOpen ==
  ASSUME NEW s, NEW C, NEW D, OpenSections(s, C),
         \A c \in C : \E d \in D : d.provisional = c.provisional /\ d.kind = c.kind
  PROVE  OpenSections(s, D)
<1>1. \A x \in Range(s) : \E d \in D : d.provisional = x.provisional /\ d.kind = "section"
  BY DEF OpenSections
<1> QED BY <1>1 DEF OpenSections

\* A section opens when its node is there.
LEMMA SectionOpened ==
  ASSUME NEW s, NEW C, OpenSections(s, C), NEW e, NEW c \in C,
         c.provisional = e.provisional, c.kind = "section"
  PROVE  OpenSections(Append(s, e), C)
<1>1. /\ Append(s, e) \in Seq(Range(Append(s, e)))
      /\ Range(Append(s, e)) = Range(s) \cup {e}
  BY AppendList DEF OpenSections
<1> QED BY <1>1 DEF OpenSections

\* A heading closes sections and opens none: those of a lower level remain.
LEMMA SectionsAboveAreOpen ==
  ASSUME NEW C, OpenSections(sections, C), NEW level
  PROVE  OpenSections(SectionsAbove(level), C) /\ Range(SectionsAbove(level)) \subseteq Range(sections)
<1> DEFINE open == {i \in DOMAIN sections : sections[i].level < level}
           n == CHOOSE n \in open \cup {0} : \A i \in open : i <= n
           t == SubSeq(sections, 1, n)
<1>1. /\ Len(sections) \in Nat /\ DOMAIN sections = 1..Len(sections)
      /\ \A i \in DOMAIN sections : sections[i] \in Range(sections)
  BY ListsHaveLength DEF OpenSections
<1>2. open \cup {0} \in SUBSET (0..Len(sections)) /\ open \cup {0} # {}
  BY <1>1
<1>3. \E x \in open \cup {0} : \A y \in open \cup {0} : y <= x
  <2> DEFINE S == open \cup {0}
  <2>1. S \in SUBSET (0..Len(sections)) /\ S # {}
    BY <1>2
  <2> HIDE DEF S
  <2>2. \E x \in S : \A y \in S : y <= x
    BY <1>1, <2>1, GreatestIndex
  <2> QED BY <2>2 DEF S
<1> HIDE DEF open
<1>4. n \in open \cup {0}
  BY <1>3
<1> HIDE DEF n
<1>5. n \in 0..Len(sections)
  BY <1>2, <1>4
<1>6. \A i \in 1..n : sections[i] \in Range(sections)
  BY <1>1, <1>5
<1>7. /\ t \in Seq(Range(sections)) /\ Len(t) = n
      /\ \A i \in 1..n : t[i] = sections[i]
  BY <1>1, <1>5, <1>6, SubSeqProperties
<1> HIDE DEF t
<1>8. t \in [1..n -> Range(sections)]
  BY <1>7, LenProperties
<1>9. \A i \in 1..n : t[i] \in Range(t)
  BY <1>8 DEF Range
<1>10. t \in Seq(Range(t)) /\ Range(t) \subseteq Range(sections)
  <2>1. t \in [1..n -> Range(t)] /\ n \in Nat
    BY <1>5, <1>8, <1>9
  <2>2. t \in Seq(Range(t))
    BY <2>1, SeqDef
  <2>3. Range(t) \subseteq Range(sections)
    BY <1>8 DEF Range
  <2> QED BY <2>2, <2>3
<1>11. OpenSections(t, C)
  BY <1>10 DEF OpenSections
<1> QED BY <1>10, <1>11 DEF t, n, open, SectionsAbove

\* The innermost open section may have any child.
LEMMA SectionMayBear ==
  ASSUME NEW s, NEW C, OpenSections(s, C), NEW n \in Nat, \A c \in C : c.provisional \in 1..n,
         NEW R, \A c \in C : SiteOf(c) \in R, NEW kind
  PROVE  /\ MayBear(R, ParentAfter(s), kind) /\ ParentAfter(s) \in 0..n
         /\ s = <<>> \/ \E x \in Range(s) : ParentAfter(s) = x.provisional
<1>1. CASE s = <<>>
  BY <1>1 DEF ParentAfter, MayBear, DocumentRoot
<1>2. CASE s # <<>>
  <2>1. Last(s) \in Range(s)
    BY <1>2, FrontList DEF OpenSections
  <2>2. PICK c \in C : c.provisional = Last(s).provisional /\ c.kind = "section"
    BY <2>1 DEF OpenSections
  <2>3. SiteOf(c) \in R /\ SiteOf(c).id = c.provisional /\ SiteOf(c).kind = "section"
    BY <2>2, SitesOf
  <2>4. ParentAfter(s) = c.provisional /\ c.provisional \in 1..n
    BY <1>2, <2>2 DEF ParentAfter
  <2> QED BY <2>1, <2>2, <2>3, <2>4 DEF MayBear, SourceGraph!MayParent, ParentAfter
<1> QED BY <1>1, <1>2

\* One node more.
LEMMA SiteAdded ==
  ASSUME NEW R, NEW counts, Planted(R, counts), NEW n \in Nat, \A a \in R : a.id \in 0..n,
         NEW e, e.provisional = n + 1, e.parent \in 0..n, MayBear(R, e.parent, e.kind),
         e.ordinal = OrdinalIn(counts, e.parent),
         NEW V, \A a : a \in V <=> a \in R \/ a = SiteOf(e)
  PROVE  Planted(V, CountedIn(counts, e.parent))
<1> DEFINE p == e.parent
           id == n + 1
           kind == e.kind
           ordinal == e.ordinal
<1>1. id \in Nat /\ p \in Nat /\ p < id /\ \A a \in R : a.id # id
  OBVIOUS
<1>2. \A a : a \in V <=> a \in R \/ a = Place(id, p, kind, OrdinalIn(counts, p))
  BY DEF SiteOf
<1> HIDE DEF p, id, kind
<1>3. MayBear(R, p, kind)
  BY DEF p, kind
<1>4. Planted(V, CountedIn(counts, p))
  BY <1>1, <1>2, <1>3, PlantOne
<1> QED BY <1>4 DEF p

-----------------------------------------------------------------------------
(* PDF.                                                                    *)

LostIn(n) == {t \in 1..n : <<"dropped", t>> \in diagnostics}

PdfInv ==
    /\ Distinct(candidates)
    /\ nextProvisional \in Nat /\ texts \in Nat
    /\ \A c \in Range(candidates) : c.provisional \in 1..nextProvisional
    /\ Planted(Sites(Range(candidates)), ordinals)
    /\ OpenSections(sections, Range(candidates))
    /\ page \in Seq(Layouts)
    /\ \A t : <<"dropped", t>> \in diagnostics => t \in 1..texts
    /\ KeptOnce(Range(candidates), LostIn(texts), texts)

\* A tree without nodes, with all ordinals still to be given.
LEMMA NothingIsPlanted == ASSUME NEW counts, counts = [p \in {} |-> 0] PROVE Planted({}, counts)
BY DEF Planted, OrdinalIn

\* No runs of text and no records.
LEMMA NothingIsKept == KeptOnce({}, {}, 0)
BY DEF KeptOnce

\* A PDF begins without blocks or nodes.
LEMMA PdfInvInit == AdapterInit /\ PdfIdle => PdfInv
<1> SUFFICES ASSUME AdapterInit, PdfIdle PROVE PdfInv
  OBVIOUS
<1>1. candidates = <<>> /\ Distinct(candidates) /\ Range(candidates) = {} /\ sections = <<>>
  BY EmptyIsDistinct DEF AdapterInit
<1>2. Sites({}) = {}
  BY DEF Sites
<1>3. Planted({}, ordinals)
  BY NothingIsPlanted DEF AdapterInit
<1>4. LostIn(0) = {} /\ texts = 0
  BY DEF LostIn, AdapterInit
<1>5. nextProvisional = 0 /\ diagnostics = {} /\ page = <<>>
  BY DEF AdapterInit, PdfIdle
<1>6. page \in Seq(Layouts)
  BY <1>5
<1> QED BY <1>1, <1>2, <1>3, <1>4, <1>5, <1>6, NothingIsKept, NoSectionsOpen DEF PdfInv

\* The next block of the page is taken, and reports name only lines of its own.
LEMMA TakenBlock ==
  ASSUME PdfInv, NEW block, NEW lost, Take(block, lost),
         \A t : <<"dropped", t>> \notin lost
  PROVE  /\ block \in Layouts /\ page' \in Seq(Layouts)
         /\ Len(block.lines) \in Nat /\ DOMAIN block.lines = 1..Len(block.lines)
         /\ texts' = texts + Len(block.lines)
         /\ \A t : <<"dropped", t>> \in diagnostics' <=>
                \/ <<"dropped", t>> \in diagnostics
                \/ \E j \in Excluded(block) : t = texts + j
<1>1. PICK i \in DOMAIN page :
        /\ page[i] = block
        /\ page' = [j \in 1..Len(page) - 1 |-> IF j < i THEN page[j] ELSE page[j + 1]]
        /\ texts' = texts + Len(block.lines)
        /\ diagnostics' = diagnostics \cup lost
                            \cup {<<"dropped", TextNumber(j)>> : j \in Excluded(block)}
  BY DEF Take
<1>2. page \in Seq(Layouts) /\ Len(page) \in Nat /\ DOMAIN page = 1..Len(page)
      /\ \A j \in 1..Len(page) : page[j] \in Layouts
  BY LenProperties, ElementOfSeq DEF PdfInv
<1>3. block \in Layouts
  BY <1>1, <1>2
<1>4. page' \in Seq(Layouts)
  <2>1. Len(page) - 1 \in Nat
    BY <1>1, <1>2
  <2>2. \A j \in 1..Len(page) - 1 : page'[j] \in Layouts
    <3> TAKE j \in 1..Len(page) - 1
    <3>1. j \in 1..Len(page) /\ j + 1 \in 1..Len(page)
      BY <1>2
    <3> QED BY <1>1, <1>2, <3>1
  <2>3. page' \in [1..Len(page) - 1 -> Layouts]
    BY <1>1, <2>2
  <2> QED BY <2>1, <2>3, SeqDef
<1>5. \A t : <<"dropped", t>> \in diagnostics' <=>
                \/ <<"dropped", t>> \in diagnostics
                \/ \E j \in Excluded(block) : t = texts + j
  BY <1>1 DEF TextNumber
<1> QED BY <1>1, <1>3, <1>4, <1>5, LinesAreSequences

\* A line of a block is retained or excluded.
LEMMA RetainedLines ==
  ASSUME NEW block
  PROVE  /\ Retained(block) \subseteq DOMAIN block.lines
         /\ \A j : j \in Excluded(block) <=> j \in DOMAIN block.lines /\ j \notin Retained(block)
BY DEF Retained, Excluded

\* A block becomes one node of its retained lines; the excluded ones are reported
\* (project_block).
LEMMA BlockEmitted ==
  ASSUME PdfInv, NEW block, NEW lost, Take(block, lost), \A t : <<"dropped", t>> \notin lost,
         NEW open, OpenSections(open, Range(candidates)), NEW kind, NEW label,
         EmitBlock(ParentAfter(open), kind, label, block),
         \/ sections' = open
         \/ kind = "section" /\ \E level : sections' = Append(open, [level |-> level,
                                                       provisional |-> nextProvisional + 1])
  PROVE  PdfInv'
<1> DEFINE C == Range(candidates)
           n == nextProvisional
           parent == ParentAfter(open)
           text == TextOf(block)
           node == [provisional |-> n + 1, parent |-> parent, kind |-> kind,
                    ordinal |-> OrdinalIn(ordinals, parent), text |-> text, label |-> label,
                    anchor |-> NoId]
           m == Len(block.lines)
           kept == Retained(block)
<1>1. /\ page' \in Seq(Layouts) /\ m \in Nat /\ DOMAIN block.lines = 1..m /\ texts' = texts + m
      /\ \A t : <<"dropped", t>> \in diagnostics' <=>
                \/ <<"dropped", t>> \in diagnostics
                \/ \E j \in Excluded(block) : t = texts + j
  BY TakenBlock
<1>2. kept \in SUBSET (1..m) /\ \A j : j \in Excluded(block) <=> j \in 1..m /\ j \notin kept
  BY <1>1, RetainedLines
<1>3. /\ candidates' = Append(candidates, node)
      /\ ordinals' = CountedIn(ordinals, parent)
      /\ nextProvisional' = n + 1
  BY DEF EmitBlock, Node
<1>4. /\ node.provisional = n + 1 /\ node.parent = parent /\ node.kind = kind
      /\ node.ordinal = OrdinalIn(ordinals, parent) /\ node.text = text
  OBVIOUS
<1>5. DOMAIN text = kept /\ \A j \in kept : text[j] = texts + j
  BY DEF TextOf, TextNumber
<1>6. /\ Distinct(candidates) /\ n \in Nat /\ texts \in Nat
      /\ \A c \in C : c.provisional \in 1..n
      /\ Planted(Sites(C), ordinals)
      /\ \A t : <<"dropped", t>> \in diagnostics => t \in 1..texts
      /\ KeptOnce(C, LostIn(texts), texts)
  BY DEF PdfInv
<1> HIDE DEF C, n, parent, text, node, m, kept
<1>7. \A c \in C : c.provisional # node.provisional
  BY <1>4, <1>6
<1>8. Distinct(candidates') /\ Range(candidates)' = C \cup {node}
  <2>1. Distinct(Append(candidates, node)) /\ Range(Append(candidates, node)) = Range(candidates) \cup {node}
    BY <1>6, <1>7, DistinctAppend DEF C
  <2> QED BY <1>3, <2>1 DEF C
<1>9. Planted(Sites(C \cup {node}), CountedIn(ordinals, node.parent))
  <2>1. \A c \in C : SiteOf(c) \in Sites(C)
    BY SitesOf
  <2>2. MayBear(Sites(C), parent, kind) /\ parent \in 0..n
    BY <1>6, <2>1, SectionMayBear DEF C, parent
  <2>3. \A a \in Sites(C) : a.id \in 0..n
    BY <1>6, SitesOf
  <2>4. \A a : a \in Sites(C \cup {node}) <=> a \in Sites(C) \/ a = SiteOf(node)
    BY SitesOf
  <2> QED BY <1>4, <1>6, <2>2, <2>3, <2>4, SiteAdded
<1>10. OpenSections(sections', C \cup {node})
  <2>1. OpenSections(open, C \cup {node})
    BY SectionsStayOpen DEF C
  <2>2. ASSUME NEW level, kind = "section",
               sections' = Append(open, [level |-> level, provisional |-> nextProvisional + 1])
        PROVE  OpenSections(sections', C \cup {node})
    <3>1. node \in C \cup {node} /\ node.kind = "section"
          /\ node.provisional = [level |-> level, provisional |-> nextProvisional + 1].provisional
      BY <1>4, <2>2 DEF n
    <3> QED BY <2>1, <2>2, <3>1, SectionOpened
  <2> QED BY <2>1, <2>2
<1>11. KeptOnce(C \cup {node}, LostIn(texts)', texts')
  <2> DEFINE old == LostIn(texts)
             missing == LostIn(texts)'
  <2>1. \A t \in old : t <= texts
    BY <1>6 DEF LostIn
  <2>2. \A t \in 1..texts + m : t \in missing <=> t \in old \/ \E j \in 1..m : j \notin kept /\ t = texts + j
    BY <1>1, <1>2, <1>6 DEF LostIn
  <2>3. LostBesides(missing, old, kept, texts, m)
    BY <2>2 DEF LostBesides
  <2>4. KeptOnce(C, old, texts)
    BY <1>6
  <2>5. DOMAIN node.text = kept /\ \A j \in kept : node.text[j] = texts + j
    BY <1>4, <1>5
  <2>6. texts' = texts + m
    BY <1>1
  <2> HIDE DEF missing, old
  <2>7. texts \in Nat /\ m \in Nat /\ kept \in SUBSET (1..m)
    BY <1>1, <1>2, <1>6
  <2>8. KeptOnce(C \cup {node}, missing, texts + m)
    BY <1>7, <2>1, <2>3, <2>4, <2>5, <2>7, KeptInANew
  <2> QED BY <2>6, <2>8 DEF missing
<1>12. \A t : <<"dropped", t>> \in diagnostics' => t \in 1..texts'
  BY <1>1, <1>2, <1>6
<1>13. nextProvisional' \in Nat /\ texts' \in Nat
       /\ \A c \in C \cup {node} : c.provisional \in 1..nextProvisional'
  BY <1>1, <1>3, <1>4, <1>6
<1>14. ordinals' = CountedIn(ordinals, node.parent)
  BY <1>3, <1>4
<1> QED BY <1>1, <1>8, <1>9, <1>10, <1>11, <1>12, <1>13, <1>14 DEF PdfInv

\* Every step of the PDF adapter keeps its invariant.
LEMMA PdfInvNext == PdfInv /\ PdfNext => PdfInv'
<1> SUFFICES ASSUME PdfInv, PdfNext PROVE PdfInv'
  OBVIOUS
<1>0. OpenSections(sections, Range(candidates))
  BY DEF PdfInv
<1>1. CASE BeginPage
  <2>1. page' \in Seq(Layouts)
    <3>1. PICK n \in 1..MaxPageBlocks : page' \in [1..n -> {b \in Layouts : WellFormed(b)}]
      BY <1>1 DEF BeginPage
    <3>2. n \in Nat /\ page' \in [1..n -> Layouts]
      BY <3>1
    <3> QED BY <3>2, SeqDef
  <2> QED BY <1>1, <2>1 DEF PdfInv, BeginPage, adapterVars, LostIn
<1>2. CASE DropBlock
  <2>1. PICK block \in PageBlocks :
            /\ Retained(block) = {}
            /\ Take(block, IF block.lines = <<>> THEN {<<"unclassifiable", 0>>} ELSE {})
            /\ UNCHANGED <<candidates, ordinals, nextProvisional, sections>>
    BY <1>2 DEF DropBlock
  <2> DEFINE lost == IF block.lines = <<>> THEN {<<"unclassifiable", 0>>} ELSE {}
             m == Len(block.lines)
             old == LostIn(texts)
             missing == LostIn(texts)'
             C == Range(candidates)
  <2>2. Take(block, lost) /\ \A t : <<"dropped", t>> \notin lost
    BY <2>1
  <2> HIDE DEF lost
  <2>3. /\ page' \in Seq(Layouts) /\ m \in Nat /\ DOMAIN block.lines = 1..m /\ texts' = texts + m
        /\ \A t : <<"dropped", t>> \in diagnostics' <=>
                \/ <<"dropped", t>> \in diagnostics
                \/ \E j \in 1..m : t = texts + j
    BY <2>1, <2>2, TakenBlock, RetainedLines
  <2>4. /\ texts \in Nat /\ KeptOnce(C, old, texts)
        /\ \A t : <<"dropped", t>> \in diagnostics => t \in 1..texts
    BY DEF PdfInv
  <2>5. \A t \in 1..texts : t \in missing <=> t \in old
    <3> TAKE t \in 1..texts
    <3>1. t \in 1..texts + m /\ ~\E j \in 1..m : t = texts + j
      BY <2>3, <2>4
    <3> QED BY <2>3, <3>1 DEF LostIn
  <2>6. \A t \in 1..texts + m : t \notin 1..texts => t \in missing
    <3> TAKE t \in 1..texts + m
    <3>1. t \notin 1..texts => t - texts \in 1..m /\ t = texts + (t - texts)
      BY <2>3, <2>4
    <3> QED BY <2>3, <3>1 DEF LostIn
  <2>7. \A t \in 1..texts : t \in 1..texts + m
    BY <2>3, <2>4
  <2> HIDE DEF missing, old, m, C
  <2>8. KeptOnce(C, missing, texts + m)
    BY <2>4, <2>5, <2>6, <2>7 DEF KeptOnce
  <2>9. \A t : <<"dropped", t>> \in diagnostics' => t \in 1..texts'
    BY <2>3, <2>4
  <2>10. texts' \in Nat
    BY <2>3, <2>4
  <2> QED BY <2>1, <2>3, <2>8, <2>9, <2>10 DEF PdfInv, missing, C
<1>3. CASE ProjectPrefixed
  <2>1. PICK block \in PageBlocks : \E kind :
            /\ Take(block, {}) /\ EmitBlock(ParentAfter(sections), kind, NoId, block)
            /\ sections' = sections
    BY <1>3 DEF ProjectPrefixed, SectionParent
  <2> QED BY <1>0, <2>1, BlockEmitted
<1>4. CASE ProjectHeading
  <2>1. PICK block \in PageBlocks : \E level :
            /\ Take(block, {})
            /\ EmitBlock(ParentAfter(SectionsAbove(level)), "section", <<"number", FirstWord(block)>>, block)
            /\ sections' = Append(SectionsAbove(level), [level |-> level,
                                           provisional |-> nextProvisional + 1])
    BY <1>4 DEF ProjectHeading
  <2>2. PICK level :
            /\ Take(block, {})
            /\ EmitBlock(ParentAfter(SectionsAbove(level)), "section", <<"number", FirstWord(block)>>, block)
            /\ sections' = Append(SectionsAbove(level), [level |-> level,
                                           provisional |-> nextProvisional + 1])
    BY <2>1
  <2>3. OpenSections(SectionsAbove(level), Range(candidates))
    BY <1>0, SectionsAboveAreOpen
  <2> QED BY <2>2, <2>3, BlockEmitted
<1>5. CASE ProjectParagraph
  <2>1. PICK block \in PageBlocks :
            /\ Take(block, IF TableShaped(block) THEN {<<"table", 0>>} ELSE {})
            /\ EmitBlock(ParentAfter(sections), "paragraph", NoId, block)
            /\ sections' = sections
    BY <1>5 DEF ProjectParagraph, SectionParent
  <2>2. \A t : <<"dropped", t>> \notin IF TableShaped(block) THEN {<<"table", 0>>} ELSE {}
    OBVIOUS
  <2> QED BY <1>0, <2>1, <2>2, BlockEmitted
<1>6. CASE LastPage
  BY <1>6 DEF PdfInv, LastPage, LostIn
<1> QED BY <1>1, <1>2, <1>3, <1>4, <1>5, <1>6 DEF PdfNext

\* A graph of which all places are taken.
LEMMA ValidFromSites ==
  ASSUME Distinct(candidates), Planted(Sites(Range(candidates)), ordinals)
  PROVE  SourceGraph!Valid(CandidateGraph)
<1> DEFINE R == {Place(candidates[i].provisional, candidates[i].parent, candidates[i].kind,
                        candidates[i].ordinal) : i \in DOMAIN candidates}
<1>1. Sites(Range(candidates)) = R
  BY DEF Sites, SiteOf, Range
<1>2. Planted(R, ordinals)
  BY <1>1
<1>3. \A i, k \in DOMAIN candidates : candidates[i].provisional = candidates[k].provisional => i = k
  BY DEF Distinct
<1> QED BY <1>2, <1>3, AssembledIsValid

\* What the PDF invariant says of a document that has been ingested.
LEMMA PdfInvIsEnough == PdfInv => PdfTextIsKept /\ PdfGraphIsValid
<1> SUFFICES ASSUME PdfInv PROVE PdfTextIsKept /\ PdfGraphIsValid
  OBVIOUS
<1>1. PdfGraphIsValid
  BY ValidFromSites DEF PdfInv, PdfGraphIsValid
<1>2. ASSUME NEW t \in 1..texts
      PROVE  TimesIn(t, candidates) = IF <<"dropped", t>> \in diagnostics THEN 0 ELSE 1
  <2>1. KeptOnce(Range(candidates), LostIn(texts), texts) /\ Distinct(candidates)
    BY DEF PdfInv
  <2>2. TimesIn(t, candidates) = IF \E x \in Range(candidates) : \E j \in DOMAIN x.text : x.text[j] = t
                                  THEN 1 ELSE 0
    BY <2>1, TimesInPart
  <2>3. t \in LostIn(texts) <=> <<"dropped", t>> \in diagnostics
    BY DEF LostIn
  <2>4. (\E x \in Range(candidates) : \E j \in DOMAIN x.text : x.text[j] = t) <=> t \notin LostIn(texts)
    BY <2>1 DEF KeptOnce
  <2> QED BY <2>2, <2>3, <2>4
<1> QED BY <1>1, <1>2 DEF PdfTextIsKept

-----------------------------------------------------------------------------
(* Labels.                                                                 *)

\* Records of one sequence with one id are the same.
LEMMA DistinctRecords ==
  ASSUME NEW s, Distinct(s)
  PROVE  \A x, y \in Range(s) : x.provisional = y.provisional => x = y
BY DEF Distinct, Range

\* A graph has one node for each candidate.
LEMMA GraphOfCandidates ==
  ASSUME Distinct(candidates)
  PROVE  /\ DOMAIN CandidateGraph = {c.provisional : c \in Range(candidates)}
         /\ \A c \in Range(candidates) : CandidateGraph[c.provisional] = c
<1>1. DOMAIN CandidateGraph = {candidates[i].provisional : i \in DOMAIN candidates}
  BY DEF CandidateGraph
<1>2. \A i \in DOMAIN candidates : CandidateGraph[candidates[i].provisional] = candidates[i]
  <2> TAKE i \in DOMAIN candidates
  <2>1. \A k \in DOMAIN candidates : candidates[k].provisional = candidates[i].provisional <=> k = i
    BY DEF Distinct
  <2>2. (CHOOSE k \in DOMAIN candidates : candidates[k].provisional = candidates[i].provisional) = i
    BY <2>1
  <2> QED BY <2>2 DEF CandidateGraph
<1>3. DOMAIN CandidateGraph = {c.provisional : c \in Range(candidates)}
  BY <1>1 DEF Range
<1>4. \A c \in Range(candidates) : CandidateGraph[c.provisional] = c
  BY <1>2 DEF Range
<1> QED BY <1>3, <1>4

\* A heading is named after its first run of text.
NamedAsHeading(c) ==
    c.kind = "section" /\ 1 \in DOMAIN c.text /\ c.label = <<"heading", c.text[1]>>

\* Two headings with one label would have the same run of text twice, and notes differ by their
\* id.
LEMMA LabelsFromTexts ==
  ASSUME Distinct(candidates), NEW X, NEW lost, NEW n, KeptOnce(X, lost, n), Range(candidates) \subseteq X,
         \A c \in Range(candidates) : c.label = NoId \/ NamedAsHeading(c) \/ c.kind = "note",
         \A c, d \in Range(candidates) :
            c.kind = "note" /\ d.kind = "note" /\ c.label = d.label /\ c.label # NoId
                => c.provisional = d.provisional
  PROVE  SourceGraph!LabelsUnique(CandidateGraph)
<1>1. ASSUME NEW c \in Range(candidates), NEW d \in Range(candidates),
             c.kind = d.kind, c.label = d.label, c.label # NoId
      PROVE  c.provisional = d.provisional
  <2>1. CASE c.kind = "note"
    BY <1>1, <2>1
  <2>2. CASE c.kind # "note"
    <3>1. NamedAsHeading(c) /\ NamedAsHeading(d)
      BY <1>1, <2>2
    <3>2. /\ 1 \in DOMAIN c.text /\ 1 \in DOMAIN d.text
          /\ <<"heading", c.text[1]>> = <<"heading", d.text[1]>>
      BY <1>1, <3>1, Zenon DEF NamedAsHeading
    <3>3. \A a, b : <<"heading", a>> = <<"heading", b>> => a = b
      OBVIOUS
    <3>4. c.text[1] = d.text[1]
      BY <3>2, <3>3
    <3> QED BY <3>2, <3>4 DEF KeptOnce
  <2> QED BY <2>1, <2>2
<1>2. \A u \in DOMAIN CandidateGraph : \E c \in Range(candidates) :
            c.provisional = u /\ CandidateGraph[u] = c
  BY GraphOfCandidates
<1> QED BY <1>1, <1>2 DEF SourceGraph!LabelsUnique

-----------------------------------------------------------------------------
(* Markdown: the frames.                                                   *)

BareKinds == {"paragraph", "transparent"}
FrameKinds == {"section", "paragraph", "transparent", "quote", "code", "item", "table", "row", "cell",
               "footnote"}

\* The kind of the node a frame becomes.
FutureKind(frame) == IF frame.kind = "section" THEN "section" ELSE KindOf(frame)

FrameSite(f) == Place(f.provisional, f.parent, FutureKind(f), f.ordinal)

\* A node has its place once its ordinal is taken.
MarkdownSites(C, F) ==
    {SiteOf(c) : c \in C} \cup {FrameSite(f) : f \in {f \in F : f.kind \notin BareKinds}}

IsFrame(f) ==
    /\ f = [kind |-> f.kind, text |-> f.text, provisional |-> f.provisional, parent |-> f.parent,
            ordinal |-> f.ordinal, id |-> f.id, level |-> f.level, explicit |-> f.explicit]
    /\ f.kind \in FrameKinds /\ f.text \in Seq(Nat)
    /\ f.kind = "transparent" => f.text = <<>>

\* The candidates c and the frames f, the places they take and the open sections s.
TreeOf(c, f, counts, s, n) ==
    /\ Distinct(c) /\ Distinct(f) /\ n \in Nat
    /\ \A x \in Range(c) : x.provisional \in 1..n
    /\ \A x \in Range(f) : x.provisional \in 1..n /\ IsFrame(x)
    /\ \A x \in Range(c), y \in Range(f) : x.provisional # y.provisional
    /\ Planted(MarkdownSites(Range(c), Range(f)), counts)
    /\ OpenSections(s, Range(c))
    /\ \A x \in Range(f) : x.kind = "paragraph" => \A y \in Range(s) : y.provisional < x.provisional

MarkdownTree == TreeOf(candidates, frames, ordinals, sections, nextProvisional)

MarkdownKept == texts \in Nat /\ KeptOnce(Range(candidates) \cup Range(frames), {}, texts)

\* Nodes have places, and so have the frames that took theirs as they opened.
LEMMA MarkdownSitesAre ==
  ASSUME NEW C, NEW F, NEW a
  PROVE  /\ a \in MarkdownSites(C, F) <=> \/ \E c \in C : a = SiteOf(c)
                                          \/ \E f \in F : f.kind \notin BareKinds /\ a = FrameSite(f)
         /\ \A x : /\ FrameSite(x).id = x.provisional /\ FrameSite(x).parent = x.parent
                   /\ FrameSite(x).kind = FutureKind(x) /\ FrameSite(x).ordinal = x.ordinal
BY DEF MarkdownSites, FrameSite, Place

\* Where every id is at most n.
LEMMA MarkdownSiteIds ==
  ASSUME MarkdownTree
  PROVE  /\ \A a \in MarkdownSites(Range(candidates), Range(frames)) : a.id \in 0..nextProvisional
         /\ \A c \in Range(candidates) : SiteOf(c) \in MarkdownSites(Range(candidates), Range(frames))
<1>1. /\ nextProvisional \in Nat
      /\ \A c \in Range(candidates) : c.provisional \in 1..nextProvisional
      /\ \A f \in Range(frames) : f.provisional \in 1..nextProvisional
  BY DEF MarkdownTree, TreeOf
<1>2. ASSUME NEW a \in MarkdownSites(Range(candidates), Range(frames))
      PROVE  a.id \in 0..nextProvisional
  <2>1. CASE \E c \in Range(candidates) : a = SiteOf(c)
    BY <1>1, <2>1, SitesOf
  <2>2. CASE \E f \in Range(frames) : a = FrameSite(f)
    BY <1>1, <2>2, MarkdownSitesAre
  <2> QED BY <2>1, <2>2, MarkdownSitesAre
<1> QED BY <1>2, MarkdownSitesAre

\* The opening of a frame.
LEMMA FramePushed ==
  ASSUME MarkdownTree, NEW f, frames' = Append(frames, f), candidates' = candidates,
         nextProvisional' = nextProvisional + 1,
         f.provisional = nextProvisional + 1, IsFrame(f), f.text = <<>>,
         OpenSections(sections', Range(candidates)), Range(sections') \subseteq Range(sections),
         \/ f.kind \in BareKinds /\ ordinals' = ordinals
         \/ /\ f.kind \notin BareKinds
            /\ ordinals' = CountedIn(ordinals, f.parent) /\ f.ordinal = OrdinalIn(ordinals, f.parent)
            /\ f.parent \in 0..nextProvisional
            /\ MayBear(MarkdownSites(Range(candidates), Range(frames)), f.parent, FutureKind(f))
  PROVE  /\ MarkdownTree' /\ Range(frames)' = Range(frames) \cup {f}
         /\ MarkdownKept /\ texts' = texts => MarkdownKept'
<1> DEFINE C == Range(candidates)
           F == Range(frames)
           n == nextProvisional
<1>1. /\ Distinct(candidates) /\ Distinct(frames) /\ n \in Nat
      /\ \A c \in C : c.provisional \in 1..n
      /\ \A g \in F : g.provisional \in 1..n /\ IsFrame(g)
      /\ \A c \in C, g \in F : c.provisional # g.provisional
      /\ Planted(MarkdownSites(C, F), ordinals)
      /\ \A g \in F : g.kind = "paragraph" => \A s \in Range(sections) : s.provisional < g.provisional
  BY DEF MarkdownTree, TreeOf
<1>2. Distinct(frames') /\ Range(frames)' = F \cup {f}
  <2>1. \A g \in Range(frames) : g.provisional # f.provisional
    BY <1>1
  <2> QED BY <1>1, <2>1, DistinctAppend
<1>3. Range(candidates)' = C
  OBVIOUS
<1> HIDE DEF C, F, n
<1>4. /\ n + 1 \in Nat /\ nextProvisional' = n + 1 /\ f.provisional = n + 1
      /\ \A c \in C : c.provisional \in 1..n + 1 /\ c.provisional # f.provisional
      /\ \A g \in F : g.provisional \in 1..n + 1
  BY <1>1 DEF n
<1>5. Planted(MarkdownSites(C, F \cup {f}), ordinals')
  <2>1. CASE f.kind \in BareKinds /\ ordinals' = ordinals
    <3>1. MarkdownSites(C, F \cup {f}) = MarkdownSites(C, F)
      BY <2>1 DEF MarkdownSites
    <3> QED BY <1>1, <2>1, <3>1
  <2>2. CASE /\ f.kind \notin BareKinds
             /\ ordinals' = CountedIn(ordinals, f.parent) /\ f.ordinal = OrdinalIn(ordinals, f.parent)
             /\ f.parent \in 0..n
             /\ MayBear(MarkdownSites(C, F), f.parent, FutureKind(f))
    <3> DEFINE e == [provisional |-> f.provisional, parent |-> f.parent, kind |-> FutureKind(f),
                     ordinal |-> f.ordinal]
    <3>1. /\ e.provisional = n + 1 /\ e.parent = f.parent /\ e.kind = FutureKind(f)
          /\ e.ordinal = f.ordinal /\ SiteOf(e) = FrameSite(f)
      BY <1>4 DEF SiteOf, FrameSite
    <3> HIDE DEF e
    <3>2. \A a : a \in MarkdownSites(C, F \cup {f}) <=> a \in MarkdownSites(C, F) \/ a = SiteOf(e)
      BY <2>2, <3>1, MarkdownSitesAre
    <3>3. \A a \in MarkdownSites(C, F) : a.id \in 0..n
      BY MarkdownSiteIds DEF C, F, n
    <3>4. e.parent \in 0..n /\ MayBear(MarkdownSites(C, F), e.parent, e.kind)
          /\ e.ordinal = OrdinalIn(ordinals, e.parent) /\ ordinals' = CountedIn(ordinals, e.parent)
      BY <2>2, <3>1
    <3> QED BY <1>1, <3>1, <3>2, <3>3, <3>4, SiteAdded
  <2> QED BY <2>1, <2>2 DEF C, F, n
<1>6. \A g \in F \cup {f} : g.kind = "paragraph" => \A s \in Range(sections') : s.provisional < g.provisional
  <2>1. \A s \in Range(sections') : s.provisional \in 1..n
    BY <1>1 DEF OpenSections, C
  <2> QED BY <1>1, <1>4, <2>1
<1>7. MarkdownTree'
  BY <1>1, <1>2, <1>3, <1>4, <1>5, <1>6 DEF MarkdownTree, TreeOf, C
<1>8. ASSUME MarkdownKept, texts' = texts
      PROVE  MarkdownKept'
  <2> DEFINE X == C \cup F
             Y == C \cup (F \cup {f})
  <2>1. SameTexts(X, Y, {})
    BY DEF SameTexts, HasTextOf
  <2>2. KeptOnce(X, {}, texts)
    BY <1>8 DEF MarkdownKept, C, F
  <2> HIDE DEF X, Y
  <2>3. KeptOnce(Y, {}, texts)
    BY <2>1, <2>2, KeptInTheSame
  <2> QED BY <1>2, <1>3, <1>8, <2>3 DEF MarkdownKept, Y
<1> QED BY <1>2, <1>7, <1>8 DEF F

\* A bare frame that leaves nothing of its own.
LEMMA FrameDropped ==
  ASSUME NEW c, NEW f, NEW counts, NEW s, NEW n, TreeOf(c, f, counts, s, n),
         f # <<>>, Last(f).kind \in BareKinds
  PROVE  /\ TreeOf(c, Front(f), counts, s, n) /\ Last(f) \in Range(f)
         /\ Range(Front(f)) = Without(Range(f), Last(f).provisional)
<1> DEFINE C == Range(c)
           F == Range(f)
           G == Range(Front(f))
           last == Last(f)
<1>1. /\ Distinct(c) /\ Distinct(f) /\ n \in Nat
      /\ \A x \in C : x.provisional \in 1..n
      /\ \A x \in F : x.provisional \in 1..n /\ IsFrame(x)
      /\ \A x \in C, y \in F : x.provisional # y.provisional
      /\ Planted(MarkdownSites(C, F), counts)
      /\ OpenSections(s, C)
      /\ \A x \in F : x.kind = "paragraph" => \A y \in Range(s) : y.provisional < x.provisional
  BY DEF TreeOf
<1>2. /\ Distinct(Front(f)) /\ last \in F /\ G = Without(F, last.provisional)
  BY <1>1, DistinctFront
<1>3. \A x, y \in F : x.provisional = y.provisional => x = y
  BY <1>1, DistinctRecords
<1>4. last.kind \in BareKinds
  OBVIOUS
<1> HIDE DEF C, F, G, last
<1>5. \A x : x \in G <=> x \in F /\ x # last
  BY <1>2, <1>3 DEF Without
<1>6. MarkdownSites(C, G) = MarkdownSites(C, F)
  BY <1>4, <1>5 DEF MarkdownSites
<1> QED BY <1>1, <1>2, <1>5, <1>6 DEF TreeOf, C, F, G, last

\* The text of a frame is another.
Rewritten(f2, f, k, text) == f2 = [f EXCEPT ![k] = [f[k] EXCEPT !.text = text]]

\* A frame gets another text and keeps all else.
LEMMA FrameRewritten ==
  ASSUME NEW c, NEW f, NEW counts, NEW s, NEW n, TreeOf(c, f, counts, s, n),
         NEW k \in DOMAIN f, f[k].kind # "transparent", NEW text \in Seq(Nat),
         NEW f2, Rewritten(f2, f, k, text)
  PROVE  /\ TreeOf(c, f2, counts, s, n) /\ f[k] \in Range(f)
         /\ \E g : /\ Range(f2) = Without(Range(f), f[k].provisional) \cup {g}
                   /\ g.provisional = f[k].provisional /\ g.text = text /\ g.kind = f[k].kind
                   /\ g.id = f[k].id /\ g.level = f[k].level
         /\ DOMAIN f2 = DOMAIN f /\ Len(f2) = Len(f) /\ \A i \in DOMAIN f : f2[i].kind = f[i].kind
<1> DEFINE C == Range(c)
           F == Range(f)
           G == Range(f2)
           old == f[k]
           g == [f[k] EXCEPT !.text = text]
<1>1. /\ Distinct(c) /\ Distinct(f) /\ n \in Nat
      /\ \A x \in C : x.provisional \in 1..n
      /\ \A x \in F : x.provisional \in 1..n /\ IsFrame(x)
      /\ \A x \in C, y \in F : x.provisional # y.provisional
      /\ Planted(MarkdownSites(C, F), counts)
      /\ OpenSections(s, C)
      /\ \A x \in F : x.kind = "paragraph" => \A y \in Range(s) : y.provisional < x.provisional
  BY DEF TreeOf
<1>2. old \in F /\ IsFrame(old) /\ old.kind # "transparent"
  BY <1>1 DEF Range
<1>3. /\ g.provisional = old.provisional /\ g.text = text /\ g.kind = old.kind
      /\ g.parent = old.parent /\ g.ordinal = old.ordinal
      /\ g.id = old.id /\ g.level = old.level /\ g.explicit = old.explicit
      /\ g = [kind |-> g.kind, text |-> g.text, provisional |-> g.provisional, parent |-> g.parent,
              ordinal |-> g.ordinal, id |-> g.id, level |-> g.level, explicit |-> g.explicit]
  <2>1. old = [kind |-> old.kind, text |-> old.text, provisional |-> old.provisional,
               parent |-> old.parent, ordinal |-> old.ordinal, id |-> old.id, level |-> old.level,
               explicit |-> old.explicit]
    BY <1>2 DEF IsFrame
  <2>2. g = [kind |-> old.kind, text |-> text, provisional |-> old.provisional,
             parent |-> old.parent, ordinal |-> old.ordinal, id |-> old.id, level |-> old.level,
             explicit |-> old.explicit]
    BY <2>1
  <2> QED BY <2>2
<1>5. f2 = [f EXCEPT ![k] = g]
  BY DEF Rewritten
<1> HIDE DEF g
<1>4. IsFrame(g) /\ FrameSite(g) = FrameSite(old)
  <2>1. IsFrame(g)
    BY <1>2, <1>3 DEF IsFrame
  <2>2. FutureKind(g) = FutureKind(old)
    BY <1>3 DEF FutureKind, KindOf
  <2> QED BY <1>3, <2>1, <2>2 DEF FrameSite
<1>6. /\ Distinct(f2) /\ G = Without(F, g.provisional) \cup {g}
  <2>1. /\ Distinct([f EXCEPT ![k] = g])
        /\ Range([f EXCEPT ![k] = g]) = Without(Range(f), g.provisional) \cup {g}
    BY <1>1, <1>3, DistinctExcept
  <2> QED BY <1>5, <2>1
<1>7. \A x, y \in F : x.provisional = y.provisional => x = y
  BY <1>1, DistinctRecords
<1>8. /\ DOMAIN f2 = DOMAIN f /\ Len(f2) = Len(f)
      /\ \A i \in DOMAIN f : f2[i].kind = f[i].kind
  <2>1. /\ DOMAIN f2 = DOMAIN f /\ Len(f2) = Len(f)
        /\ \A i \in DOMAIN f : f2[i] = IF i = k THEN g ELSE f[i]
    BY <1>1, <1>5, ExceptList DEF Distinct
  <2> QED BY <1>3, <2>1
<1> HIDE DEF C, F, G, old
<1>9. \A x : x \in G <=> x = g \/ (x \in F /\ x # old)
  BY <1>2, <1>3, <1>6, <1>7 DEF Without
<1>10. MarkdownSites(C, G) = MarkdownSites(C, F)
  <2>1. ASSUME NEW a
        PROVE  a \in MarkdownSites(C, G) <=> a \in MarkdownSites(C, F)
    <3>1. (\E x \in G : x.kind \notin BareKinds /\ a = FrameSite(x))
            <=> \E x \in F : x.kind \notin BareKinds /\ a = FrameSite(x)
      BY <1>2, <1>3, <1>4, <1>9
    <3> QED BY <3>1, MarkdownSitesAre
  <2> QED BY <2>1
<1>11. /\ \A x \in G : x.provisional \in 1..n /\ IsFrame(x)
       /\ \A x \in C, y \in G : x.provisional # y.provisional
       /\ \A x \in G : x.kind = "paragraph" => \A y \in Range(s) : y.provisional < x.provisional
  BY <1>1, <1>2, <1>3, <1>4, <1>9
<1>12. TreeOf(c, f2, counts, s, n)
  BY <1>1, <1>6, <1>10, <1>11 DEF TreeOf, C, G
<1> QED BY <1>2, <1>3, <1>6, <1>8, <1>12 DEF F, G, old

\* A frame becomes the node whose place it has.
LEMMA FrameClosed ==
  ASSUME NEW c, NEW f, NEW counts, NEW s, NEW n, TreeOf(c, f, counts, s, n),
         f # <<>>, Last(f).kind \notin BareKinds,
         NEW node, SiteOf(node) = FrameSite(Last(f)), node.provisional = Last(f).provisional,
         NEW s2, OpenSections(s2, Range(c) \cup {node}),
         s2 = s \/ \A x \in Range(Front(f)) : x.kind # "paragraph"
  PROVE  /\ TreeOf(Append(c, node), Front(f), counts, s2, n) /\ Last(f) \in Range(f)
         /\ Range(Append(c, node)) = Range(c) \cup {node}
         /\ Range(Front(f)) = Without(Range(f), Last(f).provisional)
<1> DEFINE C == Range(c)
           F == Range(f)
           G == Range(Front(f))
           last == Last(f)
           D == Range(Append(c, node))
<1>1. /\ Distinct(c) /\ Distinct(f) /\ n \in Nat
      /\ \A x \in C : x.provisional \in 1..n
      /\ \A x \in F : x.provisional \in 1..n /\ IsFrame(x)
      /\ \A x \in C, y \in F : x.provisional # y.provisional
      /\ Planted(MarkdownSites(C, F), counts)
      /\ \A x \in F : x.kind = "paragraph" => \A y \in Range(s) : y.provisional < x.provisional
  BY DEF TreeOf
<1>2. /\ Distinct(Front(f)) /\ last \in F /\ G = Without(F, last.provisional)
  BY <1>1, DistinctFront
<1>3. \A x, y \in F : x.provisional = y.provisional => x = y
  BY <1>1, DistinctRecords
<1>4. last.kind \notin BareKinds /\ SiteOf(node) = FrameSite(last) /\ node.provisional = last.provisional
  OBVIOUS
<1>5. Distinct(Append(c, node)) /\ D = C \cup {node}
  <2>1. \A x \in Range(c) : x.provisional # node.provisional
    BY <1>1, <1>2, <1>4
  <2> QED BY <1>1, <2>1, DistinctAppend
<1> HIDE DEF C, F, G, D, last
<1>6. \A x : x \in G <=> x \in F /\ x # last
  BY <1>2, <1>3 DEF Without
<1>7. MarkdownSites(D, G) = MarkdownSites(C, F)
  <2>1. ASSUME NEW a
        PROVE  a \in MarkdownSites(D, G) <=> a \in MarkdownSites(C, F)
    <3>1. (\E x \in D : a = SiteOf(x)) <=> (\E x \in C : a = SiteOf(x)) \/ a = FrameSite(last)
      BY <1>4, <1>5
    <3>2. (\E x \in F : x.kind \notin BareKinds /\ a = FrameSite(x))
            <=> (\E x \in G : x.kind \notin BareKinds /\ a = FrameSite(x)) \/ a = FrameSite(last)
      BY <1>2, <1>4, <1>6
    <3> QED BY <3>1, <3>2, MarkdownSitesAre
  <2> QED BY <2>1
<1>8. /\ \A x \in D : x.provisional \in 1..n
      /\ \A x \in G : x.provisional \in 1..n /\ IsFrame(x)
      /\ \A x \in D, y \in G : x.provisional # y.provisional
  BY <1>1, <1>2, <1>3, <1>4, <1>5, <1>6
<1>9. \A x \in G : x.kind = "paragraph" => \A y \in Range(s2) : y.provisional < x.provisional
  BY <1>1, <1>6 DEF G
<1>10. OpenSections(s2, D)
  BY <1>5 DEF C
<1>11. TreeOf(Append(c, node), Front(f), counts, s2, n)
  BY <1>1, <1>2, <1>5, <1>7, <1>8, <1>9, <1>10 DEF TreeOf, D, G
<1> QED BY <1>2, <1>5, <1>11 DEF C, D, F, G, last

\* A paragraph has its place as it closes, of the id it took as it opened.
LEMMA ParagraphClosed ==
  ASSUME NEW c, NEW f, NEW counts, NEW s, NEW n, TreeOf(c, f, counts, s, n),
         f # <<>>, Last(f).kind = "paragraph",
         NEW node, node.provisional = Last(f).provisional, node.parent = ParentAfter(s),
         node.ordinal = OrdinalIn(counts, ParentAfter(s))
  PROVE  /\ TreeOf(Append(c, node), Front(f), CountedIn(counts, ParentAfter(s)), s, n)
         /\ Last(f) \in Range(f)
         /\ Range(Append(c, node)) = Range(c) \cup {node}
         /\ Range(Front(f)) = Without(Range(f), Last(f).provisional)
<1> DEFINE C == Range(c)
           F == Range(f)
           G == Range(Front(f))
           last == Last(f)
           D == Range(Append(c, node))
           p == ParentAfter(s)
           id == node.provisional
           kind == node.kind
<1>1. /\ Distinct(c) /\ Distinct(f) /\ n \in Nat
      /\ \A x \in C : x.provisional \in 1..n
      /\ \A x \in F : x.provisional \in 1..n /\ IsFrame(x)
      /\ \A x \in C, y \in F : x.provisional # y.provisional
      /\ Planted(MarkdownSites(C, F), counts)
      /\ OpenSections(s, C)
      /\ \A x \in F : x.kind = "paragraph" => \A y \in Range(s) : y.provisional < x.provisional
  BY DEF TreeOf
<1>2. /\ Distinct(Front(f)) /\ last \in F /\ G = Without(F, last.provisional)
  BY <1>1, DistinctFront
<1>3. \A x, y \in F : x.provisional = y.provisional => x = y
  BY <1>1, DistinctRecords
<1>4. /\ last.kind = "paragraph" /\ id = last.provisional /\ node.parent = p
      /\ node.ordinal = OrdinalIn(counts, p)
  OBVIOUS
<1>5. Distinct(Append(c, node)) /\ D = C \cup {node}
  <2>1. \A x \in Range(c) : x.provisional # node.provisional
    BY <1>1, <1>2, <1>4
  <2> QED BY <1>1, <2>1, DistinctAppend
<1>6. MayBear(MarkdownSites(C, F), p, kind) /\ p \in 0..n /\ (s = <<>> \/ \E x \in Range(s) : p = x.provisional)
  <2>1. \A x \in Range(c) : SiteOf(x) \in MarkdownSites(C, F)
    BY MarkdownSitesAre
  <2> QED BY <1>1, <2>1, SectionMayBear
<1>7. s = <<>> => p = 0
  BY DEF ParentAfter, DocumentRoot
<1> HIDE DEF C, F, G, D, last, p, id, kind
<1>8. p < id /\ id \in Nat /\ p \in Nat
  BY <1>1, <1>2, <1>4, <1>6, <1>7
<1>9. \A x : x \in G <=> x \in F /\ x # last
  BY <1>2, <1>3 DEF Without
<1>10. Planted(MarkdownSites(D, G), CountedIn(counts, p))
  <2>1. SiteOf(node) = Place(id, p, kind, OrdinalIn(counts, p))
    BY <1>4 DEF SiteOf, id, kind
  <2>2. ASSUME NEW a
        PROVE  a \in MarkdownSites(D, G) <=> \/ a \in MarkdownSites(C, F)
                                             \/ a = Place(id, p, kind, OrdinalIn(counts, p))
    <3>1. (\E x \in D : a = SiteOf(x)) <=> (\E x \in C : a = SiteOf(x)) \/ a = SiteOf(node)
      BY <1>5
    <3>2. (\E x \in F : x.kind \notin BareKinds /\ a = FrameSite(x))
            <=> (\E x \in G : x.kind \notin BareKinds /\ a = FrameSite(x))
      BY <1>4, <1>9 DEF BareKinds
    <3> QED BY <2>1, <3>1, <3>2, MarkdownSitesAre
  <2>3. \A a \in MarkdownSites(C, F) : a.id # id
    <3>1. \A x \in C : x.provisional # id
      BY <1>1, <1>2, <1>4
    <3>2. \A x \in F : x.kind \notin BareKinds => x.provisional # id
      BY <1>2, <1>3, <1>4 DEF BareKinds
    <3>3. ASSUME NEW a \in MarkdownSites(C, F)
          PROVE  a.id # id
      <4>1. CASE \E x \in C : a = SiteOf(x)
        BY <3>1, <4>1, SitesOf
      <4>2. CASE \E x \in F : x.kind \notin BareKinds /\ a = FrameSite(x)
        BY <3>2, <4>2, MarkdownSitesAre
      <4> QED BY <4>1, <4>2, MarkdownSitesAre
    <3> QED BY <3>3
  <2>4. Planted(MarkdownSites(C, F), counts) /\ MayBear(MarkdownSites(C, F), p, kind)
    BY <1>1, <1>6
  <2> QED BY <1>8, <2>2, <2>3, <2>4, PlantOne
<1>11. /\ \A x \in D : x.provisional \in 1..n
       /\ \A x \in G : x.provisional \in 1..n /\ IsFrame(x)
       /\ \A x \in D, y \in G : x.provisional # y.provisional
  BY <1>1, <1>2, <1>3, <1>4, <1>5, <1>9 DEF id
<1>12. \A x \in G : x.kind = "paragraph" => \A y \in Range(s) : y.provisional < x.provisional
  BY <1>1, <1>9
<1>13. OpenSections(s, D)
  BY <1>1, <1>5, SectionsStayOpen
<1>14. TreeOf(Append(c, node), Front(f), CountedIn(counts, p), s, n)
  BY <1>1, <1>2, <1>5, <1>10, <1>11, <1>12, <1>13 DEF TreeOf, D, G
<1> QED BY <1>2, <1>5, <1>14 DEF C, D, F, G, last, p

-----------------------------------------------------------------------------
(* Markdown: text.                                                         *)

\* From a frame to its node.
LEMMA KeptAsClosed ==
  ASSUME NEW C, NEW F, NEW n, KeptOnce(C \cup F, {}, n), NEW f \in F, NEW node,
         node.provisional = f.provisional, node.text = f.text,
         \A x, y \in F : x.provisional = y.provisional => x = y
  PROVE  KeptOnce((C \cup {node}) \cup Without(F, f.provisional), {}, n)
<1> DEFINE X == C \cup F
           Y == (C \cup {node}) \cup Without(F, f.provisional)
<1>1. HasTextOf(Y, X, {})
  BY DEF HasTextOf, Without
<1>2. HasTextOf(X, Y, {})
  BY DEF HasTextOf, Without
<1> HIDE DEF X, Y
<1>3. KeptOnce(Y, {}, n)
  BY <1>1, <1>2, KeptInTheSame DEF SameTexts, X
<1> QED BY <1>3 DEF Y

\* A frame that leaves no text.
LEMMA KeptAsDropped ==
  ASSUME NEW C, NEW F, NEW n, KeptOnce(C \cup F, {}, n), NEW f \in F, f.text = <<>>,
         \A x, y \in F : x.provisional = y.provisional => x = y
  PROVE  KeptOnce(C \cup Without(F, f.provisional), {}, n)
<1> DEFINE X == C \cup F
           Y == C \cup Without(F, f.provisional)
<1>1. HasTextOf(Y, X, {})
  BY DEF HasTextOf, Without
<1>2. HasTextOf(X, Y, {})
  BY DEF HasTextOf, Without
<1> HIDE DEF X, Y
<1>3. KeptOnce(Y, {}, n)
  BY <1>1, <1>2, KeptInTheSame DEF SameTexts, X
<1> QED BY <1>3 DEF Y

\* A run of text given to a frame.
LEMMA KeptInFrame ==
  ASSUME NEW C, NEW F, NEW n \in Nat, KeptOnce(C \cup F, {}, n), NEW f \in F, f.text \in Seq(Nat),
         \A x, y \in F : x.provisional = y.provisional => x = y,
         \A x \in C, y \in F : x.provisional # y.provisional,
         NEW g, g.provisional = f.provisional, g.text = Append(f.text, n + 1)
  PROVE  KeptOnce(C \cup (Without(F, f.provisional) \cup {g}), {}, n + 1)
<1> DEFINE X == C \cup F
           Y == C \cup (Without(F, f.provisional) \cup {g})
           id == f.provisional
           text == f.text
<1>1. SameTexts(X, Y, {id})
  <2>1. HasTextOf(Y, X, {id})
    BY DEF HasTextOf, Without
  <2>2. HasTextOf(X, Y, {id})
    BY DEF HasTextOf, Without
  <2> QED BY <2>1, <2>2 DEF SameTexts
<1>2. Reads(X, id, text)
  BY DEF Reads
<1>3. Reads(Y, id, Append(text, n + 1))
  BY DEF Reads, Without
<1>4. KeptOnce(X, {}, n) /\ text \in Seq(Nat) /\ \A t \in {} : t <= n
  OBVIOUS
<1> HIDE DEF X, Y, id, text
<1>5. KeptOnce(Y, {}, n + 1)
  BY <1>1, <1>2, <1>3, <1>4, KeptAsGiven
<1> QED BY <1>5 DEF Y

\* The text of one frame goes to another.
LEMMA KeptAsAbsorbed ==
  ASSUME NEW C, NEW F, NEW n, KeptOnce(C \cup F, {}, n), NEW f \in F, f.text \in Seq(Nat),
         NEW h \in F, h.text \in Seq(Nat), h.provisional # f.provisional,
         \A x, y \in F : x.provisional = y.provisional => x = y,
         \A x \in C, y \in F : x.provisional # y.provisional,
         NEW g, g.provisional = h.provisional, g.text = h.text \o f.text,
         NEW G, G = Without(F, f.provisional)
  PROVE  KeptOnce(C \cup (Without(G, h.provisional) \cup {g}), {}, n)
<1> DEFINE X == C \cup F
           Y == C \cup (Without(G, h.provisional) \cup {g})
           to == h.provisional
           from == f.provisional
           a == h.text
           b == f.text
<1>1. SameTexts(X, Y, {to, from})
  <2>1. HasTextOf(Y, X, {to, from})
    BY DEF HasTextOf, Without
  <2>2. HasTextOf(X, Y, {to, from})
    BY DEF HasTextOf, Without
  <2> QED BY <2>1, <2>2 DEF SameTexts
<1>2. Reads(X, to, a) /\ Reads(X, from, b)
  BY DEF Reads
<1>3. Reads(Y, to, a \o b)
  BY DEF Reads, Without
<1>4. Reads(Y, from, <<>>)
  BY DEF Reads, Without
<1>5. KeptOnce(X, {}, n) /\ to # from /\ a \in Seq(Nat) /\ b \in Seq(Nat)
  OBVIOUS
<1> HIDE DEF X, Y, to, from, a, b
<1>6. KeptOnce(Y, {}, n)
  BY <1>1, <1>2, <1>3, <1>4, <1>5, KeptAsJoined
<1> QED BY <1>6 DEF Y

-----------------------------------------------------------------------------
(* Markdown: labels.                                                       *)

\* A footnote that will be named.
OpenNote(f) == f.kind = "footnote" /\ f.level # 1 /\ f.id # NoId

Labelled(C, F, seen) ==
    /\ \A c \in C : c.label = NoId \/ NamedAsHeading(c) \/ (c.kind = "note" /\ c.label \in seen)
    /\ \A c, d \in C : c.kind = "note" /\ d.kind = "note" /\ c.label = d.label /\ c.label # NoId
                            => c.provisional = d.provisional
    /\ \A f \in F : OpenNote(f) => f.id \in seen /\ \A c \in C : c.kind = "note" => c.label # f.id
    /\ \A f, g \in F : OpenNote(f) /\ OpenNote(g) /\ f.id = g.id => f.provisional = g.provisional

\* A footnote opens with an id that was not seen before.
LEMMA LabelledAsOpened ==
  ASSUME NEW C, NEW F, NEW seen, Labelled(C, F, seen), NEW f, NEW more,
         \/ ~OpenNote(f) /\ more = seen
         \/ more = seen \cup {f.id} /\ (f.id \in seen => ~OpenNote(f))
  PROVE  Labelled(C, F \cup {f}, more)
<1>1. \A x \in seen : x \in more
  OBVIOUS
<1>2. OpenNote(f) => f.id \in more /\ f.id \notin seen
  OBVIOUS
<1>3. \A c \in C : c.label = NoId \/ NamedAsHeading(c) \/ (c.kind = "note" /\ c.label \in more)
  BY <1>1 DEF Labelled
<1>4. \A c \in C : OpenNote(f) /\ c.kind = "note" => c.label # f.id
  BY <1>2 DEF Labelled, NamedAsHeading, OpenNote
<1>5. \A g \in F : OpenNote(f) /\ OpenNote(g) => f.id # g.id
  BY <1>2 DEF Labelled
<1> QED BY <1>1, <1>2, <1>3, <1>4, <1>5 DEF Labelled

\* A frame that gets another text keeps its id.
LEMMA LabelledAsRewritten ==
  ASSUME NEW C, NEW F, NEW seen, Labelled(C, F, seen), NEW f \in F, NEW g, NEW G,
         g.provisional = f.provisional, g.kind = f.kind, g.id = f.id, g.level = f.level,
         G \subseteq F \cup {g}
  PROVE  Labelled(C, G, seen)
<1>1. OpenNote(g) <=> OpenNote(f)
  BY DEF OpenNote
<1>2. \A x \in G : \E y \in F : x.provisional = y.provisional /\ x.id = y.id
                               /\ (OpenNote(x) <=> OpenNote(y))
  BY <1>1
<1> QED BY <1>2 DEF Labelled

\* A frame becomes a node without label, of the heading's label, or of the footnote's.
LEMMA LabelledAsClosed ==
  ASSUME NEW C, NEW F, NEW seen, Labelled(C, F, seen), NEW f \in F, NEW node,
         \A x, y \in F : x.provisional = y.provisional => x = y,
         \/ node.label = NoId \/ NamedAsHeading(node)
         \/ node.kind = "note" /\ node.label = f.id /\ OpenNote(f)
  PROVE  Labelled(C \cup {node}, Without(F, f.provisional), seen)
<1> DEFINE G == Without(F, f.provisional)
<1>1. \A x \in G : x \in F /\ x.provisional # f.provisional
  BY DEF Without
<1>2. NamedAsHeading(node) => node.kind = "section"
  BY DEF NamedAsHeading
<1>3. \A x : OpenNote(x) => x.id # NoId
  BY DEF OpenNote
<1> HIDE DEF G
<1>4. /\ \A c \in C \cup {node} : c.label = NoId \/ NamedAsHeading(c) \/ (c.kind = "note" /\ c.label \in seen)
      /\ \A c, d \in C \cup {node} : c.kind = "note" /\ d.kind = "note" /\ c.label = d.label /\ c.label # NoId
                            => c.provisional = d.provisional
  BY <1>2 DEF Labelled
<1>5. /\ \A x \in G : OpenNote(x) => x.id \in seen /\ \A c \in C \cup {node} : c.kind = "note" => c.label # x.id
      /\ \A x, y \in G : OpenNote(x) /\ OpenNote(y) /\ x.id = y.id => x.provisional = y.provisional
  BY <1>1, <1>2, <1>3 DEF Labelled
<1> QED BY <1>4, <1>5 DEF Labelled, G

\* Frames that leave take no label with them.
LEMMA LabelledAsDropped ==
  ASSUME NEW C, NEW F, NEW seen, Labelled(C, F, seen), NEW G, G \subseteq F
  PROVE  Labelled(C, G, seen)
BY DEF Labelled

-----------------------------------------------------------------------------
(* Markdown: the parser's blocks and the frames.                           *)

MarkdownTags ==
    {"heading", "paragraph", "list", "quote", "code", "item", "table", "head", "row", "cell", "footnote"}

\* The kind of the frame of a block.
KindAt(tag) ==
    CASE tag = "heading" -> "section"
      [] tag = "list" -> "transparent"
      [] tag \in {"head", "row"} -> "row"
      [] OTHER -> tag

OpenBlock == [tag : MarkdownTags, filled : BOOLEAN]

MarkdownStack ==
    /\ opened \in Seq(OpenBlock)
    /\ Len(opened) = Len(frames)
    /\ \A i \in 1..Len(opened) : frames[i].kind = KindAt(opened[i].tag)
    /\ \A i \in 1..Len(opened) - 1 : opened[i].tag \notin Leaves

\* The innermost block of the parser is that of the innermost frame.
LEMMA InnermostBlock ==
  ASSUME MarkdownStack, frames \in Seq(Range(frames))
  PROVE  /\ Top = "document" <=> opened = <<>>
         /\ Top = "document" <=> frames = <<>>
         /\ Top # "document" => /\ Top \in MarkdownTags /\ Last(opened).tag = Top
                                /\ Last(frames).kind = KindAt(Top)
                                /\ Last(frames) = frames[Len(frames)] /\ Len(frames) \in DOMAIN frames
                                /\ Last(frames) \in Range(frames)
<1>1. Len(opened) \in Nat /\ Len(frames) = Len(opened) /\ DOMAIN opened = 1..Len(opened)
      /\ (opened = <<>> <=> Len(opened) = 0) /\ \A i \in 1..Len(opened) : opened[i] \in OpenBlock
  BY EmptySeq, LenProperties, ElementOfSeq DEF MarkdownStack
<1>2. DOMAIN frames = 1..Len(frames) /\ (frames = <<>> <=> Len(frames) = 0)
      /\ \A i \in DOMAIN frames : frames[i] \in Range(frames)
  BY ListsHaveLength
<1>3. CASE opened = <<>>
  BY <1>1, <1>2, <1>3 DEF Top
<1>4. CASE opened # <<>>
  <2>1. Len(opened) \in 1..Len(opened) /\ Last(opened) = opened[Len(opened)]
        /\ Last(frames) = frames[Len(frames)]
    BY <1>1, <1>4 DEF Last
  <2>2. Top = Last(opened).tag /\ Top \in MarkdownTags
    BY <1>1, <1>4, <2>1 DEF Top, OpenBlock
  <2>3. Top # "document"
    BY <2>2 DEF MarkdownTags
  <2>4. Last(frames).kind = KindAt(Top)
    BY <1>1, <2>1, <2>2 DEF MarkdownStack
  <2> QED BY <1>1, <1>2, <1>4, <2>1, <2>2, <2>3, <2>4
<1> QED BY <1>3, <1>4

\* A block opens, and the frame of its kind.
LEMMA StackPushed ==
  ASSUME MarkdownStack, frames \in Seq(Range(frames)), NEW tag \in MarkdownTags, Opens(tag),
         NEW f, frames' = Append(frames, f), f.kind = KindAt(tag)
  PROVE  MarkdownStack'
<1> DEFINE touched == [i \in DOMAIN opened |->
                            IF i = Len(opened) THEN [opened[i] EXCEPT !.filled = TRUE] ELSE opened[i]]
           block == [tag |-> tag, filled |-> FALSE]
           n == Len(opened)
<1>1. n \in Nat /\ Len(frames) = n /\ DOMAIN opened = 1..n
      /\ \A i \in 1..n : opened[i] \in OpenBlock
  BY LenProperties, ElementOfSeq DEF MarkdownStack
<1>2. /\ touched \in Seq(OpenBlock) /\ Len(touched) = n
      /\ \A i \in 1..n : touched[i].tag = opened[i].tag
  <2>1. \A i \in 1..n : touched[i] \in OpenBlock /\ touched[i].tag = opened[i].tag
    BY <1>1 DEF OpenBlock
  <2>2. touched \in [1..n -> OpenBlock]
    BY <1>1, <2>1
  <2> HIDE DEF touched
  <2>3. touched \in Seq(OpenBlock)
    BY <1>1, <2>2, SeqDef
  <2> QED BY <1>1, <2>1, <2>2, <2>3
<1>3. block \in OpenBlock /\ block.tag = tag
  BY DEF OpenBlock
<1>4. opened' = Append(touched, block)
  BY DEF Opens
<1> HIDE DEF touched, block, n
<1>5. /\ opened' \in Seq(OpenBlock) /\ Len(opened') = n + 1
      /\ \A i \in 1..n + 1 : opened'[i] = IF i = n + 1 THEN block ELSE touched[i]
  BY <1>1, <1>2, <1>3, <1>4
<1>6. /\ Len(frames') = n + 1
      /\ \A i \in 1..n + 1 : frames'[i] = IF i = n + 1 THEN f ELSE frames[i]
  BY <1>1, AppendList
<1>7. Top \notin Leaves
  BY DEF Opens, MayOpen, MarkdownTags, Leaves, Containers
<1>8. \A i \in 1..n : opened[i].tag \notin Leaves
  <2>1. \A i \in 1..n - 1 : opened[i].tag \notin Leaves
    BY DEF MarkdownStack, n
  <2>2. n # 0 => opened[n].tag = Top
    BY <1>1, InnermostBlock DEF n, Last
  <2> QED BY <1>1, <1>7, <2>1, <2>2
<1>9. \A i \in 1..n + 1 : i = n + 1 \/ i \in 1..n
  BY <1>1
<1>10. \A i \in 1..n + 1 : frames'[i].kind = KindAt(opened'[i].tag)
  <2>1. \A i \in 1..n : frames[i].kind = KindAt(opened[i].tag)
    BY DEF MarkdownStack, n
  <2> QED BY <1>2, <1>3, <1>5, <1>6, <1>9, <2>1
<1>11. \A i \in 1..n : opened'[i].tag \notin Leaves
  BY <1>1, <1>2, <1>5, <1>8
<1>12. (n + 1) - 1 = n
  BY <1>1
<1> QED BY <1>5, <1>6, <1>10, <1>11, <1>12 DEF MarkdownStack

\* A block closes with its frame, whatever text goes to other frames.
LEMMA StackPopped ==
  ASSUME MarkdownStack, frames \in Seq(Range(frames)), frames # <<>>, opened' = Front(opened),
         frames' \in Seq(Range(frames')), Len(frames') = Len(frames) - 1,
         \A i \in 1..Len(frames) - 1 : frames'[i].kind = frames[i].kind
  PROVE  MarkdownStack'
<1> DEFINE n == Len(opened)
<1>1. n \in Nat \ {0} /\ Len(frames) = n /\ \A i \in 1..n : opened[i] \in OpenBlock
  <2>1. n \in Nat /\ \A i \in 1..n : opened[i] \in OpenBlock
    BY LenProperties, ElementOfSeq DEF MarkdownStack
  <2>2. Len(frames) = n /\ Len(frames) # 0
    BY ListsHaveLength DEF MarkdownStack
  <2> QED BY <2>1, <2>2
<1>2. opened' = SubSeq(opened, 1, n - 1)
  BY DEF Front
<1>3. \A i \in 1..n - 1 : opened[i] \in OpenBlock
  BY <1>1
<1> HIDE DEF n
<1>4. /\ opened' \in Seq(OpenBlock) /\ Len(opened') = n - 1
      /\ \A i \in 1..n - 1 : opened'[i] = opened[i]
  BY <1>1, <1>2, <1>3, SubSeqProperties
<1>5. \A i \in 1..n - 1 : /\ frames'[i].kind = KindAt(opened'[i].tag)
                          /\ opened'[i].tag \notin Leaves
  BY <1>1, <1>4, SMTT(30) DEF MarkdownStack, n
<1>6. \A i \in 1..(n - 1) - 1 : i \in 1..n - 1
  BY <1>1
<1> QED BY <1>1, <1>4, <1>5, <1>6 DEF MarkdownStack

\* Text in the innermost block moves no frame.
LEMMA StackTouched ==
  ASSUME MarkdownStack, opened # <<>>, opened' = [opened EXCEPT ![Len(opened)].filled = TRUE],
         Len(frames') = Len(frames),
         \A i \in 1..Len(frames) : frames'[i].kind = frames[i].kind
  PROVE  MarkdownStack'
<1> DEFINE n == Len(opened)
           block == [opened[n] EXCEPT !.filled = TRUE]
<1>1. n \in Nat \ {0} /\ n \in 1..n /\ DOMAIN opened = 1..n /\ \A i \in 1..n : opened[i] \in OpenBlock
  BY EmptySeq, LenProperties, ElementOfSeq DEF MarkdownStack
<1>2. block \in OpenBlock /\ block.tag = opened[n].tag
  BY <1>1 DEF OpenBlock
<1>3. opened' = [opened EXCEPT ![n] = block]
  OBVIOUS
<1> HIDE DEF n, block
<1>4. /\ opened' \in Seq(OpenBlock) /\ Len(opened') = n
      /\ \A i \in 1..n : opened'[i] = IF i = n THEN block ELSE opened[i]
  <2>1. opened \in Seq(OpenBlock) /\ Len(opened) = n /\ n \in 1..Len(opened) /\ block \in OpenBlock
    BY <1>1, <1>2 DEF MarkdownStack, n
  <2>2. /\ [opened EXCEPT ![n] = block] \in Seq(OpenBlock)
        /\ Len([opened EXCEPT ![n] = block]) = Len(opened)
        /\ \A i \in 1..Len(opened) : [opened EXCEPT ![n] = block][i] = IF i = n THEN block ELSE opened[i]
    BY <2>1, ExceptSeq
  <2> QED BY <1>3, <2>1, <2>2
<1>5. \A i \in 1..n : opened'[i].tag = opened[i].tag
  BY <1>2, <1>4
<1>6. \A i \in 1..n - 1 : i \in 1..n
  BY <1>1
<1> QED BY <1>4, <1>5, <1>6 DEF MarkdownStack, n

-----------------------------------------------------------------------------
(* Markdown: the invariant.                                                *)

\* A document with no repeated footnote.
MarkdownDocument ==
    /\ MarkdownTree /\ MarkdownKept /\ MarkdownStack
    /\ Labelled(Range(candidates), Range(frames), footnotesSeen)
    /\ ingested => frames = <<>>

MarkdownInv == Repeated = {} => MarkdownDocument

\* What the tree says of the frames alone.
LEMMA FramesAreListed ==
  ASSUME MarkdownTree
  PROVE  /\ frames \in Seq(Range(frames)) /\ Distinct(frames) /\ Distinct(candidates)
         /\ \A x, y \in Range(frames) : x.provisional = y.provisional => x = y
         /\ \A x \in Range(candidates), y \in Range(frames) : x.provisional # y.provisional
         /\ \A x \in Range(frames) : IsFrame(x) /\ x.provisional \in 1..nextProvisional
         /\ OpenSections(sections, Range(candidates)) /\ nextProvisional \in Nat
BY DistinctRecords DEF MarkdownTree, TreeOf, Distinct

\* A frame opens: bare ones take an id, the others also their place, and a footnote its id.
LEMMA OpenedFrame ==
  ASSUME MarkdownDocument, NEW tag \in MarkdownTags, Opens(tag),
         NEW f, frames' = Append(frames, f), candidates' = candidates,
         nextProvisional' = nextProvisional + 1,
         f.provisional = nextProvisional + 1, IsFrame(f), f.text = <<>>, f.kind = KindAt(tag),
         OpenSections(sections', Range(candidates)), Range(sections') \subseteq Range(sections),
         \/ f.kind \in BareKinds /\ ordinals' = ordinals
         \/ /\ f.kind \notin BareKinds
            /\ ordinals' = CountedIn(ordinals, f.parent) /\ f.ordinal = OrdinalIn(ordinals, f.parent)
            /\ f.parent \in 0..nextProvisional
            /\ MayBear(MarkdownSites(Range(candidates), Range(frames)), f.parent, FutureKind(f)),
         \/ ~OpenNote(f) /\ footnotesSeen' = footnotesSeen
         \/ footnotesSeen' = footnotesSeen \cup {f.id} /\ (f.id \in footnotesSeen => ~OpenNote(f))
  PROVE  MarkdownDocument'
<1>1. MarkdownTree /\ MarkdownKept /\ MarkdownStack
      /\ Labelled(Range(candidates), Range(frames), footnotesSeen)
  BY DEF MarkdownDocument
<1>2. texts' = texts /\ ingested' = FALSE
  BY DEF Opens, MayOpen
<1>3. MarkdownTree' /\ MarkdownKept' /\ Range(frames)' = Range(frames) \cup {f}
  BY <1>1, <1>2, FramePushed
<1>4. MarkdownStack'
  BY <1>1, FramesAreListed, StackPushed
<1>5. Labelled(Range(candidates), Range(frames) \cup {f}, footnotesSeen')
  BY <1>1, LabelledAsOpened
<1> QED BY <1>2, <1>3, <1>4, <1>5 DEF MarkdownDocument

\* A new frame has no text.
LEMMA FrameFields ==
  ASSUME NEW kind \in FrameKinds, NEW parent, NEW ordinal, NEW id
  PROVE  /\ Frame(kind, parent, ordinal, id)
               = [kind |-> kind, text |-> <<>>, provisional |-> nextProvisional + 1, parent |-> parent,
                  ordinal |-> ordinal, id |-> id, level |-> 0, explicit |-> NoId]
         /\ \A level, explicit : IsFrame([kind |-> kind, text |-> <<>>,
                  provisional |-> nextProvisional + 1, parent |-> parent,
                  ordinal |-> ordinal, id |-> id, level |-> level, explicit |-> explicit])
BY DEF Frame, IsFrame

\* A heading's frame also has its level and its explicit id.
LEMMA HeadingFields ==
  ASSUME NEW parent, NEW ordinal, NEW level, NEW explicit
  PROVE  [Frame("section", parent, ordinal, NoId) EXCEPT !.level = level, !.explicit = explicit]
            = [kind |-> "section", text |-> <<>>, provisional |-> nextProvisional + 1, parent |-> parent,
               ordinal |-> ordinal, id |-> NoId, level |-> level, explicit |-> explicit]
<1> DEFINE f == [kind |-> "section", text |-> <<>>, provisional |-> nextProvisional + 1, parent |-> parent,
                 ordinal |-> ordinal, id |-> NoId, level |-> 0, explicit |-> NoId]
           g == [f EXCEPT !.level = level]
<1>1. Frame("section", parent, ordinal, NoId) = f
  BY DEF Frame
<1>2. [f EXCEPT !.level = level, !.explicit = explicit] = [g EXCEPT !.explicit = explicit]
  OBVIOUS
<1>3. g = [kind |-> "section", text |-> <<>>, provisional |-> nextProvisional + 1, parent |-> parent,
           ordinal |-> ordinal, id |-> NoId, level |-> level, explicit |-> NoId]
  OBVIOUS
<1> HIDE DEF f, g
<1>4. [g EXCEPT !.explicit = explicit]
         = [kind |-> "section", text |-> <<>>, provisional |-> nextProvisional + 1, parent |-> parent,
            ordinal |-> ordinal, id |-> NoId, level |-> level, explicit |-> explicit]
  BY <1>3
<1> QED BY <1>1, <1>2, <1>4

\* StartHeading closes the sections that are not above it and takes a place below the rest.
LEMMA HeadingOpened ==
  ASSUME MarkdownDocument, StartHeading PROVE MarkdownDocument'
<1>1. PICK level, explicit :
        /\ Opens("heading")
        /\ sections' = SectionsAbove(level)
        /\ LET parent == ParentAfter(SectionsAbove(level))
           IN /\ frames' = Append(frames, [Frame("section", parent, OrdinalIn(ordinals, parent), NoId)
                                            EXCEPT !.level = level, !.explicit = explicit])
              /\ ordinals' = CountedIn(ordinals, parent)
        /\ nextProvisional' = nextProvisional + 1
        /\ UNCHANGED <<candidates, footnotesSeen>>
  BY DEF StartHeading
<1> DEFINE parent == ParentAfter(SectionsAbove(level))
           f == [kind |-> "section", text |-> <<>>, provisional |-> nextProvisional + 1, parent |-> parent,
                 ordinal |-> OrdinalIn(ordinals, parent), id |-> NoId, level |-> level,
                 explicit |-> explicit]
<1>2. frames' = Append(frames, f) /\ IsFrame(f)
  <2>1. "section" \in FrameKinds
    BY DEF FrameKinds
  <2>2. IsFrame(f)
    BY <2>1, FrameFields
  <2>3. [Frame("section", parent, OrdinalIn(ordinals, parent), NoId)
            EXCEPT !.level = level, !.explicit = explicit] = f
    BY <2>1, HeadingFields
  <2> QED BY <1>1, <2>2, <2>3
<1>3. /\ f.provisional = nextProvisional + 1 /\ f.text = <<>> /\ f.kind = "section" /\ f.parent = parent
      /\ f.ordinal = OrdinalIn(ordinals, parent) /\ FutureKind(f) = "section" /\ ~OpenNote(f)
  BY DEF FutureKind, OpenNote
<1>4. /\ OpenSections(SectionsAbove(level), Range(candidates))
      /\ Range(SectionsAbove(level)) \subseteq Range(sections)
  BY FramesAreListed, SectionsAboveAreOpen DEF MarkdownDocument
<1>5. /\ parent \in 0..nextProvisional
      /\ MayBear(MarkdownSites(Range(candidates), Range(frames)), parent, FutureKind(f))
  <2>1. \A c \in Range(candidates) : c.provisional \in 1..nextProvisional
    BY DEF MarkdownDocument, MarkdownTree, TreeOf
  <2>2. nextProvisional \in Nat /\ \A c \in Range(candidates) :
                            SiteOf(c) \in MarkdownSites(Range(candidates), Range(frames))
    BY FramesAreListed, MarkdownSiteIds DEF MarkdownDocument
  <2> QED BY <1>4, <2>1, <2>2, SectionMayBear
<1> HIDE DEF f
<1>6. f.kind = KindAt("heading") /\ "heading" \in MarkdownTags /\ f.kind \notin BareKinds
  BY <1>3 DEF KindAt, MarkdownTags, BareKinds
<1> QED BY <1>1, <1>2, <1>3, <1>4, <1>5, <1>6, OpenedFrame

\* StartBare takes an id and no place.
LEMMA BareOpened ==
  ASSUME MarkdownDocument, StartBare PROVE MarkdownDocument'
<1>1. PICK tag \in {"paragraph", "list"} : Opens(tag) /\ PushBare(KindAt(tag))
  BY DEF StartBare, KindAt
<1> DEFINE kind == KindAt(tag)
           f == [kind |-> kind, text |-> <<>>, provisional |-> nextProvisional + 1,
                 parent |-> DocumentRoot, ordinal |-> 0, id |-> NoId, level |-> 0, explicit |-> NoId]
<1>2. kind \in FrameKinds /\ kind \in BareKinds /\ tag \in MarkdownTags
  BY DEF KindAt, FrameKinds, BareKinds, MarkdownTags
<1>3. /\ frames' = Append(frames, Frame(kind, DocumentRoot, 0, NoId))
      /\ nextProvisional' = nextProvisional + 1 /\ ordinals' = ordinals
      /\ sections' = sections /\ candidates' = candidates /\ footnotesSeen' = footnotesSeen
  BY <1>1 DEF PushBare, StartBare
<1> HIDE DEF kind
<1>4. frames' = Append(frames, f) /\ IsFrame(f)
  BY <1>2, <1>3, FrameFields
<1>5. f.provisional = nextProvisional + 1 /\ f.text = <<>> /\ f.kind = kind /\ ~OpenNote(f)
  BY DEF OpenNote
<1>6. OpenSections(sections, Range(candidates))
  BY FramesAreListed DEF MarkdownDocument
<1> HIDE DEF f
<1> QED BY <1>1, <1>2, <1>3, <1>4, <1>5, <1>6, OpenedFrame DEF kind

\* A frame whose node is under way.
LEMMA NodeOpened ==
  ASSUME MarkdownDocument, NEW tag \in MarkdownTags, Opens(tag),
         NEW parent, NEW id, NEW skip, PushNode(KindAt(tag), parent, id, skip),
         KindAt(tag) \in FrameKinds \ BareKinds, KindAt(tag) # "section",
         UNCHANGED <<sections, candidates>>,
         parent \in 0..nextProvisional,
         \A f : f.kind = KindAt(tag) =>
            MayBear(MarkdownSites(Range(candidates), Range(frames)), parent, FutureKind(f)),
         \/ tag # "footnote" /\ footnotesSeen' = footnotesSeen
         \/ footnotesSeen' = footnotesSeen \cup {id} /\ skip = (id \in footnotesSeen)
  PROVE  MarkdownDocument'
<1> DEFINE kind == KindAt(tag)
           f == [kind |-> kind, text |-> <<>>, provisional |-> nextProvisional + 1, parent |-> parent,
                 ordinal |-> OrdinalIn(ordinals, parent), id |-> id, level |-> IF skip THEN 1 ELSE 0,
                 explicit |-> NoId]
<1>1. kind \in FrameKinds /\ kind \notin BareKinds
  OBVIOUS
<1>2. (tag # "footnote") => kind # "footnote"
  BY DEF KindAt, MarkdownTags
<1> HIDE DEF kind
<1>3. frames' = Append(frames, f) /\ IsFrame(f)
  <2>1. frames' = Append(frames, [Frame(kind, parent, OrdinalIn(ordinals, parent), id) EXCEPT
                                    !.level = IF skip THEN 1 ELSE 0])
    BY DEF PushNode, kind
  <2> QED BY <1>1, <2>1, FrameFields
<1>4. ordinals' = CountedIn(ordinals, parent) /\ nextProvisional' = nextProvisional + 1
  BY DEF PushNode
<1>5. /\ f.provisional = nextProvisional + 1 /\ f.text = <<>> /\ f.kind = kind /\ f.parent = parent
      /\ f.ordinal = OrdinalIn(ordinals, parent) /\ f.id = id /\ (skip => f.level = 1)
  OBVIOUS
<1> HIDE DEF f
<1>6. MayBear(MarkdownSites(Range(candidates), Range(frames)), f.parent, FutureKind(f))
  BY <1>5 DEF kind
<1>7. \/ ~OpenNote(f) /\ footnotesSeen' = footnotesSeen
      \/ footnotesSeen' = footnotesSeen \cup {f.id} /\ (f.id \in footnotesSeen => ~OpenNote(f))
  BY <1>2, <1>5 DEF OpenNote
<1>8. OpenSections(sections, Range(candidates)) /\ sections' = sections /\ candidates' = candidates
  BY FramesAreListed DEF MarkdownDocument
<1> QED BY <1>1, <1>3, <1>4, <1>5, <1>6, <1>7, <1>8, OpenedFrame DEF kind

\* A row goes below its table and a cell below its row, whose frames are the innermost.
LEMMA FrameParentBears ==
  ASSUME MarkdownDocument, NEW kind \in {"table", "row"}, Last(frames).kind = kind, frames # <<>>
  PROVE  /\ FrameParent(kind) \in 0..nextProvisional
         /\ MayBear(MarkdownSites(Range(candidates), Range(frames)), FrameParent(kind),
                    IF kind = "table" THEN "table_row" ELSE "table_cell")
<1> DEFINE S == {i \in DOMAIN frames : frames[i].kind = kind}
           k == CHOOSE i \in S : \A j \in S : j <= i
<1>1. /\ Len(frames) \in Nat /\ DOMAIN frames = 1..Len(frames) /\ Len(frames) \in DOMAIN frames
      /\ Last(frames) = frames[Len(frames)] /\ \A i \in DOMAIN frames : frames[i] \in Range(frames)
  <2>1. frames \in Seq(Range(frames))
    BY FramesAreListed DEF MarkdownDocument
  <2>2. Len(frames) # 0 /\ Len(frames) \in Nat /\ DOMAIN frames = 1..Len(frames)
        /\ \A i \in DOMAIN frames : frames[i] \in Range(frames)
    BY <2>1, ListsHaveLength
  <2> QED BY <2>2 DEF Last
<1>2. S \in SUBSET (0..Len(frames)) /\ S # {}
  BY <1>1
<1>3. k \in S
  <2> HIDE DEF S
  <2>1. \E x \in S : \A y \in S : y <= x
    BY <1>1, <1>2, GreatestIndex
  <2> QED BY <2>1
<1>4. FrameParent(kind) = frames[k].provisional
  BY <1>2 DEF FrameParent
<1> DEFINE f == frames[k]
<1> HIDE DEF k
<1>5. f.kind = kind /\ f \in Range(frames)
  BY <1>1, <1>3
<1> HIDE DEF S
<1>6. f.provisional \in 1..nextProvisional /\ nextProvisional \in Nat
  BY <1>5, FramesAreListed DEF MarkdownDocument
<1> HIDE DEF f
<1>7. /\ FrameSite(f) \in MarkdownSites(Range(candidates), Range(frames))
      /\ FrameSite(f).id = f.provisional /\ FrameSite(f).kind = FutureKind(f)
  <2>1. f.kind \notin BareKinds
    BY <1>5 DEF BareKinds
  <2> QED BY <1>5, <2>1, MarkdownSitesAre
<1>8. FutureKind(f) = IF kind = "table" THEN "table" ELSE "table_row"
  BY <1>5 DEF FutureKind, KindOf
<1>9. SourceGraph!MayParent(FutureKind(f), IF kind = "table" THEN "table_row" ELSE "table_cell")
  BY <1>8 DEF SourceGraph!MayParent
<1> QED BY <1>4, <1>6, <1>7, <1>9 DEF MayBear, f

\* StartNode takes a place below the section, the table or the row.
LEMMA NodeStarted ==
  ASSUME MarkdownDocument, StartNode PROVE MarkdownDocument'
<1>1. /\ sections' = sections /\ candidates' = candidates /\ footnotesSeen' = footnotesSeen
  BY DEF StartNode
<1>2. \/ \E tag \in {"quote", "code", "item", "table"} :
            Opens(tag) /\ PushNode(tag, SectionParent, NoId, FALSE)
      \/ \E tag \in {"head", "row"} : Opens(tag) /\ PushNode("row", FrameParent("table"), NoId, FALSE)
      \/ Opens("cell") /\ PushNode("cell", FrameParent("row"), NoId, FALSE)
  BY DEF StartNode
<1>3. \A kind : /\ SectionParent \in 0..nextProvisional
                /\ MayBear(MarkdownSites(Range(candidates), Range(frames)), SectionParent, kind)
  <2>1. OpenSections(sections, Range(candidates)) /\ nextProvisional \in Nat
    BY FramesAreListed DEF MarkdownDocument
  <2>2. \A c \in Range(candidates) : c.provisional \in 1..nextProvisional
    BY DEF MarkdownDocument, MarkdownTree, TreeOf
  <2>3. \A c \in Range(candidates) : SiteOf(c) \in MarkdownSites(Range(candidates), Range(frames))
    BY MarkdownSiteIds DEF MarkdownDocument
  <2> QED BY <2>1, <2>2, <2>3, SectionMayBear DEF SectionParent
<1>4. ASSUME NEW tag \in {"quote", "code", "item", "table"},
             Opens(tag), PushNode(tag, SectionParent, NoId, FALSE)
      PROVE  MarkdownDocument'
  <2>1. /\ tag \in MarkdownTags /\ KindAt(tag) = tag /\ tag \in FrameKinds \ BareKinds
        /\ tag # "section" /\ tag # "footnote"
    BY DEF MarkdownTags, KindAt, FrameKinds, BareKinds
  <2> QED BY <1>1, <1>3, <1>4, <2>1, NodeOpened
<1>5. ASSUME NEW tag \in {"head", "row"}, Opens(tag), PushNode("row", FrameParent("table"), NoId, FALSE)
      PROVE  MarkdownDocument'
  <2>1. /\ tag \in MarkdownTags /\ KindAt(tag) = "row" /\ "row" \in FrameKinds \ BareKinds
        /\ tag # "footnote"
    BY DEF MarkdownTags, KindAt, FrameKinds, BareKinds
  <2>2. Top = "table"
    BY <1>5 DEF Opens, MayOpen
  <2>3. Last(frames).kind = "table" /\ frames # <<>>
    BY <2>2, InnermostBlock, FramesAreListed DEF MarkdownDocument, KindAt
  <2>4. /\ FrameParent("table") \in 0..nextProvisional
        /\ MayBear(MarkdownSites(Range(candidates), Range(frames)), FrameParent("table"), "table_row")
    BY <2>3, FrameParentBears
  <2>5. \A f : f.kind = "row" => FutureKind(f) = "table_row"
    BY DEF FutureKind, KindOf
  <2> QED BY <1>1, <1>5, <2>1, <2>4, <2>5, NodeOpened
<1>6. ASSUME Opens("cell"), PushNode("cell", FrameParent("row"), NoId, FALSE)
      PROVE  MarkdownDocument'
  <2>1. /\ "cell" \in MarkdownTags /\ KindAt("cell") = "cell" /\ "cell" \in FrameKinds \ BareKinds
    BY DEF MarkdownTags, KindAt, FrameKinds, BareKinds
  <2>2. Top \in {"head", "row"}
    BY <1>6 DEF Opens, MayOpen
  <2>3. Last(frames).kind = "row" /\ frames # <<>>
    BY <2>2, InnermostBlock, FramesAreListed DEF MarkdownDocument, KindAt
  <2>4. /\ FrameParent("row") \in 0..nextProvisional
        /\ MayBear(MarkdownSites(Range(candidates), Range(frames)), FrameParent("row"), "table_cell")
    BY <2>3, FrameParentBears
  <2>5. \A f : f.kind = "cell" => FutureKind(f) = "table_cell"
    BY DEF FutureKind, KindOf
  <2> QED BY <1>1, <1>6, <2>1, <2>4, <2>5, NodeOpened
<1> QED BY <1>2, <1>4, <1>5, <1>6

\* StartFootnote takes a place also for a repeated definition, which it reports.
LEMMA FootnoteStarted ==
  ASSUME MarkdownDocument, StartFootnote PROVE MarkdownDocument'
<1>1. PICK id \in FootnoteIds :
        /\ Opens("footnote")
        /\ PushNode("footnote", SectionParent, id, id \in footnotesSeen)
        /\ footnotesSeen' = footnotesSeen \cup {id}
        /\ sections' = sections /\ candidates' = candidates
  BY DEF StartFootnote
<1>2. \A kind : /\ SectionParent \in 0..nextProvisional
                /\ MayBear(MarkdownSites(Range(candidates), Range(frames)), SectionParent, kind)
  <2>1. OpenSections(sections, Range(candidates)) /\ nextProvisional \in Nat
    BY FramesAreListed DEF MarkdownDocument
  <2>2. \A c \in Range(candidates) : c.provisional \in 1..nextProvisional
    BY DEF MarkdownDocument, MarkdownTree, TreeOf
  <2>3. \A c \in Range(candidates) : SiteOf(c) \in MarkdownSites(Range(candidates), Range(frames))
    BY MarkdownSiteIds DEF MarkdownDocument
  <2> QED BY <2>1, <2>2, <2>3, SectionMayBear DEF SectionParent
<1>3. /\ "footnote" \in MarkdownTags /\ KindAt("footnote") = "footnote"
      /\ "footnote" \in FrameKinds \ BareKinds
  BY DEF MarkdownTags, KindAt, FrameKinds, BareKinds
<1> DEFINE skip == id \in footnotesSeen
<1>4. PushNode(KindAt("footnote"), SectionParent, id, skip)
  BY <1>1, <1>3
<1>5. skip = (id \in footnotesSeen)
  OBVIOUS
<1> HIDE DEF skip
<1> QED BY <1>1, <1>2, <1>3, <1>4, <1>5, NodeOpened

\* Text goes to the innermost frame that holds text.
LEMMA TextRead ==
  ASSUME MarkdownDocument, Text PROVE MarkdownDocument'
<1> DEFINE k == Len(frames)
           f == frames[k]
           text == Append(f.text, texts + 1)
           C == Range(candidates)
           F == Range(frames)
<1>1. /\ texts' = texts + 1 /\ ingested' = ingested /\ ingested = FALSE
      /\ opened' = [opened EXCEPT ![Len(opened)].filled = TRUE]
      /\ frames' = [frames EXCEPT ![k].text = Append(@, texts + 1)]
      /\ UNCHANGED <<sections, candidates, ordinals, footnotesSeen, nextProvisional>>
      /\ Top \in Leaves \cup {"item"}
  BY DEF Text, LastFrame, MarkdownDocument
<1>2. Top # "document" /\ KindAt(Top) # "transparent"
  BY <1>1 DEF Leaves, KindAt
<1>3. /\ opened # <<>> /\ f.kind # "transparent" /\ k \in DOMAIN frames /\ f \in F
  BY <1>2, InnermostBlock, FramesAreListed DEF MarkdownDocument
<1>4. /\ IsFrame(f) /\ texts \in Nat /\ KeptOnce(C \cup F, {}, texts)
      /\ \A x, y \in F : x.provisional = y.provisional => x = y
      /\ \A x \in C, y \in F : x.provisional # y.provisional
  BY <1>3, FramesAreListed DEF MarkdownDocument, MarkdownKept
<1>5. f.text \in Seq(Nat) /\ text \in Seq(Nat)
  BY <1>4 DEF IsFrame
<1>6. frames' = [frames EXCEPT ![k] = [f EXCEPT !.text = text]]
  BY <1>1
<1> HIDE DEF k, text
<1>7. /\ TreeOf(candidates, frames', ordinals, sections, nextProvisional)
      /\ \E g : /\ Range(frames') = Without(Range(frames), f.provisional) \cup {g}
                /\ g.provisional = f.provisional /\ g.text = text /\ g.kind = f.kind
                /\ g.id = f.id /\ g.level = f.level
      /\ Len(frames') = Len(frames) /\ \A i \in DOMAIN frames : frames'[i].kind = frames[i].kind
  <2>1. TreeOf(candidates, frames, ordinals, sections, nextProvisional)
    BY DEF MarkdownDocument, MarkdownTree
  <2>2. /\ k \in DOMAIN frames /\ frames[k].kind # "transparent" /\ text \in Seq(Nat)
        /\ Rewritten(frames', frames, k, text)
    BY <1>3, <1>5, <1>6 DEF Rewritten
  <2> HIDE DEF f
  <2>3. /\ TreeOf(candidates, frames', ordinals, sections, nextProvisional)
        /\ \E g : /\ Range(frames') = Without(Range(frames), frames[k].provisional) \cup {g}
                  /\ g.provisional = frames[k].provisional /\ g.text = text /\ g.kind = frames[k].kind
                  /\ g.id = frames[k].id /\ g.level = frames[k].level
        /\ Len(frames') = Len(frames) /\ \A i \in DOMAIN frames : frames'[i].kind = frames[i].kind
    BY <2>1, <2>2, FrameRewritten
  <2> QED BY <2>3 DEF f
<1>8. PICK g : /\ Range(frames') = Without(F, f.provisional) \cup {g}
               /\ g.provisional = f.provisional /\ g.text = text /\ g.kind = f.kind
               /\ g.id = f.id /\ g.level = f.level
  BY <1>7
<1> HIDE DEF f, C, F
<1>9. KeptOnce(C \cup (Without(F, f.provisional) \cup {g}), {}, texts + 1)
  BY <1>3, <1>4, <1>5, <1>8, KeptInFrame DEF text
<1>10. MarkdownKept'
  <2>1. texts' \in Nat /\ Range(candidates)' = C
    BY <1>1, <1>4 DEF C
  <2>2. KeptOnce(Range(candidates)' \cup Range(frames)', {}, texts')
    BY <1>1, <1>8, <1>9, <2>1
  <2> QED BY <2>1, <2>2 DEF MarkdownKept
<1>11. Labelled(C, Range(frames'), footnotesSeen)
  <2>1. Without(F, f.provisional) \cup {g} \subseteq F \cup {g}
    BY DEF Without
  <2>2. Labelled(C, F, footnotesSeen)
    BY DEF MarkdownDocument, C, F
  <2> QED BY <1>3, <1>8, <2>1, <2>2, LabelledAsRewritten
<1>12. MarkdownStack'
  <2>1. DOMAIN frames = 1..Len(frames)
    BY FramesAreListed, ListsHaveLength DEF MarkdownDocument
  <2> QED BY <1>1, <1>3, <1>7, <2>1, StackTouched DEF MarkdownDocument
<1>13. MarkdownTree'
  BY <1>1, <1>7 DEF MarkdownTree
<1> QED BY <1>1, <1>10, <1>11, <1>12, <1>13 DEF MarkdownDocument, C

-----------------------------------------------------------------------------
(* Markdown: the closing of a block.                                       *)

\* What a block that closes has on the frame stack.
LEMMA ClosingBlock ==
  ASSUME MarkdownDocument, NEW tags, Closes(tags), "document" \notin tags
  PROVE  /\ frames # <<>> /\ Top \in tags /\ Last(frames).kind = KindAt(Top)
         /\ Last(frames) \in Range(frames) /\ IsFrame(Last(frames)) /\ Popped = Front(frames)
         /\ opened' = Front(opened) /\ texts' = texts /\ nextProvisional' = nextProvisional
         /\ ingested' = FALSE /\ Top \in MarkdownTags
<1>1. /\ Top \in tags /\ opened' = Front(opened) /\ texts' = texts
      /\ nextProvisional' = nextProvisional /\ ingested' = FALSE
  BY DEF Closes, MarkdownDocument
<1>2. Popped = Front(frames)
  BY DEF Popped, LastFrame, Front
<1>3. /\ frames # <<>> /\ Last(frames).kind = KindAt(Top) /\ Last(frames) \in Range(frames)
      /\ Top \in MarkdownTags
  BY <1>1, InnermostBlock, FramesAreListed DEF MarkdownDocument
<1>4. IsFrame(Last(frames))
  BY <1>3, FramesAreListed DEF MarkdownDocument
<1> QED BY <1>1, <1>2, <1>3, <1>4

\* The block and its frame are gone.
LEMMA StackClosed ==
  ASSUME MarkdownDocument, frames # <<>>, opened' = Front(opened), frames' = Front(frames)
  PROVE  MarkdownStack'
<1>1. frames \in Seq(Range(frames)) /\ MarkdownStack
  BY FramesAreListed DEF MarkdownDocument
<1>2. /\ Front(frames) \in Seq(Range(Front(frames)))
      /\ Len(Front(frames)) = Len(frames) - 1
      /\ \A i \in 1..Len(frames) - 1 : Front(frames)[i] = frames[i]
  BY <1>1, FrontList
<1> QED BY <1>1, <1>2, StackPopped

\* A frame becomes its node, which may open a section.
LEMMA NodeClosed ==
  ASSUME MarkdownDocument, NEW tags, Closes(tags), "document" \notin tags,
         Last(frames).kind \notin BareKinds,
         NEW node, SiteOf(node) = FrameSite(Last(frames)), node.provisional = Last(frames).provisional,
         node.text = Last(frames).text,
         candidates' = Append(candidates, node), frames' = Popped, ordinals' = ordinals,
         footnotesSeen' = footnotesSeen,
         OpenSections(sections', Range(candidates) \cup {node}),
         sections' = sections \/ \A x \in Range(Front(frames)) : x.kind # "paragraph",
         \/ node.label = NoId \/ NamedAsHeading(node)
         \/ node.kind = "note" /\ node.label = Last(frames).id /\ OpenNote(Last(frames))
  PROVE  MarkdownDocument'
<1> DEFINE f == Last(frames)
           C == Range(candidates)
           F == Range(frames)
<1>1. /\ frames # <<>> /\ f \in F /\ Popped = Front(frames)
      /\ opened' = Front(opened) /\ texts' = texts /\ nextProvisional' = nextProvisional
      /\ ingested' = FALSE
  BY ClosingBlock
<1>2. TreeOf(candidates, frames, ordinals, sections, nextProvisional)
  BY DEF MarkdownDocument, MarkdownTree
<1>3. /\ TreeOf(Append(candidates, node), Front(frames), ordinals, sections', nextProvisional)
      /\ Range(Append(candidates, node)) = C \cup {node}
      /\ Range(Front(frames)) = Without(F, f.provisional)
  BY <1>1, <1>2, FrameClosed
<1>4. MarkdownTree' /\ Range(candidates') = C \cup {node} /\ Range(frames') = Without(F, f.provisional)
  BY <1>1, <1>3 DEF MarkdownTree
<1>5. /\ \A x, y \in F : x.provisional = y.provisional => x = y
      /\ KeptOnce(C \cup F, {}, texts) /\ texts \in Nat /\ Labelled(C, F, footnotesSeen)
  BY FramesAreListed DEF MarkdownDocument, MarkdownKept
<1>6. /\ node.provisional = f.provisional /\ node.text = f.text
      /\ \/ node.label = NoId \/ NamedAsHeading(node)
         \/ node.kind = "note" /\ node.label = f.id /\ OpenNote(f)
  OBVIOUS
<1> HIDE DEF f, C, F
<1>7. KeptOnce((C \cup {node}) \cup Without(F, f.provisional), {}, texts)
  BY <1>1, <1>5, <1>6, KeptAsClosed
<1>8. Labelled(C \cup {node}, Without(F, f.provisional), footnotesSeen)
  BY <1>1, <1>5, <1>6, LabelledAsClosed
<1>9. MarkdownStack'
  BY <1>1, StackClosed
<1> QED BY <1>1, <1>4, <1>5, <1>7, <1>8, <1>9 DEF MarkdownDocument, MarkdownKept

\* The fields of a frame's node.
LEMMA FrameNodeFields ==
  ASSUME NEW f, NEW kind
  PROVE  /\ FrameNode(f, kind).provisional = f.provisional /\ FrameNode(f, kind).parent = f.parent
         /\ FrameNode(f, kind).kind = kind /\ FrameNode(f, kind).ordinal = f.ordinal
         /\ FrameNode(f, kind).text = f.text /\ FrameNode(f, kind).label = NoId
         /\ kind = FutureKind(f) => SiteOf(FrameNode(f, kind)) = FrameSite(f)
BY DEF FrameNode, Node, SiteOf, FrameSite

\* A node that is given a label.
LEMMA NamedFields ==
  ASSUME NEW f, NEW kind, NEW label
  PROVE  [FrameNode(f, kind) EXCEPT !.label = label]
            = [provisional |-> f.provisional, parent |-> f.parent, kind |-> kind, ordinal |-> f.ordinal,
               text |-> f.text, label |-> label, anchor |-> NoId]
BY DEF FrameNode, Node

\* A node that is given a label and an anchor.
LEMMA AnchoredFields ==
  ASSUME NEW f, NEW kind, NEW label, NEW anchor
  PROVE  [FrameNode(f, kind) EXCEPT !.label = label, !.anchor = anchor]
            = [provisional |-> f.provisional, parent |-> f.parent, kind |-> kind, ordinal |-> f.ordinal,
               text |-> f.text, label |-> label, anchor |-> anchor]
<1> DEFINE a == FrameNode(f, kind)
           b == [a EXCEPT !.label = label]
<1>1. [a EXCEPT !.label = label, !.anchor = anchor] = [b EXCEPT !.anchor = anchor]
  BY DEF FrameNode, Node
<1>2. b = [provisional |-> f.provisional, parent |-> f.parent, kind |-> kind, ordinal |-> f.ordinal,
           text |-> f.text, label |-> label, anchor |-> NoId]
  BY DEF FrameNode, Node
<1> HIDE DEF a, b
<1>3. [b EXCEPT !.anchor = anchor]
         = [provisional |-> f.provisional, parent |-> f.parent, kind |-> kind, ordinal |-> f.ordinal,
            text |-> f.text, label |-> label, anchor |-> anchor]
  BY <1>2
<1> QED BY <1>1, <1>3 DEF a

\* Inside a block the parser opens others in, there is no paragraph.
LEMMA NoParagraphBelow ==
  ASSUME MarkdownDocument, frames # <<>>
  PROVE  \A x \in Range(Front(frames)) : x.kind # "paragraph"
<1>1. /\ frames \in Seq(Range(frames)) /\ MarkdownStack
  BY FramesAreListed DEF MarkdownDocument
<1>2. /\ Front(frames) \in Seq(Range(Front(frames))) /\ DOMAIN Front(frames) = 1..Len(frames) - 1
      /\ \A i \in 1..Len(frames) - 1 : Front(frames)[i] = frames[i]
      /\ Len(frames) \in Nat \ {0}
  BY <1>1, FrontList
<1>3. ASSUME NEW i \in 1..Len(frames) - 1
      PROVE  frames[i].kind # "paragraph"
  <2>1. /\ i \in 1..Len(opened) - 1 /\ i \in 1..Len(opened) /\ opened \in Seq(OpenBlock)
    BY <1>1, <1>2 DEF MarkdownStack
  <2>2. frames[i].kind = KindAt(opened[i].tag) /\ opened[i].tag \notin Leaves
    BY <1>1, <2>1 DEF MarkdownStack
  <2>3. opened[i] \in OpenBlock
    BY <2>1
  <2>4. opened[i].tag \in MarkdownTags
    BY <2>3 DEF OpenBlock
  <2> QED BY <2>2, <2>4 DEF KindAt, Leaves, MarkdownTags
<1> QED BY <1>2, <1>3, ListsHaveLength

\* EndHeading names the section and opens it.
LEMMA HeadingClosed ==
  ASSUME MarkdownDocument, EndHeading PROVE MarkdownDocument'
<1> DEFINE f == Last(frames)
           node == [provisional |-> f.provisional, parent |-> f.parent, kind |-> "section",
                    ordinal |-> f.ordinal, text |-> f.text, label |-> LabelOf(f.text),
                    anchor |-> Anchor(f.explicit)]
           C == Range(candidates)
<1>1. /\ Closes({"heading"}) /\ "document" \notin {"heading"}
      /\ candidates' = Append(candidates, node)
      /\ sections' = Append(sections, [level |-> f.level, provisional |-> f.provisional])
      /\ frames' = Popped /\ ordinals' = ordinals /\ footnotesSeen' = footnotesSeen
  BY AnchoredFields DEF EndHeading
<1>2. /\ frames # <<>> /\ f.kind = "section" /\ f \in Range(frames) /\ IsFrame(f)
  <2>1. /\ frames # <<>> /\ f \in Range(frames) /\ IsFrame(f)
        /\ Top \in {"heading"} /\ f.kind = KindAt(Top)
    BY <1>1, ClosingBlock
  <2> QED BY <2>1 DEF KindAt
<1>3. /\ node.provisional = f.provisional /\ node.parent = f.parent /\ node.kind = "section"
      /\ node.ordinal = f.ordinal /\ node.text = f.text /\ node.label = LabelOf(f.text)
  OBVIOUS
<1> HIDE DEF node
<1>4. SiteOf(node) = FrameSite(f) /\ f.kind \notin BareKinds
  BY <1>2, <1>3 DEF SiteOf, FrameSite, FutureKind, BareKinds
<1>5. node.label = NoId \/ NamedAsHeading(node)
  <2>1. CASE f.text = <<>>
    BY <1>3, <2>1 DEF LabelOf
  <2>2. CASE f.text # <<>>
    <3>1. 1 \in DOMAIN f.text
      BY <1>2, <2>2 DEF IsFrame
    <3>2. node.label = <<"heading", node.text[1]>>
      BY <1>3, <2>2 DEF LabelOf
    <3> QED BY <1>3, <3>1, <3>2, Zenon DEF NamedAsHeading
  <2> QED BY <2>1, <2>2
<1>6. OpenSections(sections', C \cup {node})
  <2>1. OpenSections(sections, C)
    BY FramesAreListed DEF MarkdownDocument
  <2>2. OpenSections(sections, C \cup {node})
    BY <2>1, SectionsStayOpen
  <2> DEFINE e == [level |-> f.level, provisional |-> f.provisional]
  <2>3. node \in C \cup {node} /\ node.provisional = e.provisional /\ node.kind = "section"
    BY <1>3
  <2> HIDE DEF e
  <2>4. OpenSections(Append(sections, e), C \cup {node})
    BY <2>2, <2>3, SectionOpened
  <2> QED BY <1>1, <2>4 DEF e
<1>7. \A x \in Range(Front(frames)) : x.kind # "paragraph"
  BY <1>2, NoParagraphBelow
<1> QED BY <1>1, <1>3, <1>4, <1>5, <1>6, <1>7, NodeClosed

\* EndNode leaves a node without label.
LEMMA BlockNodeClosed ==
  ASSUME MarkdownDocument, EndNode PROVE MarkdownDocument'
<1> DEFINE f == Last(frames)
           tags == {"quote", "code", "item", "table", "head", "row", "cell"}
           node == FrameNode(f, KindOf(f))
<1>1. /\ Closes(tags) /\ "document" \notin tags
      /\ candidates' = Append(candidates, node)
      /\ frames' = Popped /\ sections' = sections /\ ordinals' = ordinals
      /\ footnotesSeen' = footnotesSeen
  BY DEF EndNode
<1>2. /\ Top \in tags /\ f.kind = KindAt(Top)
  BY <1>1, ClosingBlock
<1>3. f.kind \in {"quote", "code", "item", "table", "row", "cell"}
  BY <1>2 DEF KindAt
<1>4. f.kind \notin BareKinds /\ KindOf(f) = FutureKind(f)
  BY <1>3 DEF BareKinds, FutureKind
<1> HIDE DEF tags
<1>5. /\ node.provisional = f.provisional /\ node.text = f.text /\ node.label = NoId
      /\ SiteOf(node) = FrameSite(f)
  BY <1>4, FrameNodeFields
<1> HIDE DEF node
<1>6. OpenSections(sections', Range(candidates) \cup {node})
  <2>1. OpenSections(sections, Range(candidates))
    BY FramesAreListed DEF MarkdownDocument
  <2>2. OpenSections(sections, Range(candidates) \cup {node})
    BY <2>1, SectionsStayOpen
  <2> QED BY <1>1, <2>2
<1> QED BY <1>1, <1>4, <1>5, <1>6, NodeClosed

\* EndFootnote names the note, unless its definition was a repeated one.
LEMMA FootnoteClosed ==
  ASSUME MarkdownDocument, EndFootnote, Repeated' = {} PROVE MarkdownDocument'
<1> DEFINE f == Last(frames)
           node == [provisional |-> f.provisional, parent |-> f.parent, kind |-> "note",
                    ordinal |-> f.ordinal, text |-> f.text, label |-> f.id, anchor |-> NoId]
<1>1. ~Skipped(f)
  <2>1. ASSUME Skipped(f) PROVE FALSE
    <3>1. diagnostics' = diagnostics \cup {<<"footnote_definition", f.provisional>>}
      BY <2>1 DEF EndFootnote
    <3> DEFINE d == <<"footnote_definition", f.provisional>>
    <3>2. d \in diagnostics' /\ d[1] = "footnote_definition"
      BY <3>1
    <3> HIDE DEF d
    <3> QED BY <3>2 DEF Repeated
  <2> QED BY <2>1
<1>2. /\ Closes({"footnote"}) /\ "document" \notin {"footnote"}
      /\ candidates' = Append(candidates, node)
      /\ frames' = Popped /\ sections' = sections /\ ordinals' = ordinals
      /\ footnotesSeen' = footnotesSeen
  BY <1>1, NamedFields DEF EndFootnote
<1>3. f.kind = "footnote" /\ f.level # 1
  <2>1. Top \in {"footnote"} /\ f.kind = KindAt(Top)
    BY <1>2, ClosingBlock
  <2> QED BY <1>1, <2>1 DEF KindAt, Skipped
<1>4. f.kind \notin BareKinds /\ FutureKind(f) = "note"
  BY <1>3 DEF BareKinds, FutureKind, KindOf
<1>5. /\ node.provisional = f.provisional /\ node.text = f.text /\ node.label = f.id
      /\ node.kind = "note" /\ SiteOf(node) = FrameSite(f)
  BY <1>4 DEF SiteOf, FrameSite
<1> HIDE DEF node
<1>6. \/ node.label = NoId
      \/ node.kind = "note" /\ node.label = f.id /\ OpenNote(f)
  BY <1>3, <1>5 DEF OpenNote
<1>7. OpenSections(sections', Range(candidates) \cup {node})
  <2>1. OpenSections(sections, Range(candidates))
    BY FramesAreListed DEF MarkdownDocument
  <2>2. OpenSections(sections, Range(candidates) \cup {node})
    BY <2>1, SectionsStayOpen
  <2> QED BY <1>2, <2>2
<1> QED BY <1>2, <1>4, <1>5, <1>6, <1>7, NodeClosed

\* EndList leaves nothing: the text of a list is in its items.
LEMMA ListClosed ==
  ASSUME MarkdownDocument, EndList PROVE MarkdownDocument'
<1> DEFINE f == Last(frames)
           C == Range(candidates)
           F == Range(frames)
<1>1. /\ Closes({"list"}) /\ "document" \notin {"list"}
      /\ frames' = Popped /\ candidates' = candidates /\ sections' = sections
      /\ ordinals' = ordinals /\ footnotesSeen' = footnotesSeen
  BY DEF EndList
<1>2. /\ frames # <<>> /\ Top \in {"list"} /\ f.kind = KindAt(Top) /\ f \in F /\ IsFrame(f)
      /\ Popped = Front(frames) /\ opened' = Front(opened) /\ texts' = texts
      /\ nextProvisional' = nextProvisional /\ ingested' = FALSE
  BY <1>1, ClosingBlock
<1>3. f.kind = "transparent" /\ f.kind \in BareKinds /\ f.text = <<>>
  BY <1>2 DEF KindAt, BareKinds, IsFrame
<1>4. TreeOf(candidates, frames, ordinals, sections, nextProvisional)
  BY DEF MarkdownDocument, MarkdownTree
<1>5. /\ TreeOf(candidates, Front(frames), ordinals, sections, nextProvisional)
      /\ Range(Front(frames)) = Without(F, f.provisional)
  BY <1>2, <1>3, <1>4, FrameDropped
<1>6. MarkdownTree' /\ Range(candidates') = C /\ Range(frames') = Without(F, f.provisional)
  BY <1>1, <1>2, <1>5 DEF MarkdownTree
<1>7. /\ \A x, y \in F : x.provisional = y.provisional => x = y
      /\ KeptOnce(C \cup F, {}, texts) /\ texts \in Nat /\ Labelled(C, F, footnotesSeen)
  BY FramesAreListed DEF MarkdownDocument, MarkdownKept
<1> HIDE DEF f, C, F
<1>8. KeptOnce(C \cup Without(F, f.provisional), {}, texts)
  BY <1>2, <1>3, <1>7, KeptAsDropped
<1>9. Labelled(C, Without(F, f.provisional), footnotesSeen)
  <2>1. Without(F, f.provisional) \subseteq F
    BY DEF Without
  <2> QED BY <1>7, <2>1, LabelledAsDropped
<1>10. MarkdownStack'
  BY <1>1, <1>2, StackClosed
<1> QED BY <1>1, <1>2, <1>6, <1>7, <1>8, <1>9, <1>10 DEF MarkdownDocument, MarkdownKept

\* A paragraph whose text no frame takes.
LEMMA ParagraphEmitted ==
  ASSUME MarkdownDocument, Closes({"paragraph"}), frames' = Popped,
         candidates' = Append(candidates,
                FrameNode([Last(frames) EXCEPT !.parent = SectionParent,
                                               !.ordinal = OrdinalIn(ordinals, SectionParent)],
                          "paragraph")),
         ordinals' = CountedIn(ordinals, SectionParent),
         sections' = sections, footnotesSeen' = footnotesSeen
  PROVE  MarkdownDocument'
<1> DEFINE f == Last(frames)
           C == Range(candidates)
           F == Range(frames)
           p == SectionParent
           k == OrdinalIn(ordinals, p)
           node == [provisional |-> f.provisional, parent |-> p, kind |-> "paragraph", ordinal |-> k,
                    text |-> f.text, label |-> NoId, anchor |-> NoId]
<1>1. /\ frames # <<>> /\ Top \in {"paragraph"} /\ f.kind = KindAt(Top) /\ f \in F /\ IsFrame(f)
      /\ Popped = Front(frames) /\ opened' = Front(opened) /\ texts' = texts
      /\ nextProvisional' = nextProvisional /\ ingested' = FALSE
  <2>1. "document" \notin {"paragraph"}
    OBVIOUS
  <2> QED BY <2>1, ClosingBlock
<1>2. f.kind = "paragraph"
  BY <1>1 DEF KindAt
<1>3. candidates' = Append(candidates, node)
  <2>1. \A a : a = [kind |-> a.kind, text |-> a.text, provisional |-> a.provisional, parent |-> a.parent,
                     ordinal |-> a.ordinal, id |-> a.id, level |-> a.level, explicit |-> a.explicit]
               => FrameNode([a EXCEPT !.parent = p, !.ordinal = k], "paragraph")
                    = [provisional |-> a.provisional, parent |-> p, kind |-> "paragraph", ordinal |-> k,
                       text |-> a.text, label |-> NoId, anchor |-> NoId]
    <3> TAKE a
    <3> HAVE a = [kind |-> a.kind, text |-> a.text, provisional |-> a.provisional, parent |-> a.parent,
                  ordinal |-> a.ordinal, id |-> a.id, level |-> a.level, explicit |-> a.explicit]
    <3> HIDE DEF p, k
    <3> DEFINE b == [a EXCEPT !.parent = p]
    <3>1. b = [kind |-> a.kind, text |-> a.text, provisional |-> a.provisional, parent |-> p,
               ordinal |-> a.ordinal, id |-> a.id, level |-> a.level, explicit |-> a.explicit]
      OBVIOUS
    <3>2. [a EXCEPT !.parent = p, !.ordinal = k] = [b EXCEPT !.ordinal = k]
      OBVIOUS
    <3> HIDE DEF b
    <3>3. [b EXCEPT !.ordinal = k]
             = [kind |-> a.kind, text |-> a.text, provisional |-> a.provisional, parent |-> p,
                ordinal |-> k, id |-> a.id, level |-> a.level, explicit |-> a.explicit]
      BY <3>1
    <3> DEFINE c == [a EXCEPT !.parent = p, !.ordinal = k]
    <3>4. /\ c.provisional = a.provisional /\ c.parent = p /\ c.ordinal = k /\ c.text = a.text
      BY <3>2, <3>3
    <3> HIDE DEF c
    <3>5. FrameNode(c, "paragraph")
            = [provisional |-> a.provisional, parent |-> p, kind |-> "paragraph", ordinal |-> k,
               text |-> a.text, label |-> NoId, anchor |-> NoId]
      BY <3>4 DEF FrameNode, Node
    <3> QED BY <3>5 DEF c
  <2>2. f = [kind |-> f.kind, text |-> f.text, provisional |-> f.provisional, parent |-> f.parent,
             ordinal |-> f.ordinal, id |-> f.id, level |-> f.level, explicit |-> f.explicit]
    BY <1>1 DEF IsFrame
  <2> QED BY <2>1, <2>2
<1>4. /\ node.provisional = f.provisional /\ node.parent = ParentAfter(sections)
      /\ node.ordinal = OrdinalIn(ordinals, ParentAfter(sections))
      /\ node.text = f.text /\ node.label = NoId
  BY DEF SectionParent
<1> HIDE DEF node
<1>5. TreeOf(candidates, frames, ordinals, sections, nextProvisional)
  BY DEF MarkdownDocument, MarkdownTree
<1>6. /\ TreeOf(Append(candidates, node), Front(frames), CountedIn(ordinals, ParentAfter(sections)),
                sections, nextProvisional)
      /\ Range(Append(candidates, node)) = C \cup {node}
      /\ Range(Front(frames)) = Without(F, f.provisional)
  BY <1>1, <1>2, <1>4, <1>5, ParagraphClosed
<1>7. MarkdownTree' /\ Range(candidates') = C \cup {node} /\ Range(frames') = Without(F, f.provisional)
  BY <1>1, <1>3, <1>6 DEF MarkdownTree, SectionParent
<1>8. /\ \A x, y \in F : x.provisional = y.provisional => x = y
      /\ KeptOnce(C \cup F, {}, texts) /\ texts \in Nat /\ Labelled(C, F, footnotesSeen)
  BY FramesAreListed DEF MarkdownDocument, MarkdownKept
<1> HIDE DEF f, C, F
<1>9. KeptOnce((C \cup {node}) \cup Without(F, f.provisional), {}, texts)
  BY <1>1, <1>4, <1>8, KeptAsClosed
<1>10. Labelled(C \cup {node}, Without(F, f.provisional), footnotesSeen)
  BY <1>1, <1>4, <1>8, LabelledAsClosed
<1>11. MarkdownStack'
  BY <1>1, StackClosed
<1> QED BY <1>1, <1>7, <1>8, <1>9, <1>10, <1>11 DEF MarkdownDocument, MarkdownKept

\* The frame that absorbs a paragraph is open below it.
LEMMA AbsorberIsBelow ==
  ASSUME frames \in Seq(Range(frames)), frames # <<>>, Absorber # 0
  PROVE  Absorber \in 1..Len(frames) - 1 /\ frames[Absorber].kind \in Absorbers
<1> DEFINE S == {i \in 1..LastFrame - 1 : frames[i].kind \in Absorbers}
<1>1. Len(frames) \in Nat \ {0} /\ LastFrame = Len(frames)
  BY ListsHaveLength DEF LastFrame
<1>2. S \in SUBSET (0..Len(frames))
  BY <1>1
<1>3. S # {}
  BY DEF Absorber
<1>4. \E i \in S : \A j \in S : j <= i
  BY <1>1, <1>2, <1>3, GreatestIndex
<1>5. Absorber = CHOOSE i \in S : \A j \in S : j <= i
  BY <1>3 DEF Absorber
<1> HIDE DEF S
<1>6. Absorber \in S
  BY <1>4, <1>5
<1> QED BY <1>1, <1>6 DEF S

\* EndParagraph gives the text to the frame that absorbs it and drops its own.
LEMMA ParagraphAbsorbed ==
  ASSUME MarkdownDocument, EndParagraph, Absorber # 0
  PROVE  MarkdownDocument'
<1>0. /\ Closes({"paragraph"})
      /\ frames' = [Popped EXCEPT ![Absorber].text = Absorbed(@)]
      /\ UNCHANGED <<candidates, ordinals, sections, footnotesSeen>>
  BY DEF EndParagraph
<1> DEFINE f == Last(frames)
           C == Range(candidates)
           F == Range(frames)
           rest == Front(frames)
           G == Range(rest)
           k == Absorber
           h == rest[k]
           text == h.text \o f.text
<1>1. /\ frames # <<>> /\ Top \in {"paragraph"} /\ f.kind = KindAt(Top) /\ f \in F /\ IsFrame(f)
      /\ Popped = rest /\ opened' = Front(opened) /\ texts' = texts
      /\ nextProvisional' = nextProvisional /\ ingested' = FALSE
  <2>1. "document" \notin {"paragraph"}
    OBVIOUS
  <2> QED BY <1>0, <2>1, ClosingBlock
<1>2. f.kind = "paragraph" /\ f.kind \in BareKinds
  BY <1>1 DEF KindAt, BareKinds
<1>3. TreeOf(candidates, frames, ordinals, sections, nextProvisional)
  BY DEF MarkdownDocument, MarkdownTree
<1>4. /\ TreeOf(candidates, rest, ordinals, sections, nextProvisional)
      /\ G = Without(F, f.provisional)
  BY <1>1, <1>2, <1>3, FrameDropped
<1>5. frames \in Seq(F)
  BY FramesAreListed DEF MarkdownDocument
<1>6. k \in 1..Len(frames) - 1 /\ frames[k].kind \in Absorbers
  BY <1>1, <1>5, AbsorberIsBelow
<1>7. /\ Len(rest) = Len(frames) - 1 /\ DOMAIN rest = 1..Len(frames) - 1
      /\ \A i \in 1..Len(frames) - 1 : rest[i] = frames[i]
  BY <1>1, <1>5, FrontList
<1>8. /\ k \in DOMAIN rest /\ h = frames[k] /\ h.kind # "transparent" /\ h \in G
  BY <1>6, <1>7 DEF Absorbers, Range
<1>9. h \in F /\ h.provisional # f.provisional /\ IsFrame(h)
  BY <1>4, <1>8, FramesAreListed DEF Without, MarkdownDocument
<1>10. f.text \in Seq(Nat) /\ h.text \in Seq(Nat) /\ text \in Seq(Nat)
  BY <1>1, <1>9, ConcatProperties DEF IsFrame
<1>11. frames' = [rest EXCEPT ![k] = [rest[k] EXCEPT !.text = text]]
  BY <1>0, <1>1 DEF Absorbed
<1>12. Rewritten(frames', rest, k, text)
  BY <1>11 DEF Rewritten
<1> HIDE DEF k, text, rest
<1>13. rest[k].kind # "transparent" /\ k \in DOMAIN rest /\ text \in Seq(Nat)
  BY <1>8, <1>10
<1> HIDE DEF h
<1>14. /\ TreeOf(candidates, frames', ordinals, sections, nextProvisional)
       /\ \E g : /\ Range(frames') = Without(Range(rest), rest[k].provisional) \cup {g}
                 /\ g.provisional = rest[k].provisional /\ g.text = text /\ g.kind = rest[k].kind
                 /\ g.id = rest[k].id /\ g.level = rest[k].level
       /\ Len(frames') = Len(rest) /\ \A i \in DOMAIN rest : frames'[i].kind = rest[i].kind
  <2>1. TreeOf(candidates, rest, ordinals, sections, nextProvisional)
    BY <1>4
  <2>2. /\ k \in DOMAIN rest /\ rest[k].kind # "transparent" /\ text \in Seq(Nat)
        /\ Rewritten(frames', rest, k, text)
    BY <1>12, <1>13
  <2> HIDE DEF f, C, F, G
  <2>3. rest[k] \in Range(rest) /\ DOMAIN frames' = DOMAIN rest
    BY <2>1, <2>2, FrameRewritten
  <2>4. TreeOf(candidates, frames', ordinals, sections, nextProvisional)
    BY <2>1, <2>2, FrameRewritten
  <2> QED BY <2>1, <2>2, FrameRewritten
<1>15. PICK g : /\ Range(frames') = Without(G, h.provisional) \cup {g}
                /\ g.provisional = h.provisional /\ g.text = text /\ g.kind = h.kind
                /\ g.id = h.id /\ g.level = h.level
  BY <1>14 DEF h
<1>16. /\ \A x, y \in F : x.provisional = y.provisional => x = y
       /\ \A x \in C, y \in F : x.provisional # y.provisional
       /\ KeptOnce(C \cup F, {}, texts) /\ texts \in Nat /\ Labelled(C, F, footnotesSeen)
  BY FramesAreListed DEF MarkdownDocument, MarkdownKept
<1>17. g.text = h.text \o f.text
  BY <1>15 DEF text
<1>18. MarkdownStack'
  <2>1. frames' \in Seq(Range(frames'))
    BY <1>14 DEF TreeOf, Distinct
  <2>2. Len(frames') = Len(frames) - 1
    BY <1>7, <1>14
  <2>3. \A i \in 1..Len(frames) - 1 : frames'[i].kind = frames[i].kind
    BY <1>7, <1>14
  <2> QED BY <1>1, <1>5, <2>1, <2>2, <2>3, StackPopped DEF MarkdownDocument
<1>19. MarkdownTree' /\ Range(candidates)' = C
  BY <1>0, <1>1, <1>14 DEF MarkdownTree
<1> HIDE DEF f, C, F, G
<1>20. KeptOnce(C \cup (Without(G, h.provisional) \cup {g}), {}, texts)
  BY <1>1, <1>4, <1>9, <1>10, <1>15, <1>16, <1>17, KeptAsAbsorbed
<1>21. MarkdownKept'
  <2>1. KeptOnce(Range(candidates)' \cup Range(frames)', {}, texts')
    BY <1>1, <1>15, <1>19, <1>20
  <2> QED BY <1>1, <1>16, <2>1 DEF MarkdownKept
<1>22. Labelled(C, Range(frames'), footnotesSeen)
  <2>1. G \subseteq F /\ Without(G, h.provisional) \cup {g} \subseteq G \cup {g}
    BY <1>4 DEF Without
  <2>2. Labelled(C, G, footnotesSeen)
    BY <1>16, <2>1, LabelledAsDropped
  <2> QED BY <1>8, <1>15, <2>1, <2>2, LabelledAsRewritten DEF h, G
<1> QED BY <1>0, <1>1, <1>18, <1>19, <1>21, <1>22 DEF MarkdownDocument

\* EndParagraph, with a frame that absorbs and without.
LEMMA ParagraphEnded ==
  ASSUME MarkdownDocument, EndParagraph PROVE MarkdownDocument'
BY ParagraphAbsorbed, ParagraphEmitted DEF EndParagraph

\* Lossy input and the end of the document move no node.
LEMMA NothingClosed ==
  ASSUME MarkdownDocument, Lossy \/ EndOfDocument PROVE MarkdownDocument'
<1>1. /\ UNCHANGED <<opened, texts, frames, sections, candidates, ordinals, footnotesSeen, nextProvisional>>
      /\ ingested' = ingested \/ opened = <<>>
  BY DEF Lossy, EndOfDocument
<1>2. opened = <<>> => frames = <<>>
  BY InnermostBlock, FramesAreListed DEF MarkdownDocument
<1>3. ingested' => frames = <<>>
  BY <1>1, <1>2 DEF MarkdownDocument
<1>4. MarkdownTree' /\ MarkdownKept'
  BY <1>1 DEF MarkdownDocument, MarkdownTree, MarkdownKept
<1>5. MarkdownStack'
  BY <1>1 DEF MarkdownDocument, MarkdownStack
<1> QED BY <1>1, <1>3, <1>4, <1>5 DEF MarkdownDocument

\* Every step of the Markdown adapter keeps its invariant.
LEMMA MarkdownInvNext == MarkdownInv /\ MarkdownNext => MarkdownInv'
<1> SUFFICES ASSUME MarkdownInv, MarkdownNext, Repeated' = {} PROVE MarkdownDocument'
  BY DEF MarkdownInv
<1>1. Repeated = {}
  <2>1. diagnostics \subseteq diagnostics' \/ diagnostics = {}
    BY DEF MarkdownNext, StartHeading, StartBare, StartNode, StartFootnote, Text, Lossy, EndHeading,
           ClaimAnchor, EndParagraph, EndNode, EndList, EndFootnote, EndOfDocument
  <2> QED BY <2>1 DEF Repeated
<1>2. MarkdownDocument
  BY <1>1 DEF MarkdownInv
<1>3. CASE StartHeading
  BY <1>2, <1>3, HeadingOpened
<1>4. CASE StartBare
  BY <1>2, <1>4, BareOpened
<1>5. CASE StartNode
  BY <1>2, <1>5, NodeStarted
<1>6. CASE StartFootnote
  BY <1>2, <1>6, FootnoteStarted
<1>7. CASE Text
  BY <1>2, <1>7, TextRead
<1>8. CASE Lossy \/ EndOfDocument
  BY <1>2, <1>8, NothingClosed
<1>9. CASE EndHeading
  BY <1>2, <1>9, HeadingClosed
<1>10. CASE EndParagraph
  BY <1>2, <1>10, ParagraphEnded
<1>11. CASE EndNode
  BY <1>2, <1>11, BlockNodeClosed
<1>12. CASE EndList
  BY <1>2, <1>12, ListClosed
<1>13. CASE EndFootnote
  BY <1>2, <1>13, FootnoteClosed
<1> QED BY <1>3, <1>4, <1>5, <1>6, <1>7, <1>8, <1>9, <1>10, <1>11, <1>12, <1>13 DEF MarkdownNext

\* A Markdown document begins without blocks or nodes.
LEMMA MarkdownInvInit == AdapterInit /\ opened = <<>> /\ MarkdownIdle => MarkdownInv
<1> SUFFICES ASSUME AdapterInit, opened = <<>>, MarkdownIdle PROVE MarkdownDocument
  BY DEF MarkdownInv
<1>1. /\ texts = 0 /\ sections = <<>> /\ candidates = <<>> /\ ordinals = [p \in {} |-> 0]
      /\ nextProvisional = 0 /\ ingested = FALSE /\ frames = <<>> /\ footnotesSeen = {}
  BY DEF AdapterInit, MarkdownIdle
<1>2. /\ Distinct(candidates) /\ Distinct(frames) /\ Range(candidates) = {} /\ Range(frames) = {}
  BY <1>1, EmptyIsDistinct
<1>3. MarkdownSites({}, {}) = {}
  BY DEF MarkdownSites
<1>4. MarkdownTree
  BY <1>1, <1>2, <1>3, NothingIsPlanted, NoSectionsOpen DEF MarkdownTree, TreeOf
<1>5. MarkdownKept
  BY <1>1, <1>2, NothingIsKept DEF MarkdownKept
<1>6. MarkdownStack
  BY <1>1 DEF MarkdownStack
<1>7. Labelled({}, {}, footnotesSeen)
  BY DEF Labelled
<1> QED BY <1>1, <1>2, <1>4, <1>5, <1>6, <1>7 DEF MarkdownDocument

\* What the Markdown invariant says of a document that has been ingested.
LEMMA MarkdownInvIsEnough == MarkdownInv => MarkdownTextIsKept /\ MarkdownGraphIsValid
<1> SUFFICES ASSUME MarkdownInv, Repeated = {}
             PROVE  /\ \A t \in 1..texts : TimesIn(t, candidates) + TimesIn(t, frames) = 1
                    /\ ingested => GraphIsValid
  BY DEF MarkdownTextIsKept, MarkdownGraphIsValid
<1> DEFINE C == Range(candidates)
           F == Range(frames)
<1>1. MarkdownDocument
  BY DEF MarkdownInv
<1>2. /\ Distinct(candidates) /\ Distinct(frames) /\ KeptOnce(C \cup F, {}, texts)
      /\ \A x \in C, y \in F : x.provisional # y.provisional
  BY <1>1, FramesAreListed DEF MarkdownDocument, MarkdownKept
<1>3. ASSUME NEW t \in 1..texts
      PROVE  TimesIn(t, candidates) + TimesIn(t, frames) = 1
  <2>1. /\ TimesIn(t, candidates) = IF \E x \in C : \E j \in DOMAIN x.text : x.text[j] = t THEN 1 ELSE 0
        /\ TimesIn(t, frames) = IF \E x \in F : \E j \in DOMAIN x.text : x.text[j] = t THEN 1 ELSE 0
    <3>1. C \subseteq C \cup F /\ F \subseteq C \cup F
      OBVIOUS
    <3> QED BY <1>2, <3>1, TimesInPart
  <2>2. \E x \in C \cup F : \E j \in DOMAIN x.text : x.text[j] = t
    BY <1>2 DEF KeptOnce
  <2>3. ~(/\ \E x \in C : \E j \in DOMAIN x.text : x.text[j] = t
          /\ \E x \in F : \E j \in DOMAIN x.text : x.text[j] = t)
    BY <1>2 DEF KeptOnce
  <2> QED BY <2>1, <2>2, <2>3
<1>4. ASSUME ingested
      PROVE  GraphIsValid
  <2>1. frames = <<>> /\ F = {}
    BY <1>1, <1>4, EmptyIsDistinct DEF MarkdownDocument
  <2>2. MarkdownSites(C, {}) = Sites(C)
    BY DEF MarkdownSites, Sites
  <2>3. Planted(Sites(C), ordinals)
    BY <1>1, <2>1, <2>2 DEF MarkdownDocument, MarkdownTree, TreeOf
  <2>4. SourceGraph!Valid(CandidateGraph)
    BY <1>2, <2>3, ValidFromSites
  <2>5. /\ \A c \in C : c.label = NoId \/ NamedAsHeading(c) \/ c.kind = "note"
        /\ \A c, d \in C : c.kind = "note" /\ d.kind = "note" /\ c.label = d.label /\ c.label # NoId
                              => c.provisional = d.provisional
    BY <1>1 DEF MarkdownDocument, Labelled
  <2>6. C \subseteq C \cup F
    OBVIOUS
  <2>7. SourceGraph!LabelsUnique(CandidateGraph)
    BY <1>2, <2>5, <2>6, LabelsFromTexts
  <2> QED BY <2>4, <2>7 DEF GraphIsValid
<1> QED BY <1>3, <1>4

=============================================================================
