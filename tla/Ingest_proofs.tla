--------------------------- MODULE Ingest_proofs ---------------------------
(***************************************************************************)
(* Proofs about the adapters, second part: the HTML adapter, which emits a *)
(* note only when its element closes and lends one buffer of text to every *)
(* element, and the three adapters together, for every set of layouts,     *)
(* spans and heading levels and without a bound on the document that the   *)
(* proof relies on.                                                        *)
(***************************************************************************)
EXTENDS TextIngest_proofs

-----------------------------------------------------------------------------
(* HTML: what is emitted.                                                  *)

Out(c, counts, n, w) == [candidates |-> c, ordinals |-> counts, next |-> n, notes |-> w]

IsCandidate(x) ==
    /\ x = [provisional |-> x.provisional, parent |-> x.parent, kind |-> x.kind, ordinal |-> x.ordinal,
            text |-> x.text, label |-> x.label, anchor |-> x.anchor]
    /\ x.text \in Seq(Nat)
    /\ x.label = NoId \/ NamedAsHeading(x)

IsNote(x) ==
    /\ x = [provisional |-> x.provisional, parent |-> x.parent, ordinal |-> x.ordinal, text |-> x.text]
    /\ x.text \in Seq(Nat)

NoteSite(x) == Place(x.provisional, x.parent, "note", x.ordinal)

\* An open note has its place.
HtmlSites(C, W) == Sites(C) \cup {NoteSite(x) : x \in W}

Buffer(text) == [provisional |-> 0, text |-> text]

HtmlTexts(C, W, text) == C \cup W \cup {Buffer(text)}

\* The output and the buffer, of the first n runs of text without those lost.
Standing(o, text, lost, n) ==
    /\ o = Out(o.candidates, o.ordinals, o.next, o.notes)
    /\ Distinct(o.candidates) /\ Distinct(o.notes) /\ o.next \in Nat
    /\ \A x \in Range(o.candidates) : IsCandidate(x) /\ x.provisional \in 1..o.next
    /\ \A x \in Range(o.notes) : IsNote(x) /\ x.provisional \in 1..o.next
    /\ \A x \in Range(o.candidates), y \in Range(o.notes) : x.provisional # y.provisional
    /\ Planted(HtmlSites(Range(o.candidates), Range(o.notes)), o.ordinals)
    /\ text \in Seq(Nat)
    /\ KeptOnce(HtmlTexts(Range(o.candidates), Range(o.notes), text), lost, n)

\* Every node of C is still there.
Grown(C, D) == \A x \in C : \E y \in D : y.provisional = x.provisional /\ y.kind = x.kind

\* The parts of an output.
LEMMA OutFields ==
  ASSUME NEW c, NEW counts, NEW n, NEW w
  PROVE  /\ Out(c, counts, n, w).candidates = c /\ Out(c, counts, n, w).ordinals = counts
         /\ Out(c, counts, n, w).next = n /\ Out(c, counts, n, w).notes = w
         /\ Out(c, counts, n, w) = Out(Out(c, counts, n, w).candidates, Out(c, counts, n, w).ordinals,
                                       Out(c, counts, n, w).next, Out(c, counts, n, w).notes)
BY DEF Out

\* Nodes have places, and so have the open notes.
LEMMA HtmlSitesAre ==
  ASSUME NEW C, NEW W, NEW a
  PROVE  /\ a \in HtmlSites(C, W) <=> \/ \E x \in C : a = SiteOf(x)
                                      \/ \E x \in W : a = NoteSite(x)
         /\ \A x : /\ NoteSite(x).id = x.provisional /\ NoteSite(x).parent = x.parent
                   /\ NoteSite(x).kind = "note" /\ NoteSite(x).ordinal = x.ordinal
BY SitesOf DEF HtmlSites, NoteSite, Place

\* Text is in nodes, in open notes and in the buffer.
LEMMA HtmlTextsAre ==
  ASSUME NEW C, NEW W, NEW text, NEW x
  PROVE  /\ x \in HtmlTexts(C, W, text) <=> x \in C \/ x \in W \/ x = Buffer(text)
         /\ Buffer(text).provisional = 0 /\ Buffer(text).text = text
BY DEF HtmlTexts, Buffer

\* Every place has an id that was given.
LEMMA StandingIds ==
  ASSUME NEW o, NEW text, NEW lost, NEW n, Standing(o, text, lost, n)
  PROVE  \A a \in HtmlSites(Range(o.candidates), Range(o.notes)) : a.id \in 1..o.next
<1> TAKE a \in HtmlSites(Range(o.candidates), Range(o.notes))
<1>1. CASE \E x \in Range(o.candidates) : a = SiteOf(x)
  BY <1>1, SitesOf DEF Standing
<1>2. CASE \E x \in Range(o.notes) : a = NoteSite(x)
  BY <1>2, HtmlSitesAre DEF Standing
<1> QED BY <1>1, <1>2, HtmlSitesAre

\* Emitting appends a node and counts it below its parent.
LEMMA EmitIs ==
  ASSUME NEW o, o = Out(o.candidates, o.ordinals, o.next, o.notes), NEW parent, NEW kind, NEW text
  PROVE  Emit(o, parent, kind, text)
            = Out(Append(o.candidates, Node(o.next + 1, parent, kind, OrdinalIn(o.ordinals, parent), text)),
                  CountedIn(o.ordinals, parent), o.next + 1, o.notes)
<1> DEFINE c == Append(o.candidates, Node(o.next + 1, parent, kind, OrdinalIn(o.ordinals, parent), text))
           counts == CountedIn(o.ordinals, parent)
           next == o.next + 1
           a == [o EXCEPT !.candidates = c]
           b == [a EXCEPT !.ordinals = counts]
<1>1. Emit(o, parent, kind, text) = [o EXCEPT !.candidates = c, !.ordinals = counts, !.next = next]
  BY DEF Emit
<1> HIDE DEF c, counts, next
<1>2. [o EXCEPT !.candidates = c, !.ordinals = counts, !.next = next] = [b EXCEPT !.next = next]
  BY DEF Out
<1>3. a = Out(c, o.ordinals, o.next, o.notes)
  BY DEF Out
<1> HIDE DEF a
<1>4. b = Out(c, counts, o.next, o.notes)
  BY <1>3 DEF Out
<1> HIDE DEF b
<1>5. [b EXCEPT !.next = next] = Out(c, counts, next, o.notes)
  BY <1>4 DEF Out
<1> QED BY <1>1, <1>2, <1>5 DEF c, counts, next

\* A new node without text, or with that of the buffer.
LEMMA NodeAdded ==
  ASSUME NEW o, NEW text, NEW lost, NEW n, Standing(o, text, lost, n),
         NEW e, IsCandidate(e), e.provisional = o.next + 1, e.parent \in 0..o.next,
         e.ordinal = OrdinalIn(o.ordinals, e.parent),
         MayBear(HtmlSites(Range(o.candidates), Range(o.notes)), e.parent, e.kind),
         NEW rest,
         \/ e.text = <<>> /\ rest = text
         \/ e.text = text /\ rest = <<>>,
         NEW p, p = Out(Append(o.candidates, e), CountedIn(o.ordinals, e.parent), o.next + 1, o.notes)
  PROVE  /\ Standing(p, rest, lost, n)
         /\ Range(p.candidates) = Range(o.candidates) \cup {e}
         /\ p.notes = o.notes /\ p.next = o.next + 1
<1> DEFINE C == Range(o.candidates)
           W == Range(o.notes)
           next == o.next
<1>1. /\ p.candidates = Append(o.candidates, e) /\ p.ordinals = CountedIn(o.ordinals, e.parent)
      /\ p.next = next + 1 /\ p.notes = o.notes /\ p = Out(p.candidates, p.ordinals, p.next, p.notes)
  <2> DEFINE c2 == Append(o.candidates, e)
             k2 == CountedIn(o.ordinals, e.parent)
             n2 == next + 1
             w2 == o.notes
  <2>1. p = Out(c2, k2, n2, w2)
    OBVIOUS
  <2> HIDE DEF c2, k2, n2, w2
  <2>2. /\ p.candidates = c2 /\ p.ordinals = k2 /\ p.next = n2 /\ p.notes = w2
        /\ p = Out(p.candidates, p.ordinals, p.next, p.notes)
    BY <2>1, OutFields
  <2> QED BY <2>2 DEF c2, k2, n2, w2
<1>2. /\ Distinct(o.candidates) /\ Distinct(o.notes) /\ next \in Nat
      /\ \A x \in C : IsCandidate(x) /\ x.provisional \in 1..next
      /\ \A x \in W : IsNote(x) /\ x.provisional \in 1..next
      /\ \A x \in C, y \in W : x.provisional # y.provisional
      /\ Planted(HtmlSites(C, W), o.ordinals)
      /\ text \in Seq(Nat)
      /\ KeptOnce(HtmlTexts(C, W, text), lost, n)
  BY DEF Standing
<1>3. Distinct(p.candidates) /\ Range(p.candidates) = C \cup {e}
  <2>1. \A x \in C : x.provisional # e.provisional
    BY <1>2
  <2>2. /\ Distinct(Append(o.candidates, e))
        /\ Range(Append(o.candidates, e)) = Range(o.candidates) \cup {e}
    BY <1>2, <2>1, DistinctAppend
  <2> QED BY <1>1, <2>2
<1>4. Planted(HtmlSites(C \cup {e}, W), p.ordinals)
  <2>1. \A a : a \in HtmlSites(C \cup {e}, W) <=> a \in HtmlSites(C, W) \/ a = SiteOf(e)
    BY HtmlSitesAre
  <2>2. \A a \in HtmlSites(C, W) : a.id \in 0..next
    BY <1>2, StandingIds
  <2> HIDE DEF C, W, next
  <2>3. e.provisional = next + 1 /\ e.parent \in 0..next /\ MayBear(HtmlSites(C, W), e.parent, e.kind)
    BY DEF C, W, next
  <2> QED BY <1>1, <1>2, <2>1, <2>2, <2>3, SiteAdded
<1>5. rest \in Seq(Nat) /\ KeptOnce(HtmlTexts(C \cup {e}, W, rest), lost, n)
  <2> DEFINE X == HtmlTexts(C, W, text)
             Y == HtmlTexts(C \cup {e}, W, rest)
             id == e.provisional
  <2>1. /\ \A x : x \in X <=> x \in C \/ x \in W \/ x = Buffer(text)
        /\ \A x : x \in Y <=> x \in C \/ x = e \/ x \in W \/ x = Buffer(rest)
    BY HtmlTextsAre
  <2>2. \A a : Buffer(a).provisional = 0 /\ Buffer(a).text = a
    BY HtmlTextsAre
  <2>3. /\ id # 0 /\ \A x \in C \cup W : x.provisional # id /\ x.provisional # 0
    BY <1>2
  <2> HIDE DEF C, W, X, Y, id
  <2>4. CASE e.text = <<>> /\ rest = text
    <3>1. SameTexts(X, Y, {})
      BY <2>1, <2>4 DEF SameTexts, HasTextOf
    <3> QED BY <1>2, <2>4, <3>1, KeptInTheSame DEF X, Y
  <2>5. CASE e.text = text /\ rest = <<>>
    <3>1. SameTexts(X, Y, {id, 0})
      BY <2>1, <2>2 DEF SameTexts, HasTextOf, id
    <3>2. Reads(X, id, <<>>) /\ Reads(X, 0, text)
      BY <2>1, <2>2, <2>3 DEF Reads
    <3>3. Reads(Y, id, text) /\ Reads(Y, 0, <<>>)
      BY <2>1, <2>2, <2>3, <2>5 DEF Reads, id
    <3>4. <<>> \o text = text /\ <<>> \in Seq(Nat)
      BY <1>2
    <3>5. Reads(Y, id, <<>> \o text)
      BY <3>3, <3>4
    <3>6. KeptOnce(X, lost, n) /\ text \in Seq(Nat)
      BY <1>2 DEF X
    <3>7. KeptOnce(Y, lost, n)
      BY <2>3, <3>1, <3>2, <3>3, <3>4, <3>5, <3>6, KeptAsJoined
    <3> QED BY <2>5, <3>4, <3>7 DEF Y
  <2> QED BY <2>4, <2>5
<1>6. /\ \A x \in C \cup {e} : IsCandidate(x) /\ x.provisional \in 1..next + 1
      /\ \A x \in W : IsNote(x) /\ x.provisional \in 1..next + 1
      /\ \A x \in C \cup {e}, y \in W : x.provisional # y.provisional
      /\ next + 1 \in Nat
  BY <1>2
<1> HIDE DEF C
<1>7. Standing(p, rest, lost, n)
  BY <1>1, <1>2, <1>3, <1>4, <1>5, <1>6 DEF Standing
<1> QED BY <1>1, <1>3, <1>7 DEF C

EmptyCell(o, row, i) ==
    Node(o.next + i, row, "table_cell", OrdinalIn(o.ordinals, row) + i - 1, <<>>)

\* The empty cells of a row are emitted one after another.
LEMMA EmptyCellsAre ==
  ASSUME NEW o, o = Out(o.candidates, o.ordinals, o.next, o.notes), NEW row, NEW n
  PROVE  EmptyCells(o, row, n)
            = Out(o.candidates \o [i \in 1..n |-> EmptyCell(o, row, i)],
                  CountedBy(o.ordinals, row, n), o.next + n, o.notes)
<1> DEFINE c == o.candidates \o [i \in 1..n |-> EmptyCell(o, row, i)]
           counts == CountedBy(o.ordinals, row, n)
           next == o.next + n
           a == [o EXCEPT !.candidates = c]
           b == [a EXCEPT !.ordinals = counts]
<1>1. EmptyCells(o, row, n) = [o EXCEPT !.candidates = c, !.ordinals = counts, !.next = next]
  BY DEF EmptyCells, EmptyCell
<1> HIDE DEF c, counts, next
<1>2. [o EXCEPT !.candidates = c, !.ordinals = counts, !.next = next] = [b EXCEPT !.next = next]
  BY DEF Out
<1>3. a = Out(c, o.ordinals, o.next, o.notes)
  BY DEF Out
<1> HIDE DEF a
<1>4. b = Out(c, counts, o.next, o.notes)
  BY <1>3 DEF Out
<1> HIDE DEF b
<1>5. [b EXCEPT !.next = next] = Out(c, counts, next, o.notes)
  BY <1>4 DEF Out
<1> QED BY <1>1, <1>2, <1>5 DEF c, counts, next

IsRow(row, C) == \E x \in C : x.provisional = row /\ x.kind = "table_row"

\* n cells without text more in a row.
LEMMA CellsAdded ==
  ASSUME NEW o, NEW text, NEW lost, NEW n, Standing(o, text, lost, n),
         NEW row, IsRow(row, Range(o.candidates)),
         NEW m \in Nat, NEW p, p = EmptyCells(o, row, m)
  PROVE  /\ Standing(p, text, lost, n)
         /\ Grown(Range(o.candidates), Range(p.candidates))
         /\ p.notes = o.notes
<1> DEFINE C == Range(o.candidates)
           W == Range(o.notes)
           next == o.next
           f == [i \in 1..m |-> EmptyCell(o, row, i)]
           k == OrdinalIn(o.ordinals, row)
           D == Range(o.candidates \o f)
<1>2. /\ Distinct(o.candidates) /\ Distinct(o.notes) /\ next \in Nat
      /\ \A x \in C : IsCandidate(x) /\ x.provisional \in 1..next
      /\ \A x \in W : IsNote(x) /\ x.provisional \in 1..next
      /\ \A x \in C, y \in W : x.provisional # y.provisional
      /\ Planted(HtmlSites(C, W), o.ordinals)
      /\ text \in Seq(Nat)
      /\ KeptOnce(HtmlTexts(C, W, text), lost, n)
      /\ o = Out(o.candidates, o.ordinals, o.next, o.notes)
  BY DEF Standing
<1>1. /\ p.candidates = o.candidates \o f /\ p.ordinals = CountedBy(o.ordinals, row, m)
      /\ p.next = next + m /\ p.notes = o.notes /\ p = Out(p.candidates, p.ordinals, p.next, p.notes)
  <2> DEFINE c2 == o.candidates \o f
             k2 == CountedBy(o.ordinals, row, m)
             n2 == next + m
             w2 == o.notes
  <2>1. p = Out(c2, k2, n2, w2)
    BY <1>2, EmptyCellsAre
  <2> HIDE DEF c2, k2, n2, w2
  <2>2. /\ p.candidates = c2 /\ p.ordinals = k2 /\ p.next = n2 /\ p.notes = w2
        /\ p = Out(p.candidates, p.ordinals, p.next, p.notes)
    BY <2>1, OutFields
  <2> QED BY <2>2 DEF c2, k2, n2, w2
<1>3. /\ Listed(f, m)
      /\ \A i \in 1..m : f[i] = EmptyCell(o, row, i)
  BY DEF Listed
<1>4. \A i \in 1..m : /\ f[i].provisional = next + i /\ f[i].text = <<>> /\ f[i].label = NoId
                      /\ f[i].parent = row /\ f[i].kind = "table_cell" /\ f[i].ordinal = k + i - 1
  BY <1>3 DEF EmptyCell, Node
<1>14. \A i \in 1..m : f[i] = [provisional |-> f[i].provisional, parent |-> f[i].parent,
                            kind |-> f[i].kind, ordinal |-> f[i].ordinal, text |-> f[i].text,
                            label |-> f[i].label, anchor |-> f[i].anchor]
  BY <1>3 DEF EmptyCell, Node
<1> HIDE DEF f, next, k
<1>5. \A i \in 1..m : /\ IsCandidate(f[i]) /\ f[i].provisional \in 1..next + m
                      /\ f[i].provisional > next
                      /\ SiteOf(f[i]) = Place(next + i, row, "table_cell", k + i - 1)
  <2> TAKE i \in 1..m
  <2> DEFINE e == f[i]
  <2>0. /\ e = [provisional |-> e.provisional, parent |-> e.parent, kind |-> e.kind,
                 ordinal |-> e.ordinal, text |-> e.text, label |-> e.label, anchor |-> e.anchor]
        /\ e.provisional = next + i /\ e.text = <<>> /\ e.label = NoId
    BY <1>4, <1>14
  <2> HIDE DEF e
  <2>1. IsCandidate(e)
    <3>1. e.text \in Seq(Nat)
      BY <2>0, EmptySeq
    <3> QED BY <2>0, <3>1, Zenon DEF IsCandidate
  <2>2. f[i].provisional \in 1..next + m /\ f[i].provisional > next
    BY <1>2, <1>4
  <2>3. SiteOf(f[i]) = Place(next + i, row, "table_cell", k + i - 1)
    BY <1>4 DEF SiteOf
  <2> QED BY <2>1, <2>2, <2>3 DEF e
<1>6. /\ \A i, j \in 1..m : f[i].provisional = f[j].provisional => i = j
      /\ \A x \in C, i \in 1..m : x.provisional # f[i].provisional
      /\ \A x \in W, i \in 1..m : x.provisional # f[i].provisional
  <2>1. \A i, j \in 1..m : f[i].provisional = f[j].provisional => i = j
    <3>1. \A i, j \in 1..m : next + i = next + j => i = j
      BY <1>2
    <3> QED BY <1>4, <3>1
  <2>2. \A x \in C \cup W, i \in 1..m : x.provisional # f[i].provisional
    BY <1>2, <1>5
  <2> QED BY <2>1, <2>2
<1>7. /\ Distinct(o.candidates \o f)
      /\ \A x : x \in D <=> x \in C \/ \E i \in 1..m : x = f[i]
  <2> HIDE DEF C
  <2>1. /\ Distinct(o.candidates) /\ Listed(f, m)
        /\ \A i, j \in 1..m : f[i].provisional = f[j].provisional => i = j
        /\ \A x \in Range(o.candidates), i \in 1..m : x.provisional # f[i].provisional
    BY <1>2, <1>3, <1>6 DEF C
  <2>2. /\ Distinct(o.candidates \o f)
        /\ \A x : x \in Range(o.candidates \o f)
                    <=> x \in Range(o.candidates) \/ \E i \in 1..m : x = f[i]
    BY <2>1, DistinctConcat
  <2> QED BY <2>2 DEF C
<1>8. PICK x \in C : x.provisional = row /\ x.kind = "table_row"
  BY DEF IsRow
<1> HIDE DEF C, W, D
<1>9. Planted(HtmlSites(D, W), CountedBy(o.ordinals, row, m))
  <2> DEFINE R == HtmlSites(C, W)
             V == HtmlSites(D, W)
  <2>1. \A a : a \in V <=> a \in R \/ \E i \in 1..m : a = Place(next + i, row, "table_cell", k + i - 1)
    <3> TAKE a
    <3>1. (\E y \in D : a = SiteOf(y))
            <=> (\E y \in C : a = SiteOf(y))
                    \/ \E i \in 1..m : a = Place(next + i, row, "table_cell", k + i - 1)
      BY <1>5, <1>7
    <3> QED BY <3>1, HtmlSitesAre
  <2>2. \A a \in R : a.id \in 1..next
    BY StandingIds DEF C, W, next
  <2>3. \A a \in R : \A i \in 1..m : a.id # next + i
    BY <1>2, <2>2
  <2>4. row \in Nat /\ row <= next
    BY <1>2, <1>8
  <2>5. MayBear(R, row, "table_cell")
    <3>1. SiteOf(x) \in R /\ SiteOf(x).id = row /\ SiteOf(x).kind = "table_row"
      BY <1>8, HtmlSitesAre, SitesOf
    <3>2. SourceGraph!MayParent("table_row", "table_cell")
      BY DEF SourceGraph!MayParent
    <3> QED BY <3>1, <3>2 DEF MayBear
  <2> HIDE DEF R, V
  <2>6. Planted(R, o.ordinals)
    BY <1>2 DEF R
  <2>7. PlantedRow(V, R, next, m, row, "table_cell", OrdinalIn(o.ordinals, row))
    BY <2>1 DEF PlantedRow, k
  <2>8. next \in Nat
    BY <1>2
  <2>9. Planted(V, CountedBy(o.ordinals, row, m))
    BY <2>3, <2>4, <2>5, <2>6, <2>7, <2>8, PlantMany
  <2> QED BY <2>9 DEF V
<1>10. KeptOnce(HtmlTexts(D, W, text), lost, n)
  <2> DEFINE X == HtmlTexts(C, W, text)
             Y == HtmlTexts(D, W, text)
  <2>1. \A y : y \in Y <=> y \in X \/ \E i \in 1..m : y = f[i]
    BY <1>7, HtmlTextsAre
  <2> HIDE DEF X, Y
  <2>2. SameTexts(X, Y, {})
    BY <1>4, <2>1 DEF SameTexts, HasTextOf
  <2>3. KeptOnce(X, lost, n)
    BY <1>2 DEF X
  <2>4. KeptOnce(Y, lost, n)
    BY <2>2, <2>3, KeptInTheSame
  <2> QED BY <2>4 DEF Y
<1>11. /\ \A y \in D : IsCandidate(y) /\ y.provisional \in 1..next + m
       /\ \A y \in W : IsNote(y) /\ y.provisional \in 1..next + m
       /\ \A y \in D, z \in W : y.provisional # z.provisional
       /\ next + m \in Nat
  <2>1. \A i \in 1..next : i \in 1..next + m
    BY <1>2
  <2>2. \A y \in D : IsCandidate(y) /\ y.provisional \in 1..next + m
    <3>1. \A y \in C : IsCandidate(y) /\ y.provisional \in 1..next + m
      BY <1>2, <2>1
    <3>2. \A i \in 1..m : IsCandidate(f[i]) /\ f[i].provisional \in 1..next + m
      BY <1>5
    <3> QED BY <1>7, <3>1, <3>2
  <2>3. \A y \in D, z \in W : y.provisional # z.provisional
    BY <1>2, <1>6, <1>7
  <2> QED BY <1>2, <2>1, <2>2, <2>3
<1>12. Standing(p, text, lost, n)
  BY <1>1, <1>2, <1>7, <1>9, <1>10, <1>11 DEF Standing, D, W
<1>13. Grown(C, D)
  BY <1>7 DEF Grown
<1> QED BY <1>1, <1>12, <1>13 DEF C, D

\* The conjuncts of Standing.
LEMMA StandingFields ==
  ASSUME NEW o, NEW text, NEW lost, NEW n, Standing(o, text, lost, n)
  PROVE  /\ Distinct(o.candidates) /\ Distinct(o.notes) /\ o.next \in Nat
         /\ \A x \in Range(o.candidates) : IsCandidate(x) /\ x.provisional \in 1..o.next
         /\ \A x \in Range(o.notes) : IsNote(x) /\ x.provisional \in 1..o.next
         /\ \A x \in Range(o.candidates), y \in Range(o.notes) : x.provisional # y.provisional
         /\ Planted(HtmlSites(Range(o.candidates), Range(o.notes)), o.ordinals)
         /\ text \in Seq(Nat)
         /\ KeptOnce(HtmlTexts(Range(o.candidates), Range(o.notes), text), lost, n)
         /\ o = Out(o.candidates, o.ordinals, o.next, o.notes)
BY DEF Standing

\* Standing, of an output put together from its parts.
LEMMA StandingFrom ==
  ASSUME NEW c, NEW counts, NEW next, NEW w, NEW p, p = Out(c, counts, next, w),
         Distinct(c), Distinct(w), next \in Nat,
         \A x \in Range(c) : IsCandidate(x) /\ x.provisional \in 1..next,
         \A x \in Range(w) : IsNote(x) /\ x.provisional \in 1..next,
         \A x \in Range(c), y \in Range(w) : x.provisional # y.provisional,
         Planted(HtmlSites(Range(c), Range(w)), counts),
         NEW text \in Seq(Nat), NEW lost, NEW n, KeptOnce(HtmlTexts(Range(c), Range(w), text), lost, n)
  PROVE  Standing(p, text, lost, n) /\ p.candidates = c /\ p.notes = w
<1>1. /\ p.candidates = c /\ p.ordinals = counts /\ p.next = next /\ p.notes = w
      /\ p = Out(p.candidates, p.ordinals, p.next, p.notes)
  BY OutFields
<1> QED BY <1>1 DEF Standing

\* A note opens, with its place below the section.
LEMMA NoteAdded ==
  ASSUME NEW o, NEW text, NEW lost, NEW n, Standing(o, text, lost, n),
         NEW e, IsNote(e), e.provisional = o.next + 1, e.parent \in 0..o.next, e.text = <<>>,
         e.ordinal = OrdinalIn(o.ordinals, e.parent),
         MayBear(HtmlSites(Range(o.candidates), Range(o.notes)), e.parent, "note"),
         NEW p, p = Out(o.candidates, CountedIn(o.ordinals, e.parent), o.next + 1, Append(o.notes, e))
  PROVE  /\ Standing(p, text, lost, n) /\ p.candidates = o.candidates
         /\ p.notes = Append(o.notes, e)
<1> DEFINE C == Range(o.candidates)
           W == Range(o.notes)
           next == o.next
           w == Append(o.notes, e)
<1>1. /\ Distinct(o.candidates) /\ Distinct(o.notes) /\ next \in Nat
      /\ \A x \in C : IsCandidate(x) /\ x.provisional \in 1..next
      /\ \A x \in W : IsNote(x) /\ x.provisional \in 1..next
      /\ \A x \in C, y \in W : x.provisional # y.provisional
      /\ Planted(HtmlSites(C, W), o.ordinals)
      /\ text \in Seq(Nat)
      /\ KeptOnce(HtmlTexts(C, W, text), lost, n)
  BY StandingFields
<1>2. Distinct(w) /\ Range(w) = W \cup {e}
  <2>1. \A x \in W : x.provisional # e.provisional
    BY <1>1
  <2>2. Distinct(Append(o.notes, e)) /\ Range(Append(o.notes, e)) = Range(o.notes) \cup {e}
    BY <1>1, <2>1, DistinctAppend
  <2> QED BY <2>2
<1>3. Planted(HtmlSites(C, W \cup {e}), CountedIn(o.ordinals, e.parent))
  <2> DEFINE d == [provisional |-> e.provisional, parent |-> e.parent, kind |-> "note", ordinal |-> e.ordinal]
  <2>1. /\ d.provisional = next + 1 /\ d.parent = e.parent /\ d.kind = "note" /\ d.ordinal = e.ordinal
        /\ SiteOf(d) = NoteSite(e)
    BY DEF SiteOf, NoteSite
  <2> HIDE DEF d
  <2>2. \A a : a \in HtmlSites(C, W \cup {e}) <=> a \in HtmlSites(C, W) \/ a = SiteOf(d)
    BY <2>1, HtmlSitesAre
  <2>3. \A a \in HtmlSites(C, W) : a.id \in 0..next
    BY <1>1, StandingIds
  <2> HIDE DEF C, W
  <2>4. /\ d.parent \in 0..next /\ MayBear(HtmlSites(C, W), d.parent, d.kind)
        /\ d.ordinal = OrdinalIn(o.ordinals, d.parent) /\ d.parent = e.parent
    BY <2>1 DEF C, W
  <2> HIDE DEF next
  <2>5. Planted(HtmlSites(C, W \cup {e}), CountedIn(o.ordinals, d.parent))
    BY <1>1, <2>1, <2>2, <2>3, <2>4, SiteAdded
  <2> QED BY <2>4, <2>5
<1>4. KeptOnce(HtmlTexts(C, W \cup {e}, text), lost, n)
  <2> DEFINE X == HtmlTexts(C, W, text)
             Y == HtmlTexts(C, W \cup {e}, text)
  <2>1. \A x : x \in Y <=> x \in X \/ x = e
    BY HtmlTextsAre
  <2> HIDE DEF X, Y
  <2>2. SameTexts(X, Y, {})
    BY <2>1 DEF SameTexts, HasTextOf
  <2>3. KeptOnce(X, lost, n)
    BY <1>1 DEF X
  <2>4. KeptOnce(Y, lost, n)
    BY <2>2, <2>3, KeptInTheSame
  <2> QED BY <2>4 DEF Y
<1>5. /\ \A x \in C : IsCandidate(x) /\ x.provisional \in 1..next + 1
      /\ \A x \in W \cup {e} : IsNote(x) /\ x.provisional \in 1..next + 1
      /\ \A x \in C, y \in W \cup {e} : x.provisional # y.provisional
      /\ next + 1 \in Nat
  BY <1>1
<1>6. p = Out(o.candidates, CountedIn(o.ordinals, e.parent), next + 1, w)
  OBVIOUS
<1> DEFINE more == next + 1
<1>7. /\ p = Out(o.candidates, CountedIn(o.ordinals, e.parent), more, w)
      /\ Distinct(o.candidates) /\ Distinct(w) /\ more \in Nat /\ text \in Seq(Nat)
      /\ \A x \in Range(o.candidates) : IsCandidate(x) /\ x.provisional \in 1..more
      /\ \A x \in Range(w) : IsNote(x) /\ x.provisional \in 1..more
      /\ \A x \in Range(o.candidates), y \in Range(w) : x.provisional # y.provisional
      /\ Planted(HtmlSites(Range(o.candidates), Range(w)), CountedIn(o.ordinals, e.parent))
      /\ KeptOnce(HtmlTexts(Range(o.candidates), Range(w), text), lost, n)
  BY <1>1, <1>2, <1>3, <1>4, <1>5, <1>6
<1> HIDE DEF more, w
<1>8. Standing(p, text, lost, n) /\ p.candidates = o.candidates /\ p.notes = w
  BY <1>7, StandingFrom
<1> QED BY <1>8 DEF w

Replaced(w, s, e) == w = [s EXCEPT ![Len(s)] = e]

\* The buffer goes to the innermost note.
\* The note e is x with more text.
FilledNote(e, x, text) ==
    /\ e.provisional = x.provisional /\ IsNote(e)
    /\ NoteSite(e) = NoteSite(x) /\ e.text = x.text \o text

\* An open note is filled from the buffer.
LEMMA NoteGiven ==
  ASSUME NEW o, NEW text, NEW lost, NEW n, Standing(o, text, lost, n), o.notes # <<>>,
         NEW e, FilledNote(e, Last(o.notes), text),
         NEW w, Replaced(w, o.notes, e),
         NEW p, p = Out(o.candidates, o.ordinals, o.next, w)
  PROVE  /\ Standing(p, <<>>, lost, n) /\ p.candidates = o.candidates /\ Len(p.notes) = Len(o.notes)
<1> DEFINE C == Range(o.candidates)
           W == Range(o.notes)
           next == o.next
           last == Last(o.notes)
           k == Len(o.notes)
           V == Without(W, e.provisional) \cup {e}
<1>1. /\ Distinct(o.candidates) /\ Distinct(o.notes) /\ next \in Nat
      /\ \A x \in C : IsCandidate(x) /\ x.provisional \in 1..next
      /\ \A x \in W : IsNote(x) /\ x.provisional \in 1..next
      /\ \A x \in C, y \in W : x.provisional # y.provisional
      /\ Planted(HtmlSites(C, W), o.ordinals)
      /\ text \in Seq(Nat)
      /\ KeptOnce(HtmlTexts(C, W, text), lost, n)
  BY StandingFields
<1>2. k \in DOMAIN o.notes /\ last = o.notes[k] /\ last \in W /\ o.notes \in Seq(W)
  <2>1. o.notes \in Seq(W)
    BY <1>1 DEF Distinct
  <2> QED BY <2>1, FrontList
<1>3. Distinct(w) /\ Range(w) = V /\ Len(w) = k
  <2>1. /\ Distinct(o.notes) /\ k \in DOMAIN o.notes /\ e.provisional = o.notes[k].provisional
        /\ o.notes \in Seq(Range(o.notes)) /\ w = [o.notes EXCEPT ![k] = e]
    BY <1>1, <1>2 DEF Replaced, FilledNote
  <2> HIDE DEF k, W, V
  <2>2. /\ Distinct([o.notes EXCEPT ![k] = e])
        /\ Range([o.notes EXCEPT ![k] = e]) = Without(Range(o.notes), e.provisional) \cup {e}
    BY <2>1, DistinctExcept
  <2>3. Len([o.notes EXCEPT ![k] = e]) = Len(o.notes)
    BY <2>1, ExceptList
  <2> QED BY <2>1, <2>2, <2>3 DEF k, W, V
<1>4. \A x, y \in W : x.provisional = y.provisional => x = y
  BY <1>1, DistinctRecords
<1>5. /\ e.provisional = last.provisional /\ IsNote(e) /\ NoteSite(e) = NoteSite(last)
      /\ e.text = last.text \o text
  BY DEF FilledNote
<1> HIDE DEF C, W, V, last, next, k
<1>6. \A x : x \in V <=> x = e \/ (x \in W /\ x # last)
  BY <1>2, <1>4, <1>5 DEF V, Without
<1>7. HtmlSites(C, V) = HtmlSites(C, W)
  <2>1. ASSUME NEW a
        PROVE  a \in HtmlSites(C, V) <=> a \in HtmlSites(C, W)
    <3>1. (\E x \in V : a = NoteSite(x)) <=> \E x \in W : a = NoteSite(x)
      BY <1>2, <1>5, <1>6
    <3> QED BY <3>1, HtmlSitesAre
  <2> QED BY <2>1
<1>8. KeptOnce(HtmlTexts(C, V, <<>>), lost, n)
  <2> DEFINE X == HtmlTexts(C, W, text)
             Y == HtmlTexts(C, V, <<>>)
             id == last.provisional
             a == last.text
  <2>1. /\ \A x : x \in X <=> x \in C \/ x \in W \/ x = Buffer(text)
        /\ \A x : x \in Y <=> x \in C \/ x \in V \/ x = Buffer(<<>>)
    BY HtmlTextsAre
  <2>2. \A b : Buffer(b).provisional = 0 /\ Buffer(b).text = b
    BY HtmlTextsAre
  <2>3. /\ id # 0 /\ \A x \in C : x.provisional # id /\ x.provisional # 0
        /\ \A x \in W : x.provisional # 0
        /\ \A x \in W : x.provisional = id => x = last
    BY <1>1, <1>2, <1>4
  <2>4. a \in Seq(Nat)
    BY <1>1, <1>2 DEF IsNote
  <2>5. e.provisional = id /\ e.text = a \o text /\ last.provisional = id /\ last.text = a
    BY <1>5
  <2> HIDE DEF X, Y, id, a
  <2>6. SameTexts(X, Y, {id, 0})
    BY <1>6, <2>1, <2>2, <2>5 DEF SameTexts, HasTextOf
  <2>7. Reads(X, id, a) /\ Reads(X, 0, text)
    BY <1>2, <2>1, <2>2, <2>3, <2>5 DEF Reads
  <2>8. Reads(Y, id, a \o text) /\ Reads(Y, 0, <<>>)
    BY <1>6, <2>1, <2>2, <2>3, <2>5 DEF Reads
  <2>9. KeptOnce(X, lost, n) /\ text \in Seq(Nat)
    BY <1>1 DEF X
  <2>10. KeptOnce(Y, lost, n)
    BY <2>3, <2>4, <2>6, <2>7, <2>8, <2>9, KeptAsJoined
  <2> QED BY <2>10 DEF Y
<1>9. /\ \A x \in V : IsNote(x) /\ x.provisional \in 1..next
      /\ \A x \in C, y \in V : x.provisional # y.provisional
  BY <1>1, <1>2, <1>5, <1>6
<1>10. /\ p = Out(o.candidates, o.ordinals, next, w) /\ <<>> \in Seq(Nat)
       /\ Planted(HtmlSites(C, V), o.ordinals)
  BY <1>1, <1>7 DEF next
<1>11. Standing(p, <<>>, lost, n) /\ p.candidates = o.candidates /\ p.notes = w
  <2> DEFINE none == <<>>
  <2>1. /\ p = Out(o.candidates, o.ordinals, next, w)
        /\ Distinct(o.candidates) /\ Distinct(w) /\ next \in Nat /\ none \in Seq(Nat)
        /\ \A x \in Range(o.candidates) : IsCandidate(x) /\ x.provisional \in 1..next
        /\ \A x \in Range(w) : IsNote(x) /\ x.provisional \in 1..next
        /\ \A x \in Range(o.candidates), y \in Range(w) : x.provisional # y.provisional
        /\ Planted(HtmlSites(Range(o.candidates), Range(w)), o.ordinals)
        /\ KeptOnce(HtmlTexts(Range(o.candidates), Range(w), none), lost, n)
    BY <1>1, <1>3, <1>8, <1>9, <1>10 DEF C
  <2> HIDE DEF none
  <2>2. /\ p.candidates = o.candidates /\ p.ordinals = o.ordinals /\ p.next = next /\ p.notes = w
        /\ p = Out(p.candidates, p.ordinals, p.next, p.notes)
    <3> DEFINE c == o.candidates
               counts == o.ordinals
    <3>1. p = Out(c, counts, next, w)
      BY <2>1
    <3> HIDE DEF c, counts
    <3>2. /\ p.candidates = c /\ p.ordinals = counts /\ p.next = next /\ p.notes = w
          /\ p = Out(p.candidates, p.ordinals, p.next, p.notes)
      BY <3>1, OutFields
    <3> QED BY <3>2 DEF c, counts
  <2> QED BY <2>1, <2>2 DEF Standing, none
<1> QED BY <1>3, <1>11 DEF k

\* A note becomes the node whose place it has.
LEMMA NoteTaken ==
  ASSUME NEW o, NEW text, NEW lost, NEW n, Standing(o, text, lost, n), o.notes # <<>>,
         NEW e, IsCandidate(e), e.provisional = Last(o.notes).provisional,
         SiteOf(e) = NoteSite(Last(o.notes)), e.text = Last(o.notes).text,
         NEW p, p = Out(Append(o.candidates, e), o.ordinals, o.next, Front(o.notes))
  PROVE  /\ Standing(p, text, lost, n) /\ Range(p.candidates) = Range(o.candidates) \cup {e}
         /\ p.notes = Front(o.notes)
<1> DEFINE C == Range(o.candidates)
           W == Range(o.notes)
           V == Range(Front(o.notes))
           D == C \cup {e}
           last == Last(o.notes)
<1>1. /\ Distinct(o.candidates) /\ Distinct(o.notes) /\ o.next \in Nat
      /\ \A x \in C : IsCandidate(x) /\ x.provisional \in 1..o.next
      /\ \A x \in W : IsNote(x) /\ x.provisional \in 1..o.next
      /\ \A x \in C, y \in W : x.provisional # y.provisional
      /\ Planted(HtmlSites(C, W), o.ordinals)
      /\ text \in Seq(Nat)
      /\ KeptOnce(HtmlTexts(C, W, text), lost, n)
  BY StandingFields
<1>2. /\ Distinct(Front(o.notes)) /\ last \in W /\ V = Without(W, last.provisional)
  BY <1>1, DistinctFront
<1>3. \A x, y \in W : x.provisional = y.provisional => x = y
  BY <1>1, DistinctRecords
<1>4. Distinct(Append(o.candidates, e)) /\ Range(Append(o.candidates, e)) = C \cup {e}
  <2>1. \A x \in Range(o.candidates) : x.provisional # e.provisional
    BY <1>1, <1>2
  <2> QED BY <1>1, <2>1, DistinctAppend
<1>5. /\ e.provisional = last.provisional /\ SiteOf(e) = NoteSite(last) /\ e.text = last.text
  OBVIOUS
<1> HIDE DEF C, W, V, last
<1>6. \A x : x \in V <=> x \in W /\ x # last
  BY <1>2, <1>3 DEF Without
<1>7. HtmlSites(D, V) = HtmlSites(C, W)
  <2>1. ASSUME NEW a
        PROVE  a \in HtmlSites(D, V) <=> a \in HtmlSites(C, W)
    <3>1. (\E x \in W : a = NoteSite(x)) <=> (\E x \in V : a = NoteSite(x)) \/ a = NoteSite(last)
      BY <1>2, <1>6
    <3>2. (\E x \in D : a = SiteOf(x)) <=> (\E x \in C : a = SiteOf(x)) \/ a = NoteSite(last)
      BY <1>5
    <3> QED BY <3>1, <3>2, HtmlSitesAre
  <2> QED BY <2>1
<1>8. KeptOnce(HtmlTexts(D, V, text), lost, n)
  <2> DEFINE X == HtmlTexts(C, W, text)
             Y == HtmlTexts(D, V, text)
  <2>1. /\ \A x : x \in X <=> x \in C \/ x \in W \/ x = Buffer(text)
        /\ \A x : x \in Y <=> x \in C \/ x = e \/ x \in V \/ x = Buffer(text)
    BY HtmlTextsAre
  <2> HIDE DEF X, Y, D
  <2>2. SameTexts(X, Y, {})
    BY <1>2, <1>5, <1>6, <2>1 DEF SameTexts, HasTextOf
  <2>3. KeptOnce(X, lost, n)
    BY <1>1 DEF X
  <2>4. KeptOnce(Y, lost, n)
    BY <2>2, <2>3, KeptInTheSame
  <2> QED BY <2>4 DEF Y
<1>9. /\ \A x \in D : IsCandidate(x) /\ x.provisional \in 1..o.next
      /\ \A x \in V : IsNote(x) /\ x.provisional \in 1..o.next
      /\ \A x \in D, y \in V : x.provisional # y.provisional
  BY <1>1, <1>2, <1>3, <1>5, <1>6
<1>10. /\ p.candidates = Append(o.candidates, e) /\ p.ordinals = o.ordinals /\ p.next = o.next
       /\ p.notes = Front(o.notes)
       /\ p = Out(p.candidates, p.ordinals, p.next, p.notes)
  <2> DEFINE c == Append(o.candidates, e)
             counts == o.ordinals
             next == o.next
             w == Front(o.notes)
  <2>1. p = Out(c, counts, next, w)
    OBVIOUS
  <2> HIDE DEF c, counts, next, w
  <2>2. /\ p.candidates = c /\ p.ordinals = counts /\ p.next = next /\ p.notes = w
        /\ p = Out(p.candidates, p.ordinals, p.next, p.notes)
    BY <2>1, OutFields
  <2> QED BY <2>2 DEF c, counts, next, w
<1>11. Range(p.candidates) = D /\ Range(p.notes) = V
  BY <1>4, <1>10 DEF V
<1> HIDE DEF D
<1>12. Standing(p, text, lost, n)
  BY <1>1, <1>2, <1>4, <1>7, <1>8, <1>9, <1>10, <1>11 DEF Standing
<1> QED BY <1>10, <1>11, <1>12 DEF D, C

\* A run of text into the buffer.
LEMMA BufferGrows ==
  ASSUME NEW o, NEW text, NEW lost, NEW n \in Nat, Standing(o, text, lost, n), \A t \in lost : t <= n
  PROVE  Standing(o, Append(text, n + 1), lost, n + 1)
<1> DEFINE C == Range(o.candidates)
           W == Range(o.notes)
           more == Append(text, n + 1)
           X == HtmlTexts(C, W, text)
           Y == HtmlTexts(C, W, more)
<1>1. text \in Seq(Nat) /\ more \in Seq(Nat) /\ KeptOnce(X, lost, n)
      /\ \A x \in C \cup W : x.provisional # 0
  BY DEF Standing
<1>2. /\ \A x : x \in X <=> x \in C \/ x \in W \/ x = Buffer(text)
      /\ \A x : x \in Y <=> x \in C \/ x \in W \/ x = Buffer(more)
      /\ \A b : Buffer(b).provisional = 0 /\ Buffer(b).text = b
  BY HtmlTextsAre
<1> HIDE DEF C, W, X, Y, more
<1>3. SameTexts(X, Y, {0})
  BY <1>2 DEF SameTexts, HasTextOf
<1>4. Reads(X, 0, text) /\ Reads(Y, 0, more)
  BY <1>1, <1>2 DEF Reads
<1>5. KeptOnce(Y, lost, n + 1)
  BY <1>1, <1>3, <1>4, KeptAsGiven DEF more
<1> QED BY <1>1, <1>5 DEF Standing, C, W, X, Y, more

\* A run of text that is lost.
LEMMA TextIsLost ==
  ASSUME NEW o, NEW text, NEW lost, NEW n \in Nat, Standing(o, text, lost, n),
         NEW missing, \A t \in 1..n + 1 : t \in missing <=> t \in lost \/ t = n + 1
  PROVE  Standing(o, text, missing, n + 1)
<1> DEFINE X == HtmlTexts(Range(o.candidates), Range(o.notes), text)
<1>1. KeptOnce(X, lost, n)
  BY DEF Standing
<1> HIDE DEF X
<1>2. KeptOnce(X, missing, n + 1)
  BY <1>1, KeptButOne
<1> QED BY <1>2 DEF Standing, X

PutAt(c, s, k, e) == c = [s EXCEPT ![k] = e]

\* The node e is x with one more run of text.
GrownNode(e, x, t) ==
    /\ IsCandidate(e) /\ e.provisional = x.provisional
    /\ SiteOf(e) = SiteOf(x) /\ e.text = Append(x.text, t)

\* p is o, with one more run of text in a node.
TextPut(p, o, t) ==
    \E k \in DOMAIN o.candidates : \E e, c :
        GrownNode(e, o.candidates[k], t) /\ PutAt(c, o.candidates, k, e)
        /\ p = Out(c, o.ordinals, o.next, o.notes)

NoneAfter(lost, n) == \A t \in lost : t <= n

\* A run of text into a node.
LEMMA NodeGrows ==
  ASSUME NEW o, NEW text, NEW lost, NEW n \in Nat, Standing(o, text, lost, n), NoneAfter(lost, n),
         NEW p, TextPut(p, o, n + 1)
  PROVE  /\ Standing(p, text, lost, n + 1) /\ Grown(Range(o.candidates), Range(p.candidates))
         /\ p.notes = o.notes
<1>1. PICK k \in DOMAIN o.candidates : \E e, c :
        GrownNode(e, o.candidates[k], n + 1) /\ PutAt(c, o.candidates, k, e)
        /\ p = Out(c, o.ordinals, o.next, o.notes)
  BY DEF TextPut
<1>2. PICK e, c :
        GrownNode(e, o.candidates[k], n + 1) /\ PutAt(c, o.candidates, k, e)
        /\ p = Out(c, o.ordinals, o.next, o.notes)
  BY <1>1
<1>3. /\ IsCandidate(e) /\ e.provisional = o.candidates[k].provisional
      /\ SiteOf(e) = SiteOf(o.candidates[k]) /\ e.text = Append(o.candidates[k].text, n + 1)
  BY <1>2 DEF GrownNode
<1> DEFINE C == Range(o.candidates)
           W == Range(o.notes)
           old == o.candidates[k]
           D == Without(C, e.provisional) \cup {e}
<1>4. /\ Distinct(o.candidates) /\ Distinct(o.notes) /\ o.next \in Nat
      /\ \A x \in C : IsCandidate(x) /\ x.provisional \in 1..o.next
      /\ \A x \in W : IsNote(x) /\ x.provisional \in 1..o.next
      /\ \A x \in C, y \in W : x.provisional # y.provisional
      /\ Planted(HtmlSites(C, W), o.ordinals)
      /\ text \in Seq(Nat)
      /\ KeptOnce(HtmlTexts(C, W, text), lost, n)
  BY StandingFields
<1>5. Distinct(c) /\ Range(c) = D /\ old \in C
  <2>1. /\ Distinct(o.candidates) /\ e.provisional = o.candidates[k].provisional
        /\ c = [o.candidates EXCEPT ![k] = e]
    BY <1>4, <1>2, <1>3 DEF PutAt
  <2> HIDE DEF D, C
  <2>2. /\ Distinct([o.candidates EXCEPT ![k] = e])
        /\ Range([o.candidates EXCEPT ![k] = e]) = Without(Range(o.candidates), e.provisional) \cup {e}
        /\ o.candidates[k] \in Range(o.candidates)
    BY <2>1, DistinctExcept
  <2> QED BY <2>1, <2>2 DEF D, C
<1>6. \A x, y \in C : x.provisional = y.provisional => x = y
  BY <1>4, DistinctRecords
<1>7. /\ e.provisional = old.provisional /\ SiteOf(e) = SiteOf(old)
      /\ e.text = Append(old.text, n + 1) /\ IsCandidate(e)
  BY <1>3
<1> HIDE DEF C, W, old, D
<1>8. \A x : x \in D <=> x = e \/ (x \in C /\ x # old)
  BY <1>5, <1>6, <1>7 DEF D, Without
<1>9. HtmlSites(D, W) = HtmlSites(C, W)
  <2>1. ASSUME NEW a
        PROVE  a \in HtmlSites(D, W) <=> a \in HtmlSites(C, W)
    <3>1. (\E x \in D : a = SiteOf(x)) <=> \E x \in C : a = SiteOf(x)
      BY <1>5, <1>7, <1>8
    <3> QED BY <3>1, HtmlSitesAre
  <2> QED BY <2>1
<1>10. KeptOnce(HtmlTexts(D, W, text), lost, n + 1)
  <2> DEFINE X == HtmlTexts(C, W, text)
             Y == HtmlTexts(D, W, text)
             id == old.provisional
             a == old.text
  <2>1. /\ \A x : x \in X <=> x \in C \/ x \in W \/ x = Buffer(text)
        /\ \A x : x \in Y <=> x \in D \/ x \in W \/ x = Buffer(text)
        /\ \A b : Buffer(b).provisional = 0 /\ Buffer(b).text = b
    BY HtmlTextsAre
  <2>2. /\ id # 0 /\ \A x \in W : x.provisional # id
        /\ \A x \in C : x.provisional = id => x = old
    BY <1>4, <1>5, <1>6
  <2>3. a \in Seq(Nat)
    BY <1>4, <1>5 DEF IsCandidate
  <2>4. e.provisional = id /\ e.text = Append(a, n + 1) /\ old.provisional = id /\ old.text = a
    BY <1>7
  <2> HIDE DEF X, Y, id, a
  <2>5. SameTexts(X, Y, {id})
    BY <1>8, <2>1, <2>4 DEF SameTexts, HasTextOf
  <2>6. Reads(X, id, a)
    BY <1>5, <2>1, <2>2, <2>4 DEF Reads
  <2>7. Reads(Y, id, Append(a, n + 1))
    BY <1>8, <2>1, <2>2, <2>4 DEF Reads
  <2>8. KeptOnce(X, lost, n)
    BY <1>4 DEF X
  <2>9. KeptOnce(Y, lost, n + 1)
    <3>1. \A t \in lost : t <= n
      BY DEF NoneAfter
    <3> QED BY <3>1, <2>3, <2>5, <2>6, <2>7, <2>8, KeptAsGiven
  <2> QED BY <2>9 DEF Y
<1>11. /\ \A x \in D : IsCandidate(x) /\ x.provisional \in 1..o.next
      /\ \A x \in D, y \in W : x.provisional # y.provisional
  BY <1>4, <1>5, <1>7, <1>8
<1>12. /\ p.candidates = c /\ p.ordinals = o.ordinals /\ p.next = o.next
      /\ p.notes = o.notes
      /\ p = Out(p.candidates, p.ordinals, p.next, p.notes)
  <2> DEFINE counts == o.ordinals
             next == o.next
             w == o.notes
  <2>1. p = Out(c, counts, next, w)
    BY <1>2
  <2> HIDE DEF counts, next, w
  <2>2. /\ p.candidates = c /\ p.ordinals = counts /\ p.next = next /\ p.notes = w
        /\ p = Out(p.candidates, p.ordinals, p.next, p.notes)
    BY <2>1, OutFields
  <2> QED BY <2>2 DEF counts, next, w
<1>13. Range(p.candidates) = D /\ Range(p.notes) = W
  BY <1>5, <1>12 DEF W
<1>14. Standing(p, text, lost, n + 1)
  BY <1>4, <1>5, <1>9, <1>10, <1>11, <1>12, <1>13 DEF Standing
<1>15. e.kind = old.kind
  <2>1. SiteOf(e).kind = e.kind /\ SiteOf(old).kind = old.kind
    BY SitesOf
  <2> QED BY <1>7, <2>1
<1>16. Grown(C, D)
  BY <1>7, <1>8, <1>15 DEF Grown
<1> QED BY <1>12, <1>13, <1>14, <1>16 DEF C

-----------------------------------------------------------------------------
(* HTML: where the next node goes.                                         *)

\* A set of nodes grows in one step or in two.
LEMMA GrownParts ==
  ASSUME NEW C, NEW D, NEW E
  PROVE  /\ C \subseteq D => Grown(C, D)
         /\ Grown(C, D) /\ Grown(D, E) => Grown(C, E)
BY DEF Grown

\* Below the innermost section, and below every node that may have such children.
LEMMA MayGoBelow ==
  ASSUME NEW o, NEW text, NEW lost, NEW n, Standing(o, text, lost, n),
         NEW s, OpenSections(s, Range(o.candidates))
  PROVE  \A kind : /\ ParentAfter(s) \in 0..o.next
                   /\ MayBear(HtmlSites(Range(o.candidates), Range(o.notes)), ParentAfter(s), kind)
<1> DEFINE R == HtmlSites(Range(o.candidates), Range(o.notes))
<1>1. o.next \in Nat /\ \A c \in Range(o.candidates) : c.provisional \in 1..o.next
  BY DEF Standing
<1>2. \A c \in Range(o.candidates) : SiteOf(c) \in R
  BY HtmlSitesAre
<1> HIDE DEF R
<1>3. \A kind : MayBear(R, ParentAfter(s), kind) /\ ParentAfter(s) \in 0..o.next
  BY <1>1, <1>2, SectionMayBear
<1> QED BY <1>3 DEF R

\* Below a node that is there.
LEMMA MayGoBelowNode ==
  ASSUME NEW o, NEW text, NEW lost, NEW n, Standing(o, text, lost, n),
         NEW c \in Range(o.candidates), NEW kind, SourceGraph!MayParent(c.kind, kind)
  PROVE  /\ c.provisional \in 0..o.next
         /\ MayBear(HtmlSites(Range(o.candidates), Range(o.notes)), c.provisional, kind)
<1>1. c.provisional \in 0..o.next
  BY DEF Standing
<1>2. SiteOf(c) \in HtmlSites(Range(o.candidates), Range(o.notes))
  BY HtmlSitesAre
<1>3. SiteOf(c).id = c.provisional /\ SiteOf(c).kind = c.kind
  BY SitesOf
<1> QED BY <1>1, <1>2, <1>3 DEF MayBear

\* The fields of a new node.
LEMMA NodeIsCandidate ==
  ASSUME NEW id, NEW parent, NEW kind, NEW ordinal, NEW text \in Seq(Nat),
         NEW e, e = Node(id, parent, kind, ordinal, text)
  PROVE  /\ IsCandidate(e) /\ e.provisional = id /\ e.parent = parent /\ e.kind = kind
         /\ e.ordinal = ordinal /\ e.text = text /\ e.label = NoId
<1>1. e = [provisional |-> e.provisional, parent |-> e.parent, kind |-> e.kind, ordinal |-> e.ordinal,
           text |-> e.text, label |-> e.label, anchor |-> e.anchor]
  BY DEF Node
<1>2. /\ e.provisional = id /\ e.parent = parent /\ e.kind = kind
      /\ e.ordinal = ordinal /\ e.text = text /\ e.label = NoId
  BY DEF Node
<1>3. e.text \in Seq(Nat)
  BY <1>2
<1> HIDE DEF Node
<1>4. IsCandidate(e)
  BY <1>1, <1>2, <1>3, Zenon DEF IsCandidate
<1> QED BY <1>2, <1>4

\* What may be emitted below a parent.
LEMMA EmitStands ==
  ASSUME NEW o, NEW text, NEW lost, NEW n, Standing(o, text, lost, n),
         NEW parent \in 0..o.next, NEW kind,
         MayBear(HtmlSites(Range(o.candidates), Range(o.notes)), parent, kind),
         NEW body, NEW rest,
         \/ body = <<>> /\ rest = text
         \/ body = text /\ rest = <<>>,
         NEW p, p = Emit(o, parent, kind, body)
  PROVE  /\ Standing(p, rest, lost, n) /\ Grown(Range(o.candidates), Range(p.candidates))
         /\ p.notes = o.notes /\ p.next = o.next + 1
         /\ \E e \in Range(p.candidates) : e.provisional = p.next /\ e.kind = kind
<1> DEFINE e == Node(o.next + 1, parent, kind, OrdinalIn(o.ordinals, parent), body)
<1>1. body \in Seq(Nat)
  BY EmptySeq DEF Standing
<1>2. /\ IsCandidate(e) /\ e.provisional = o.next + 1 /\ e.parent = parent /\ e.kind = kind
      /\ e.ordinal = OrdinalIn(o.ordinals, parent) /\ e.text = body
  BY <1>1, NodeIsCandidate
<1>3. p = Out(Append(o.candidates, e), CountedIn(o.ordinals, parent), o.next + 1, o.notes)
  BY EmitIs DEF Standing
<1> HIDE DEF e
<1>4. /\ p = Out(Append(o.candidates, e), CountedIn(o.ordinals, e.parent), o.next + 1, o.notes)
      /\ e.parent \in 0..o.next /\ e.ordinal = OrdinalIn(o.ordinals, e.parent)
      /\ MayBear(HtmlSites(Range(o.candidates), Range(o.notes)), e.parent, e.kind)
      /\ \/ e.text = <<>> /\ rest = text
         \/ e.text = text /\ rest = <<>>
  BY <1>2, <1>3
<1>5. /\ Standing(p, rest, lost, n)
      /\ Range(p.candidates) = Range(o.candidates) \cup {e}
      /\ p.notes = o.notes /\ p.next = o.next + 1
  BY <1>2, <1>4, NodeAdded, SMTT(30)
<1>6. Grown(Range(o.candidates), Range(p.candidates))
  BY <1>5, GrownParts
<1> QED BY <1>2, <1>5, <1>6

-----------------------------------------------------------------------------
(* HTML: the stray text.                                                   *)

\* The output is that of the state.
LEMMA EmittedFields ==
  /\ Emitted.candidates = candidates /\ Emitted.ordinals = ordinals
  /\ Emitted.next = nextProvisional /\ Emitted.notes = notes
  /\ Emitted = Out(candidates, ordinals, nextProvisional, notes)
BY DEF Emitted, Out

\* e is x with more text.
WithMore(e, x, text) == e = [x EXCEPT !.text = x.text \o text]

\* A note with more text keeps its place.
LEMMA GivenNote ==
  ASSUME NEW x, IsNote(x), NEW text \in Seq(Nat),
         NEW e, WithMore(e, x, text)
  PROVE  /\ IsNote(e) /\ e.provisional = x.provisional /\ NoteSite(e) = NoteSite(x)
         /\ e.text = x.text \o text
<1>1. x = [provisional |-> x.provisional, parent |-> x.parent, ordinal |-> x.ordinal, text |-> x.text]
      /\ x.text \in Seq(Nat)
  BY DEF IsNote
<1>2. e = [provisional |-> x.provisional, parent |-> x.parent, ordinal |-> x.ordinal,
           text |-> x.text \o text]
  BY <1>1 DEF WithMore
<1>3. x.text \o text \in Seq(Nat)
  BY <1>1, ConcatProperties
<1>4. /\ e.provisional = x.provisional /\ e.parent = x.parent /\ e.ordinal = x.ordinal
      /\ e.text = x.text \o text
  BY <1>2
<1>5. e = [provisional |-> e.provisional, parent |-> e.parent, ordinal |-> e.ordinal, text |-> e.text]
  BY <1>2
<1>6. IsNote(e)
  BY <1>3, <1>4, <1>5, Zenon DEF IsNote
<1> QED BY <1>4, <1>6 DEF NoteSite

\* Stray text inside a note goes to the innermost one.
LEMMA ProseInNote ==
  ASSUME notes # <<>>, NEW text
  PROVE  \E e, w : /\ WithMore(e, Last(notes), text)
                   /\ Replaced(w, notes, e)
                   /\ Prose(Emitted, text) = Out(candidates, ordinals, nextProvisional, w)
<1> DEFINE o == Emitted
           k == Len(notes)
           x == notes[k]
           e == [x EXCEPT !.text = x.text \o text]
           w == [notes EXCEPT ![k] = e]
<1>1. Prose(o, text) = [o EXCEPT !.notes[k].text = @ \o text]
  BY DEF Prose
<1>2. o.notes = notes /\ o = Out(candidates, ordinals, nextProvisional, notes)
  BY EmittedFields
<1> HIDE DEF o, k
<1>3. [o EXCEPT !.notes[k].text = @ \o text]
        = [o EXCEPT !.notes = [o.notes EXCEPT ![k] = [o.notes[k] EXCEPT !.text = o.notes[k].text \o text]]]
  OBVIOUS
<1>4. [o EXCEPT !.notes[k].text = @ \o text] = [o EXCEPT !.notes = w]
  BY <1>2, <1>3
<1>5. Last(notes) = x
  BY DEF Last, k
<1>6. WithMore(e, Last(notes), text)
  BY <1>5, Zenon DEF WithMore
<1>7. Replaced(w, notes, e)
  BY DEF Replaced, k
<1> HIDE DEF w
<1>8. [o EXCEPT !.notes = w] = Out(candidates, ordinals, nextProvisional, w)
  BY <1>2 DEF Out
<1>9. Prose(Emitted, text) = Out(candidates, ordinals, nextProvisional, w)
  BY <1>1, <1>4, <1>8 DEF o
<1> QED BY <1>6, <1>7, <1>9

\* The innermost note takes the buffer.
LEMMA NoteFilled ==
  ASSUME NEW o, NEW text, NEW lost, NEW n, Standing(o, text, lost, n), o.notes # <<>>,
         NEW e, NEW w, WithMore(e, Last(o.notes), text), Replaced(w, o.notes, e),
         NEW p, p = Out(o.candidates, o.ordinals, o.next, w)
  PROVE  /\ Standing(p, <<>>, lost, n) /\ p.candidates = o.candidates /\ Len(p.notes) = Len(o.notes)
<1> DEFINE x == Last(o.notes)
<1>1. IsNote(x) /\ text \in Seq(Nat)
  BY DistinctFront DEF Standing
<1> HIDE DEF x
<1>2. /\ IsNote(e) /\ e.provisional = x.provisional /\ NoteSite(e) = NoteSite(x)
      /\ e.text = x.text \o text
  BY <1>1, GivenNote DEF x
<1>3. FilledNote(e, Last(o.notes), text)
  BY <1>2 DEF x, FilledNote
<1> QED BY <1>3, NoteGiven, SMTT(30)

\* The buffer is emptied into a note or a paragraph, or was empty.
LEMMA FlushedStands ==
  ASSUME NEW lost, NEW n, Standing(Emitted, raw, lost, n), OpenSections(sections, Range(candidates))
  PROVE  /\ Standing(Flushed, <<>>, lost, n) /\ Grown(Range(candidates), Range(Flushed.candidates))
         /\ Len(Flushed.notes) = Len(notes)
         /\ OpenSections(sections, Range(Flushed.candidates))
<1> DEFINE o == Emitted
           p == Flushed
<1>1. /\ o.candidates = candidates /\ o.notes = notes /\ o.next = nextProvisional
      /\ o.ordinals = ordinals
  BY EmittedFields
<1>2. Standing(o, raw, lost, n) /\ OpenSections(sections, Range(o.candidates))
  BY <1>1
<1> SUFFICES /\ Standing(p, <<>>, lost, n) /\ Grown(Range(o.candidates), Range(p.candidates))
             /\ Len(p.notes) = Len(o.notes)
  <2>1. ASSUME Grown(Range(candidates), Range(p.candidates))
        PROVE  OpenSections(sections, Range(p.candidates))
    BY <2>1, SectionsStayOpen DEF Grown
  <2> QED BY <1>1, <2>1
<1>3. CASE raw = <<>>
  <2>1. p = o
    BY <1>3 DEF Flushed
  <2>2. Grown(Range(o.candidates), Range(o.candidates))
    BY GrownParts
  <2> QED BY <1>2, <1>3, <2>1, <2>2
<1>4. CASE raw # <<>> /\ notes = <<>>
  <2> DEFINE parent == SectionParent
  <2>1. p = Emit(o, parent, "paragraph", raw)
    BY <1>4 DEF Flushed, Prose
  <2>2. /\ parent \in 0..o.next
        /\ MayBear(HtmlSites(Range(o.candidates), Range(o.notes)), parent, "paragraph")
    BY <1>2, MayGoBelow DEF SectionParent
  <2> HIDE DEF parent, o, p
  <2>3. Standing(p, <<>>, lost, n) /\ Grown(Range(o.candidates), Range(p.candidates)) /\ p.notes = o.notes
    BY <1>2, <2>1, <2>2, EmitStands
  <2> QED BY <2>3
<1>5. CASE raw # <<>> /\ notes # <<>>
  <2>1. PICK e, w : /\ WithMore(e, Last(notes), raw)
                    /\ Replaced(w, notes, e)
                    /\ Prose(Emitted, raw) = Out(candidates, ordinals, nextProvisional, w)
    BY <1>5, ProseInNote
  <2>2. Last(o.notes) \in Range(o.notes) /\ o.notes # <<>> /\ raw \in Seq(Nat)
    BY <1>1, <1>2, <1>5, DistinctFront DEF Standing
  <2>3. WithMore(e, Last(o.notes), raw) /\ Replaced(w, o.notes, e)
    BY <1>1, <2>1
  <2>4. p = Out(o.candidates, o.ordinals, o.next, w)
    BY <1>1, <1>5, <2>1 DEF Flushed
  <2> HIDE DEF o, p
  <2>7. /\ Standing(p, <<>>, lost, n) /\ p.candidates = o.candidates /\ Len(p.notes) = Len(o.notes)
    BY <1>2, <2>2, <2>3, <2>4, NoteFilled
  <2>8. Grown(Range(o.candidates), Range(p.candidates))
    BY <2>7, GrownParts
  <2> QED BY <2>7, <2>8
<1> QED BY <1>3, <1>4, <1>5

-----------------------------------------------------------------------------
(* HTML: the open elements.                                                *)

ElementModes == {"walk", "raw", "node", "children", "table", "row", "reported", "silent"}

IsElement(e) ==
    /\ e = [tag |-> e.tag, mode |-> e.mode, fold |-> e.fold, node |-> e.node, filled |-> e.filled,
            carry |-> e.carry, pending |-> e.pending, later |-> e.later, column |-> e.column]
    /\ e.mode \in ElementModes /\ e.column \in Nat
    /\ IsFiniteSet(DOMAIN e.carry) /\ IsFiniteSet(DOMAIN e.pending) /\ IsFiniteSet(DOMAIN e.later)

\* The node an element adds to has been emitted.
Rooted(e, C) ==
    /\ e.mode \in {"node", "children"} => \E c \in C : c.provisional = e.node
    /\ e.mode = "table" => \E c \in C : c.provisional = e.node /\ c.kind = "table"
    /\ e.mode = "row" => \E c \in C : c.provisional = e.node /\ c.kind = "table_row"

Quoting(e) == e.tag = "quote" /\ e.mode = "walk"

OpenQuotes(s) == {i \in DOMAIN s : Quoting(s[i])}

\* The open elements, n of them notes.
Nested(s, C, n) ==
    /\ s \in Seq(Range(s)) /\ s # <<>>
    /\ s[1].tag = "document" /\ s[1].mode = "walk"
    /\ \A e \in Range(s) : IsElement(e) /\ Rooted(e, C)
    /\ IsFiniteSet(OpenQuotes(s)) /\ Cardinality(OpenQuotes(s)) = n

Alike(e, x) == e.tag = x.tag /\ e.mode = x.mode /\ e.node = x.node

\* Nodes that are added leave the open elements as they are.
LEMMA StaysNested ==
  ASSUME NEW s, NEW C, NEW n, Nested(s, C, n), NEW D, Grown(C, D)
  PROVE  Nested(s, D, n)
<1>1. \A e : Rooted(e, C) => Rooted(e, D)
  BY DEF Rooted, Grown
<1> QED BY <1>1 DEF Nested

\* The innermost element, and what it says of the stack.
LEMMA InnermostElement ==
  ASSUME NEW s, NEW C, NEW n, Nested(s, C, n)
  PROVE  /\ Last(s) \in Range(s) /\ IsElement(Last(s)) /\ Rooted(Last(s), C)
         /\ Len(s) \in Nat \ {0} /\ Last(s) = s[Len(s)]
         /\ Len(s) = 1 => Last(s).tag = "document" /\ Last(s).mode = "walk" /\ n = 0
<1>1. s \in Seq(Range(s)) /\ s # <<>> /\ s[1].tag = "document" /\ s[1].mode = "walk"
  BY DEF Nested
<1>2. /\ Len(s) \in Nat \ {0} /\ Last(s) = s[Len(s)] /\ Last(s) \in Range(s)
  BY <1>1, FrontList
<1>3. IsElement(Last(s)) /\ Rooted(Last(s), C)
  BY <1>2 DEF Nested
<1>4. ASSUME Len(s) = 1 PROVE n = 0
  <2>1. DOMAIN s = 1..1
    BY <1>1, <1>4, ListsHaveLength
  <2>2. OpenQuotes(s) = {}
    BY <1>1, <2>1 DEF OpenQuotes, Quoting
  <2> QED BY <2>2, FS_EmptySet DEF Nested
<1> QED BY <1>1, <1>2, <1>3, <1>4

\* An element opens.
LEMMA ElementPushed ==
  ASSUME NEW s, NEW C, NEW n \in Nat, Nested(s, C, n), NEW e, IsElement(e), Rooted(e, C)
  PROVE  Nested(Append(s, e), C, IF Quoting(e) THEN n + 1 ELSE n)
<1> DEFINE t == Append(s, e)
           m == Len(s)
           Q == OpenQuotes(s)
<1>1. /\ s \in Seq(Range(s)) /\ s # <<>> /\ s[1].tag = "document" /\ s[1].mode = "walk"
      /\ \A x \in Range(s) : IsElement(x) /\ Rooted(x, C)
      /\ IsFiniteSet(Q) /\ Cardinality(Q) = n
  BY DEF Nested
<1>2. /\ t \in Seq(Range(t)) /\ Range(t) = Range(s) \cup {e}
      /\ DOMAIN t = 1..m + 1 /\ Len(t) = m + 1
      /\ \A i \in 1..m + 1 : t[i] = IF i = m + 1 THEN e ELSE s[i]
  BY <1>1, AppendList
<1>3. m \in Nat \ {0} /\ DOMAIN s = 1..m
  BY <1>1, ListsHaveLength
<1> HIDE DEF t, m
<1>4. t # <<>> /\ t[1] = s[1]
  BY <1>2, <1>3
<1>5. \A i \in 1..m : t[i] = s[i]
  BY <1>2, <1>3
<1>6. t[m + 1] = e
  BY <1>2, <1>3
<1>7. CASE Quoting(e)
  <2>1. OpenQuotes(t) = Q \cup {m + 1}
    BY <1>2, <1>3, <1>5, <1>6, <1>7 DEF OpenQuotes
  <2>2. m + 1 \notin Q
    BY <1>3 DEF OpenQuotes
  <2>3. IsFiniteSet(OpenQuotes(t)) /\ Cardinality(OpenQuotes(t)) = n + 1
    BY <1>1, <2>1, <2>2, FS_AddElement
  <2> QED BY <1>1, <1>2, <1>4, <1>7, <2>3 DEF Nested, t
<1>8. CASE ~Quoting(e)
  <2>1. OpenQuotes(t) = Q
    BY <1>2, <1>3, <1>5, <1>6, <1>8 DEF OpenQuotes
  <2> QED BY <1>1, <1>2, <1>4, <1>8, <2>1 DEF Nested, t
<1> QED BY <1>7, <1>8

\* An element closes, and with it the note it may be.
LEMMA ElementPopped ==
  ASSUME NEW s, NEW C, NEW n \in Nat, Nested(s, C, n), Len(s) > 1
  PROVE  /\ Nested(Front(s), C, IF Quoting(Last(s)) THEN n - 1 ELSE n)
         /\ Len(Front(s)) = Len(s) - 1
<1> DEFINE t == Front(s)
           m == Len(s)
           e == Last(s)
           Q == OpenQuotes(s)
<1>1. /\ s \in Seq(Range(s)) /\ s # <<>> /\ s[1].tag = "document" /\ s[1].mode = "walk"
      /\ \A x \in Range(s) : IsElement(x) /\ Rooted(x, C)
      /\ IsFiniteSet(Q) /\ Cardinality(Q) = n
  BY DEF Nested
<1>2. /\ t \in Seq(Range(t)) /\ m \in Nat \ {0} /\ Len(t) = m - 1 /\ e = s[m]
      /\ DOMAIN t = 1..m - 1 /\ \A i \in 1..m - 1 : t[i] = s[i]
  BY <1>1, FrontList
<1>3. DOMAIN s = 1..m /\ m > 1
  BY <1>1, ListsHaveLength
<1>4. \A x \in Range(t) : x \in Range(s)
  BY <1>2, <1>3 DEF Range
<1> HIDE DEF t, m, e
<1>5. t # <<>> /\ t[1] = s[1]
  <2>1. 1 \in DOMAIN t
    BY <1>2, <1>3
  <2> QED BY <1>2, <2>1
<1>6. CASE Quoting(e)
  <2>1. OpenQuotes(t) = Q \ {m}
    BY <1>2, <1>3, <1>6 DEF OpenQuotes
  <2>2. m \in Q
    BY <1>2, <1>3, <1>6 DEF OpenQuotes
  <2>3. IsFiniteSet(OpenQuotes(t)) /\ Cardinality(OpenQuotes(t)) = n - 1
    BY <1>1, <2>1, <2>2, FS_RemoveElement
  <2> QED BY <1>1, <1>2, <1>4, <1>5, <1>6, <2>3 DEF Nested, t, m, e
<1>7. CASE ~Quoting(e)
  <2>1. OpenQuotes(t) = Q
    BY <1>2, <1>3, <1>7 DEF OpenQuotes
  <2> QED BY <1>1, <1>2, <1>4, <1>5, <1>7, <2>1 DEF Nested, t, m, e
<1> QED BY <1>6, <1>7

\* The innermost element is replaced by one like it.
LEMMA ElementTouched ==
  ASSUME NEW s, NEW C, NEW n, Nested(s, C, n), NEW e, IsElement(e), Alike(e, Last(s)),
         NEW t, Replaced(t, s, e)
  PROVE  Nested(t, C, n)
<1> DEFINE m == Len(s)
<1>1. /\ s \in Seq(Range(s)) /\ s # <<>> /\ s[1].tag = "document" /\ s[1].mode = "walk"
      /\ \A x \in Range(s) : IsElement(x) /\ Rooted(x, C)
      /\ IsFiniteSet(OpenQuotes(s)) /\ Cardinality(OpenQuotes(s)) = n
  BY DEF Nested
<1>2. m \in Nat \ {0} /\ DOMAIN s = 1..m /\ Last(s) = s[m] /\ m \in DOMAIN s
  BY <1>1, ListsHaveLength DEF Last
<1>3. /\ t \in Seq(Range(t)) /\ Len(t) = m /\ DOMAIN t = DOMAIN s
      /\ \A i \in DOMAIN s : t[i] = IF i = m THEN e ELSE s[i]
  BY <1>1, <1>2, ExceptList DEF Replaced
<1>4. \A i \in DOMAIN s : s[i] \in Range(s)
  BY DEF Range
<1> HIDE DEF m
<1>5. Rooted(e, C)
  BY <1>1, <1>2, <1>4 DEF Rooted, Alike
<1>6. \A x \in Range(t) : IsElement(x) /\ Rooted(x, C)
  <2>1. \A i \in DOMAIN t : IsElement(t[i]) /\ Rooted(t[i], C)
    BY <1>1, <1>3, <1>4, <1>5
  <2> QED BY <2>1 DEF Range
<1>7. \A i \in DOMAIN s : t[i].tag = s[i].tag /\ t[i].mode = s[i].mode
  BY <1>2, <1>3 DEF Alike
<1>8. OpenQuotes(t) = OpenQuotes(s)
  BY <1>3, <1>7 DEF OpenQuotes, Quoting
<1>9. t # <<>> /\ t[1].tag = "document" /\ t[1].mode = "walk"
  BY <1>1, <1>2, <1>3, <1>7
<1> QED BY <1>1, <1>3, <1>6, <1>8, <1>9 DEF Nested

-----------------------------------------------------------------------------
(* HTML: the invariant, and what every step has to keep.                   *)

HtmlLost == {t \in 1..texts : t \in unread \/ <<"dropped", t>> \in diagnostics}

HtmlInv ==
    /\ texts \in Nat
    /\ Standing(Emitted, raw, HtmlLost, texts)
    /\ unread \subseteq 1..texts
    /\ \A t : <<"dropped", t>> \in diagnostics => t \in 1..texts
    /\ OpenSections(sections, Range(candidates))
    /\ Nested(opened, Range(candidates), Len(notes))
    /\ ingested => notes = <<>>

\* The output p, with sections s and the elements e open.
Sound(p, text, s, e) ==
    /\ Standing(p, text, HtmlLost, texts)
    /\ OpenSections(s, Range(p.candidates))
    /\ Nested(e, Range(p.candidates), Len(p.notes))
    /\ Len(p.notes) \in Nat

\* The state is sound.
LEMMA EmittedIsSound ==
  ASSUME HtmlInv
  PROVE  Sound(Emitted, raw, sections, opened)
<1>1. Emitted.candidates = candidates /\ Emitted.notes = notes
  BY EmittedFields
<1>2. notes \in Seq(Range(notes))
  BY <1>1 DEF HtmlInv, Standing, Distinct
<1>3. Len(notes) \in Nat
  BY <1>2, ListsHaveLength
<1> QED BY <1>1, <1>3 DEF HtmlInv, Sound

\* The state is sound once the buffer is flushed.
LEMMA FlushedIsSound ==
  ASSUME HtmlInv
  PROVE  Sound(Flushed, <<>>, sections, opened)
<1> DEFINE p == Flushed
           C == Range(p.candidates)
           lost == HtmlLost
<1>1. /\ Standing(Emitted, raw, lost, texts) /\ OpenSections(sections, Range(candidates))
      /\ Nested(opened, Range(candidates), Len(notes)) /\ Len(notes) \in Nat
  BY EmittedIsSound DEF HtmlInv, Sound, Emitted
<1> HIDE DEF lost
<1>2. /\ Standing(p, <<>>, lost, texts) /\ Grown(Range(candidates), C)
      /\ Len(p.notes) = Len(notes) /\ OpenSections(sections, C)
  BY <1>1, FlushedStands
<1> HIDE DEF p, C
<1>3. Nested(opened, C, Len(p.notes)) /\ Len(p.notes) \in Nat
  BY <1>1, <1>2, StaysNested
<1> QED BY <1>2, <1>3 DEF Sound, p, C, lost

\* A step to a sound output that gives no text.
LEMMA HtmlStep ==
  ASSUME HtmlInv, NEW p, Becomes(p), Sound(p, raw', sections', opened'),
         UNCHANGED <<texts, unread>>, ingested' => p.notes = <<>>,
         \A t : <<"dropped", t>> \in diagnostics' <=> <<"dropped", t>> \in diagnostics
  PROVE  HtmlInv'
<1>1. /\ candidates' = p.candidates /\ notes' = p.notes
  BY DEF Becomes
<1>2. p = Out(p.candidates, p.ordinals, p.next, p.notes)
  BY DEF Sound, Standing
<1>3. Emitted' = Out(candidates', ordinals', nextProvisional', notes')
  BY DEF Emitted, Out
<1>4. Emitted' = p
  BY <1>2, <1>3 DEF Becomes
<1>5. texts' = texts /\ unread' = unread
  OBVIOUS
<1>6. HtmlLost' = {t \in 1..texts' : t \in unread' \/ <<"dropped", t>> \in diagnostics'}
  BY DEF HtmlLost
<1>7. HtmlLost' = HtmlLost
  BY <1>5, <1>6 DEF HtmlLost
<1>8. Standing(Emitted', raw', HtmlLost', texts')
  BY <1>4, <1>5, <1>7 DEF Sound
<1>9. texts' \in Nat /\ unread' \subseteq 1..texts'
  BY <1>5 DEF HtmlInv
<1>10. \A t : <<"dropped", t>> \in diagnostics' => t \in 1..texts'
  BY <1>5 DEF HtmlInv
<1>11. /\ OpenSections(sections', Range(candidates')) /\ Nested(opened', Range(candidates'), Len(notes'))
       /\ ingested' => notes' = <<>>
  BY <1>1 DEF Sound
<1> QED BY <1>8, <1>9, <1>10, <1>11 DEF HtmlInv

-----------------------------------------------------------------------------
(* HTML: the elements that are opened and closed.                          *)

FilledAs(e, x, b) == e = [x EXCEPT !.filled = b]

\* An element that has seen content is like the one before.
LEMMA ElementFilled ==
  ASSUME NEW x, IsElement(x), NEW b, NEW e, FilledAs(e, x, b)
  PROVE  IsElement(e) /\ Alike(e, x)
<1>1. e = [tag |-> x.tag, mode |-> x.mode, fold |-> x.fold, node |-> x.node, filled |-> b,
           carry |-> x.carry, pending |-> x.pending, later |-> x.later, column |-> x.column]
  BY DEF IsElement, FilledAs
<1>2. /\ e.tag = x.tag /\ e.mode = x.mode /\ e.node = x.node /\ e.carry = x.carry
      /\ e.pending = x.pending /\ e.later = x.later /\ e.column = x.column
      /\ e = [tag |-> e.tag, mode |-> e.mode, fold |-> e.fold, node |-> e.node, filled |-> e.filled,
              carry |-> e.carry, pending |-> e.pending, later |-> e.later, column |-> e.column]
  BY <1>1
<1> QED BY <1>2, Zenon DEF IsElement, Alike

Opening(e, tag, mode, node) == \E fold : e = Element(tag, mode, fold, node)

\* The fields of a new element.
LEMMA ElementIs ==
  ASSUME NEW e, NEW tag, NEW mode \in ElementModes, NEW node, Opening(e, tag, mode, node)
  PROVE  IsElement(e) /\ e.tag = tag /\ e.mode = mode /\ e.node = node
<1>0. PICK fold : e = Element(tag, mode, fold, node)
  BY DEF Opening
<1>1. /\ e = [tag |-> e.tag, mode |-> e.mode, fold |-> e.fold, node |-> e.node, filled |-> e.filled,
              carry |-> e.carry, pending |-> e.pending, later |-> e.later, column |-> e.column]
      /\ e.carry = NoColumns /\ e.pending = NoColumns /\ e.later = NoColumns /\ e.column = 0
      /\ e.tag = tag /\ e.mode = mode /\ e.node = node
  BY <1>0 DEF Element
<1>2. IsFiniteSet(DOMAIN NoColumns)
  BY FS_EmptySet DEF NoColumns
<1> HIDE DEF Element
<1>3. 0 \in Nat
  OBVIOUS
<1> QED BY <1>1, <1>2, <1>3, Zenon DEF IsElement

\* The parser opens an element below the innermost.
LEMMA OpenNests ==
  ASSUME NEW C, NEW n \in Nat, Nested(opened, C, n), NEW e, Open(e), IsElement(e), Rooted(e, C)
  PROVE  Nested(opened', C, IF Quoting(e) THEN n + 1 ELSE n)
<1> DEFINE k == Len(opened)
           x == [opened[k] EXCEPT !.filled = FALSE]
           t == [opened EXCEPT ![k] = x]
<1>1. opened' = Append([opened EXCEPT ![k].filled = FALSE], e)
  BY DEF Open
<1>2. [opened EXCEPT ![k].filled = FALSE] = t
  OBVIOUS
<1>3. opened' = Append(t, e)
  BY <1>1, <1>2
<1>4. Last(opened) = opened[k] /\ IsElement(Last(opened))
  BY InnermostElement
<1>5. FilledAs(x, Last(opened), FALSE)
  BY <1>4, Zenon DEF FilledAs
<1>6. Replaced(t, opened, x)
  BY DEF Replaced
<1> HIDE DEF x, t, k
<1>7. IsElement(x) /\ Alike(x, Last(opened))
  BY <1>4, <1>5, ElementFilled
<1>8. Nested(t, C, n)
  BY <1>6, <1>7, ElementTouched
<1>9. Nested(Append(t, e), C, IF Quoting(e) THEN n + 1 ELSE n)
  BY <1>8, ElementPushed
<1> QED BY <1>3, <1>9

\* The parser closes the innermost element.
LEMMA CloseNests ==
  ASSUME NEW C, NEW n \in Nat, Nested(opened, C, n), NEW modes, Close(modes)
  PROVE  /\ Nested(opened', C, IF Quoting(Parent) THEN n - 1 ELSE n)
         /\ Parent.mode \in modes /\ IsElement(Parent) /\ Rooted(Parent, C)
<1> DEFINE s == Front(opened)
           k == Len(s)
           x == [s[k] EXCEPT !.filled = FALSE]
           t == [s EXCEPT ![k] = x]
           m == IF Quoting(Parent) THEN n - 1 ELSE n
<1>1. /\ opened' = [s EXCEPT ![Len(opened) - 1].filled = FALSE]
      /\ Len(opened) > 1 /\ Parent.mode \in modes
  BY DEF Close
<1>2. Nested(s, C, m) /\ k = Len(opened) - 1
  BY <1>1, ElementPopped DEF Parent
<1>3. opened' = [s EXCEPT ![k].filled = FALSE]
  BY <1>1, <1>2
<1>4. [s EXCEPT ![k].filled = FALSE] = t
  OBVIOUS
<1> HIDE DEF s, m
<1>5. Last(s) = s[k] /\ IsElement(Last(s))
  BY <1>2, InnermostElement
<1>6. FilledAs(x, Last(s), FALSE)
  BY <1>5, Zenon DEF FilledAs
<1>7. Replaced(t, s, x)
  BY DEF Replaced
<1>8. opened' = t
  BY <1>3, <1>4
<1> HIDE DEF x, t, k
<1>9. IsElement(x) /\ Alike(x, Last(s))
  BY <1>5, <1>6, ElementFilled
<1>10. Nested(t, C, m)
  BY <1>2, <1>7, <1>9, ElementTouched
<1>11. Parent.mode \in modes /\ IsElement(Parent) /\ Rooted(Parent, C)
  BY <1>1, InnermostElement DEF Parent
<1> QED BY <1>8, <1>10, <1>11 DEF m

-----------------------------------------------------------------------------
(* HTML: the elements that only flush the stray text.                      *)

\* WalkElement flushes or not, and opens an element without a node.
LEMMA WalkElementKeeps ==
  ASSUME HtmlInv, WalkElement
  PROVE  HtmlInv'
<1> DEFINE p == Flushed
           el(tag) == CASE tag \in {"div", "ul"} -> Element(tag, "walk", FALSE, 0)
                        [] tag \in {"p", "pre", "heading"} -> Element(tag, "raw", FALSE, 0)
                        [] tag = "caption" -> Element(tag, "raw", TRUE, 0)
                        [] OTHER -> Element(tag, "reported", FALSE, 0)
           C == Range(p.candidates)
           n == Len(p.notes)
<1>1. PICK tag \in Flow \cup Anywhere :
        /\ MayStand(tag) /\ tag # "quote" /\ Open(el(tag))
        /\ Becomes(p) /\ raw' = <<>> /\ Unmoved /\ UNCHANGED diagnostics
  BY DEF WalkElement
<1> DEFINE e == el(tag)
<1>2. Sound(p, <<>>, sections, opened)
  BY FlushedIsSound
<1>3. \E mode \in {"walk", "raw", "reported"} : Opening(e, tag, mode, 0)
  BY DEF Opening
<1>4. /\ Open(e) /\ Becomes(p) /\ raw' = <<>> /\ tag # "quote"
      /\ diagnostics' = diagnostics /\ sections' = sections
      /\ texts' = texts /\ unread' = unread /\ ingested' = ingested /\ ~ingested
  BY <1>1 DEF Open, Unmoved, MayStand
<1> HIDE DEF p, el, e
<1>5. IsElement(e) /\ e.tag = tag /\ e.mode \in {"walk", "raw", "reported"}
  BY <1>3, ElementIs DEF ElementModes
<1>6. Rooted(e, C) /\ ~Quoting(e)
  BY <1>4, <1>5 DEF Rooted, Quoting
<1>7. Nested(opened, C, n) /\ n \in Nat
  BY <1>2 DEF Sound
<1> HIDE DEF C, n
<1>8. Nested(opened', C, n)
  BY <1>4, <1>5, <1>6, <1>7, OpenNests
<1>9. Sound(p, raw', sections', opened')
  BY <1>2, <1>4, <1>8 DEF Sound, C, n
<1> QED BY <1>4, <1>9, HtmlStep

\* A container or a paragraph closes, and the buffer is flushed.
LEMMA CloseContainerKeeps ==
  ASSUME HtmlInv, \/ CloseContainer
                  \/ CloseParagraph
  PROVE  HtmlInv'
<1> DEFINE p == Flushed
           C == Range(p.candidates)
           n == Len(p.notes)
<1>1. PICK modes : /\ Close(modes) /\ Becomes(p) /\ raw' = <<>> /\ Unmoved
                   /\ UNCHANGED diagnostics /\ modes \in {{"walk"}, {"raw"}}
                   /\ Parent.tag # "quote" \/ modes = {"raw"}
  BY DEF CloseContainer, CloseParagraph
<1>2. Sound(p, <<>>, sections, opened)
  BY FlushedIsSound
<1>3. /\ Becomes(p) /\ raw' = <<>> /\ diagnostics' = diagnostics /\ sections' = sections
      /\ texts' = texts /\ unread' = unread /\ ingested' = ingested /\ ~ingested
  BY <1>1 DEF Close, Unmoved
<1> HIDE DEF p
<1>4. Nested(opened, C, n) /\ n \in Nat
  BY <1>2 DEF Sound
<1> HIDE DEF C, n
<1>5. Nested(opened', C, IF Quoting(Parent) THEN n - 1 ELSE n) /\ Parent.mode \in modes
  BY <1>1, <1>4, CloseNests
<1>6. ~Quoting(Parent)
  BY <1>1, <1>5 DEF Quoting
<1>7. Sound(p, raw', sections', opened')
  BY <1>2, <1>3, <1>5, <1>6 DEF Sound, C, n
<1> QED BY <1>3, <1>7, HtmlStep

\* EndOfTree flushes for the last time, when no note is open any more.
LEMMA EndOfTreeKeeps ==
  ASSUME HtmlInv, EndOfTree
  PROVE  HtmlInv'
<1> DEFINE p == Flushed
<1>1. /\ Becomes(p) /\ raw' = <<>> /\ Len(opened) = 1 /\ sections' = sections /\ opened' = opened
      /\ texts' = texts /\ unread' = unread /\ diagnostics' = diagnostics
  BY DEF EndOfTree, Unmoved
<1>2. Sound(p, <<>>, sections, opened)
  BY FlushedIsSound
<1> HIDE DEF p
<1>3. Len(p.notes) = 0
  BY <1>1, <1>2, InnermostElement DEF Sound
<1>4. p.notes \in Seq(Range(p.notes))
  BY <1>2 DEF Sound, Standing, Distinct
<1>5. p.notes = <<>>
  BY <1>3, <1>4, ListsHaveLength
<1>6. Sound(p, raw', sections', opened')
  BY <1>1, <1>2 DEF Sound
<1> QED BY <1>1, <1>5, <1>6, HtmlStep

-----------------------------------------------------------------------------
(* HTML: the elements that are emitted as they open.                       *)

\* A node below another, or below the innermost section, with an element that adds to it.
LEMMA NodeOpens ==
  ASSUME HtmlInv, NEW o, NEW text, Sound(o, text, sections, opened),
         NEW parent \in 0..o.next, NEW kind,
         MayBear(HtmlSites(Range(o.candidates), Range(o.notes)), parent, kind),
         NEW p, p = Emit(o, parent, kind, <<>>),
         NEW e, IsElement(e), e.mode # "walk", e.node = p.next,
         e.mode = "table" => kind = "table", e.mode = "row" => kind = "table_row"
  PROVE  /\ Sound(p, text, sections, Append(opened, e)) /\ Sound(p, text, sections, opened)
         /\ Rooted(e, Range(p.candidates)) /\ ~Quoting(e) /\ p.notes = o.notes
         /\ Grown(Range(o.candidates), Range(p.candidates))
<1> DEFINE C == Range(p.candidates)
           B == Range(o.candidates)
           n == Len(o.notes)
           lost == HtmlLost
<1>1. /\ Standing(o, text, lost, texts) /\ OpenSections(sections, B) /\ Nested(opened, B, n) /\ n \in Nat
  BY DEF Sound
<1> HIDE DEF lost
<1>2. /\ Standing(p, text, lost, texts) /\ Grown(B, C) /\ p.notes = o.notes
      /\ \E x \in C : x.provisional = p.next /\ x.kind = kind
  BY <1>1, EmitStands, SMTT(30)
<1> HIDE DEF B, C, n
<1>3. Rooted(e, C) /\ ~Quoting(e)
  BY <1>2 DEF Rooted, Quoting
<1>4. OpenSections(sections, C)
  BY <1>1, <1>2, SectionsStayOpen DEF Grown
<1>5. Nested(opened, C, n)
  BY <1>1, <1>2, StaysNested
<1>6. Nested(Append(opened, e), C, n)
  BY <1>1, <1>3, <1>5, ElementPushed
<1> QED BY <1>1, <1>2, <1>3, <1>4, <1>5, <1>6 DEF Sound, lost, C, n, B

\* WalkTable and WalkItem emit the node to which the content goes.
LEMMA WalkTableKeeps ==
  ASSUME HtmlInv, \/ WalkTable
                  \/ WalkItem
  PROVE  HtmlInv'
<1> DEFINE o == Flushed
           parent == SectionParent
<1>1. PICK kind, e : /\ Becomes(Emit(o, parent, kind, <<>>)) /\ Open(e) /\ raw' = <<>>
                     /\ Unmoved /\ UNCHANGED diagnostics /\ ~ingested
                     /\ \/ kind = "table" /\ e = Element("table", "table", FALSE, Emit(o, parent, kind, <<>>).next)
                        \/ kind = "list_item" /\ e = Element("li", "children", FALSE, Emit(o, parent, kind, <<>>).next)
  BY DEF WalkTable, WalkItem, MayStand
<1> DEFINE p == Emit(o, parent, kind, <<>>)
           C == Range(p.candidates)
           n == Len(p.notes)
<1>2. Sound(o, <<>>, sections, opened)
  BY FlushedIsSound
<1>3. /\ Becomes(p) /\ Open(e) /\ raw' = <<>> /\ diagnostics' = diagnostics /\ sections' = sections
      /\ texts' = texts /\ unread' = unread /\ ingested' = ingested /\ ~ingested
  BY <1>1 DEF Open, Unmoved
<1>4. IsElement(e) /\ e.mode \in {"table", "children"} /\ e.node = p.next /\ (e.mode = "table" => kind = "table")
  <2> DEFINE node == p.next
  <2>1. \/ kind = "table" /\ Opening(e, "table", "table", node)
        \/ Opening(e, "li", "children", node)
    BY <1>1 DEF Opening
  <2>2. "table" \in ElementModes /\ "children" \in ElementModes
    BY DEF ElementModes
  <2> HIDE DEF p, node
  <2>3. CASE kind = "table" /\ Opening(e, "table", "table", node)
    BY <2>2, <2>3, ElementIs DEF node
  <2>4. CASE Opening(e, "li", "children", node)
    BY <2>2, <2>4, ElementIs DEF node
  <2> QED BY <2>1, <2>3, <2>4
<1> HIDE DEF o
<1>5. parent \in 0..o.next /\ MayBear(HtmlSites(Range(o.candidates), Range(o.notes)), parent, kind)
  BY <1>2, MayGoBelow DEF Sound, SectionParent
<1>6. p = Emit(o, parent, kind, <<>>)
  OBVIOUS
<1> HIDE DEF p, parent
<1>7. Sound(p, <<>>, sections, opened) /\ Rooted(e, C) /\ ~Quoting(e)
  BY <1>2, <1>4, <1>5, <1>6, NodeOpens
<1>8. Nested(opened, C, n) /\ n \in Nat
  BY <1>7 DEF Sound
<1> HIDE DEF C, n
<1>9. Nested(opened', C, n)
  BY <1>3, <1>4, <1>7, <1>8, OpenNests DEF C
<1>10. Sound(p, raw', sections', opened')
  BY <1>3, <1>7, <1>9 DEF Sound, C, n
<1> QED BY <1>3, <1>10, HtmlStep

-----------------------------------------------------------------------------
(* HTML: rows.                                                             *)

\* e is x with other columns carried.
Carrying(e, x, columns) == e = [x EXCEPT !.carry = columns]

\* A row that carries columns is like the element before.
LEMMA RowIs ==
  ASSUME NEW x, IsElement(x), NEW columns, IsFiniteSet(DOMAIN columns), NEW e, Carrying(e, x, columns)
  PROVE  IsElement(e) /\ Alike(e, x)
<1>1. e = [tag |-> x.tag, mode |-> x.mode, fold |-> x.fold, node |-> x.node, filled |-> x.filled,
           carry |-> columns, pending |-> x.pending, later |-> x.later, column |-> x.column]
  BY DEF IsElement, Carrying
<1>2. /\ e.tag = x.tag /\ e.mode = x.mode /\ e.node = x.node /\ e.carry = columns
      /\ e.pending = x.pending /\ e.later = x.later /\ e.column = x.column
      /\ e = [tag |-> e.tag, mode |-> e.mode, fold |-> e.fold, node |-> e.node, filled |-> e.filled,
              carry |-> e.carry, pending |-> e.pending, later |-> e.later, column |-> e.column]
  BY <1>1
<1> QED BY <1>2, Zenon DEF IsElement, Alike

\* WalkRow emits the row and takes over the columns that still span.
LEMMA WalkRowKeeps ==
  ASSUME HtmlInv, WalkRow
  PROVE  HtmlInv'
<1> DEFINE o == Emitted
           parent == Parent.node
           p == Emit(o, parent, "table_row", <<>>)
           x == Element("tr", "row", FALSE, p.next)
           columns == Parent.pending
           e == [x EXCEPT !.carry = columns]
<1>1. /\ Becomes(p) /\ opened' = Append(opened, e) /\ Parent.mode = "table"
      /\ raw' = raw /\ diagnostics' = diagnostics /\ sections' = sections
      /\ texts' = texts /\ unread' = unread /\ ingested' = ingested /\ ~ingested
  BY DEF WalkRow, Unmoved
<1>2. Sound(o, raw, sections, opened)
  BY EmittedIsSound
<1>3. Carrying(e, x, columns)
  BY Zenon DEF Carrying
<1>4. p = Emit(o, parent, "table_row", <<>>)
  OBVIOUS
<1>5. Opening(x, "tr", "row", p.next) /\ "row" \in ElementModes
  BY DEF Opening, ElementModes
<1> HIDE DEF o, p, x, e
<1>6. IsElement(Parent) /\ Rooted(Parent, Range(o.candidates))
  BY <1>2, InnermostElement DEF Sound, Parent
<1>7. IsElement(x) /\ x.mode = "row" /\ x.node = p.next
  BY <1>5, ElementIs
<1>8. IsFiniteSet(DOMAIN columns)
  BY <1>6 DEF IsElement
<1> HIDE DEF columns
<1>9. IsElement(e) /\ Alike(e, x)
  BY <1>3, <1>7, <1>8, RowIs
<1>10. e.mode = "row" /\ e.node = p.next
  BY <1>7, <1>9 DEF Alike
<1>11. parent \in 0..o.next /\ MayBear(HtmlSites(Range(o.candidates), Range(o.notes)), parent, "table_row")
  <2>1. PICK c \in Range(o.candidates) : c.provisional = parent /\ c.kind = "table"
    BY <1>1, <1>6 DEF Rooted
  <2>2. SourceGraph!MayParent(c.kind, "table_row")
    BY <2>1 DEF SourceGraph!MayParent
  <2>3. Standing(o, raw, HtmlLost, texts)
    BY <1>2 DEF Sound
  <2> QED BY <2>1, <2>2, <2>3, MayGoBelowNode
<1> HIDE DEF parent
<1>12. Sound(p, raw, sections, Append(opened, e))
  BY <1>2, <1>4, <1>9, <1>10, <1>11, NodeOpens
<1>13. Sound(p, raw', sections', opened')
  BY <1>1, <1>12
<1> QED BY <1>1, <1>13, HtmlStep

-----------------------------------------------------------------------------
(* HTML: absorbing notes.                                                  *)

\* A new note has no text.
LEMMA NoteFields ==
  ASSUME NEW id, NEW parent, NEW ordinal,
         NEW e, e = [provisional |-> id, parent |-> parent, ordinal |-> ordinal, text |-> <<>>]
  PROVE  /\ IsNote(e) /\ e.provisional = id /\ e.parent = parent /\ e.ordinal = ordinal /\ e.text = <<>>
<1>1. /\ e.provisional = id /\ e.parent = parent /\ e.ordinal = ordinal /\ e.text = <<>>
      /\ e = [provisional |-> e.provisional, parent |-> e.parent, ordinal |-> e.ordinal, text |-> e.text]
  OBVIOUS
<1>2. e.text \in Seq(Nat)
  BY <1>1, EmptySeq
<1> QED BY <1>1, <1>2, Zenon DEF IsNote

\* How a note opens in the output.
LEMMA NoteOpensAs ==
  ASSUME NEW o, o = Out(o.candidates, o.ordinals, o.next, o.notes), NEW parent, NEW note
  PROVE  [o EXCEPT !.notes = Append(@, note), !.next = @ + 1, !.ordinals = CountedIn(@, parent)]
            = Out(o.candidates, CountedIn(o.ordinals, parent), o.next + 1, Append(o.notes, note))
<1> DEFINE w == Append(o.notes, note)
           counts == CountedIn(o.ordinals, parent)
           next == o.next + 1
           a == [o EXCEPT !.notes = w]
           b == [a EXCEPT !.next = next]
<1>1. [o EXCEPT !.notes = Append(@, note), !.next = @ + 1, !.ordinals = CountedIn(@, parent)]
        = [o EXCEPT !.notes = w, !.next = next, !.ordinals = counts]
  OBVIOUS
<1> HIDE DEF w, counts, next
<1>2. [o EXCEPT !.notes = w, !.next = next, !.ordinals = counts] = [b EXCEPT !.ordinals = counts]
  BY DEF Out
<1>3. a = Out(o.candidates, o.ordinals, o.next, w)
  BY DEF Out
<1> HIDE DEF a
<1>4. b = Out(o.candidates, o.ordinals, next, w)
  BY <1>3 DEF Out
<1> HIDE DEF b
<1>5. [b EXCEPT !.ordinals = counts] = Out(o.candidates, counts, next, w)
  BY <1>4 DEF Out
<1> QED BY <1>1, <1>2, <1>5 DEF w, counts, next

\* WalkQuote takes the place of a note that it emits only when the element closes.
LEMMA WalkQuoteKeeps ==
  ASSUME HtmlInv, WalkQuote
  PROVE  HtmlInv'
<1> DEFINE o == Flushed
           parent == SectionParent
           note == [provisional |-> o.next + 1, parent |-> parent,
                    ordinal |-> OrdinalIn(o.ordinals, parent), text |-> <<>>]
           p == Out(o.candidates, CountedIn(o.ordinals, parent), o.next + 1, Append(o.notes, note))
           e == Element("quote", "walk", FALSE, 0)
           n == Len(o.notes)
           C == Range(o.candidates)
<1>1. /\ Becomes([o EXCEPT !.notes = Append(@, note), !.next = @ + 1,
                          !.ordinals = CountedIn(@, parent)])
      /\ Open(e) /\ raw' = <<>> /\ diagnostics' = diagnostics /\ sections' = sections
      /\ texts' = texts /\ unread' = unread /\ ingested' = ingested /\ ~ingested
  BY DEF WalkQuote, Unmoved, Open, MayStand
<1>2. Sound(o, <<>>, sections, opened)
  BY FlushedIsSound
<1>3. Opening(e, "quote", "walk", 0) /\ "walk" \in ElementModes
  BY DEF Opening, ElementModes
<1> HIDE DEF o, e
<1>4. Becomes(p)
  BY <1>1, <1>2, NoteOpensAs DEF Sound, Standing
<1>5. /\ IsNote(note) /\ note.provisional = o.next + 1 /\ note.parent = parent
      /\ note.ordinal = OrdinalIn(o.ordinals, parent) /\ note.text = <<>>
  BY NoteFields
<1>6. /\ parent \in 0..o.next
      /\ MayBear(HtmlSites(Range(o.candidates), Range(o.notes)), parent, "note")
  BY <1>2, MayGoBelow DEF Sound, SectionParent
<1> HIDE DEF parent, note
<1>7. p = Out(o.candidates, CountedIn(o.ordinals, note.parent), o.next + 1, Append(o.notes, note))
  BY <1>5
<1>8. /\ Standing(o, <<>>, HtmlLost, texts) /\ note.parent \in 0..o.next
      /\ note.ordinal = OrdinalIn(o.ordinals, note.parent)
      /\ MayBear(HtmlSites(Range(o.candidates), Range(o.notes)), note.parent, "note")
  BY <1>2, <1>5, <1>6 DEF Sound
<1> HIDE DEF p
<1>9. /\ Standing(p, <<>>, HtmlLost, texts) /\ p.candidates = o.candidates
      /\ p.notes = Append(o.notes, note)
  BY <1>5, <1>7, <1>8, NoteAdded
<1>10. Len(p.notes) = n + 1
  BY <1>8, <1>9, AppendList DEF Standing, Distinct
<1>11. /\ IsElement(e) /\ Rooted(e, C) /\ Quoting(e)
  <2>1. IsElement(e) /\ e.tag = "quote" /\ e.mode = "walk"
    BY <1>3, ElementIs
  <2> QED BY <2>1 DEF Rooted, Quoting
<1>12. Nested(opened, C, n) /\ n \in Nat
  BY <1>2 DEF Sound
<1> HIDE DEF C, n
<1>13. Nested(opened', C, n + 1)
  BY <1>1, <1>11, <1>12, OpenNests
<1>14. OpenSections(sections, C)
  BY <1>2 DEF Sound, C
<1>15. Sound(p, raw', sections', opened')
  BY <1>1, <1>9, <1>10, <1>12, <1>13, <1>14 DEF Sound, C
<1> QED BY <1>1, <1>4, <1>15, HtmlStep

\* How a note closes in the output.
LEMMA NoteClosesAs ==
  ASSUME NEW o, o = Out(o.candidates, o.ordinals, o.next, o.notes), NEW e
  PROVE  [o EXCEPT !.notes = Front(@), !.candidates = Append(@, e)]
            = Out(Append(o.candidates, e), o.ordinals, o.next, Front(o.notes))
<1> DEFINE w == Front(o.notes)
           c == Append(o.candidates, e)
           a == [o EXCEPT !.notes = w]
<1>1. [o EXCEPT !.notes = Front(@), !.candidates = Append(@, e)] = [o EXCEPT !.notes = w, !.candidates = c]
  OBVIOUS
<1> HIDE DEF w, c
<1>2. [o EXCEPT !.notes = w, !.candidates = c] = [a EXCEPT !.candidates = c]
  BY DEF Out
<1>3. a = Out(o.candidates, o.ordinals, o.next, w)
  BY DEF Out
<1> HIDE DEF a
<1>4. [a EXCEPT !.candidates = c] = Out(c, o.ordinals, o.next, w)
  BY <1>3 DEF Out
<1> QED BY <1>1, <1>2, <1>4 DEF w, c

\* CloseQuote emits the innermost note at the place that it has.
LEMMA CloseQuoteKeeps ==
  ASSUME HtmlInv, CloseQuote
  PROVE  HtmlInv'
<1> DEFINE o == Flushed
           x == Last(o.notes)
           e == Node(x.provisional, x.parent, "note", x.ordinal, x.text)
           p == Out(Append(o.candidates, e), o.ordinals, o.next, Front(o.notes))
           n == Len(o.notes)
           B == Range(o.candidates)
           C == Range(p.candidates)
           lost == HtmlLost
<1>1. /\ Becomes([o EXCEPT !.notes = Front(@), !.candidates = Append(@, e)])
      /\ Close({"walk"}) /\ Parent.tag = "quote"
      /\ raw' = <<>> /\ diagnostics' = diagnostics /\ sections' = sections
  BY DEF CloseQuote, Unmoved
<1>2. /\ texts' = texts /\ unread' = unread /\ ingested' = ingested /\ ~ingested
  BY <1>1 DEF Close
<1>3. Sound(o, <<>>, sections, opened)
  BY FlushedIsSound
<1> HIDE DEF o, e
<1>4. Becomes(p)
  BY <1>1, <1>3, NoteClosesAs DEF Sound, Standing
<1>5. /\ Standing(o, <<>>, lost, texts) /\ OpenSections(sections, B) /\ Nested(opened, B, n) /\ n \in Nat
  BY <1>3 DEF Sound
<1> HIDE DEF lost, B
<1>6. Nested(opened', B, n - 1)
  <2>1. Nested(opened', B, IF Quoting(Parent) THEN n - 1 ELSE n) /\ Parent.mode \in {"walk"}
    BY <1>1, <1>5, CloseNests
  <2>2. Quoting(Parent)
    BY <1>1, <2>1 DEF Quoting
  <2> QED BY <2>1, <2>2
<1>7. n - 1 \in Nat
  BY <1>6, FS_CardinalityType DEF Nested
<1>8. o.notes # <<>> /\ Len(Front(o.notes)) = n - 1 /\ IsNote(x)
  <2>1. Distinct(o.notes) /\ o.notes \in Seq(Range(o.notes))
    BY <1>5 DEF Standing, Distinct
  <2>2. o.notes # <<>>
    BY <1>5, <1>7, <2>1, ListsHaveLength
  <2>3. Len(Front(o.notes)) = n - 1 /\ x \in Range(o.notes)
    BY <2>1, <2>2, FrontList
  <2> QED BY <1>5, <2>2, <2>3 DEF Standing
<1>9. /\ IsCandidate(e) /\ e.provisional = x.provisional /\ e.parent = x.parent /\ e.kind = "note"
      /\ e.ordinal = x.ordinal /\ e.text = x.text
  <2>1. x.text \in Seq(Nat)
    BY <1>8 DEF IsNote
  <2> HIDE DEF x
  <2> QED BY <2>1, NodeIsCandidate DEF e
<1>10. SiteOf(e) = NoteSite(x)
  BY <1>9 DEF SiteOf, NoteSite
<1>11. p = Out(Append(o.candidates, e), o.ordinals, o.next, Front(o.notes))
  OBVIOUS
<1> HIDE DEF p, n
<1>12. /\ Standing(p, <<>>, lost, texts) /\ C = B \cup {e} /\ p.notes = Front(o.notes)
  BY <1>5, <1>8, <1>9, <1>10, <1>11, NoteTaken DEF B
<1> HIDE DEF C
<1>13. Grown(B, C)
  BY <1>12, GrownParts
<1>14. OpenSections(sections, C) /\ Nested(opened', C, n - 1)
  BY <1>5, <1>6, <1>13, SectionsStayOpen, StaysNested DEF Grown
<1>15. Sound(p, raw', sections', opened')
  BY <1>1, <1>7, <1>8, <1>12, <1>14 DEF Sound, C, lost
<1> QED BY <1>1, <1>2, <1>4, <1>15, HtmlStep

-----------------------------------------------------------------------------
(* HTML: elements without a node of their own, and leaves.                 *)

\* Collect flushes and lends the buffer to the leaf.
LEMMA CollectKeeps ==
  ASSUME HtmlInv, Collect
  PROVE  HtmlInv'
<1> DEFINE p == Emitted
           C == Range(p.candidates)
           n == Len(p.notes)
           x == Parent
           el(tag) == IF tag \in Dropped THEN Element(tag, "reported", FALSE, 0)
                      ELSE IF x.mode = "walk" THEN Element(tag, "raw", TRUE, 0)
                      ELSE IF x.mode = "children" THEN Element(tag, "node", FALSE, x.node)
                      ELSE IF ~x.fold /\ tag \in NestedBlocks THEN Element(tag, "silent", FALSE, 0)
                      ELSE Element(tag, x.mode, x.fold, x.node)
<1>1. PICK tag \in Flow \cup Anywhere :
        /\ ~ingested /\ Open(el(tag)) /\ Unmoved
        /\ UNCHANGED <<raw, candidates, ordinals, nextProvisional, notes, diagnostics>>
  BY DEF Collect, MayStand
<1> DEFINE e == el(tag)
<1>2. Sound(p, raw, sections, opened)
  BY EmittedIsSound
<1>3. IsElement(x) /\ Rooted(x, C)
  BY <1>2, InnermostElement DEF Sound, Parent
<1>4. /\ Open(e) /\ Becomes(p) /\ raw' = raw /\ diagnostics' = diagnostics /\ sections' = sections
      /\ texts' = texts /\ unread' = unread /\ ingested' = ingested /\ ~ingested
  BY <1>1, EmittedFields DEF Open, Unmoved, Becomes
<1>5. \/ \E mode \in {"reported", "raw", "silent"} : Opening(e, tag, mode, 0)
      \/ x.mode = "children" /\ Opening(e, tag, "node", x.node)
      \/ x.mode # "walk" /\ x.mode # "children" /\ Opening(e, tag, x.mode, x.node)
  BY DEF Opening
<1> HIDE DEF p, x, el, e
<1>6. IsElement(e) /\ Rooted(e, C) /\ ~Quoting(e)
  <2>1. CASE \E mode \in {"reported", "raw", "silent"} : Opening(e, tag, mode, 0)
    <3>1. IsElement(e) /\ e.mode \in {"reported", "raw", "silent"}
      BY <2>1, ElementIs DEF ElementModes
    <3> QED BY <3>1 DEF Rooted, Quoting
  <2>2. CASE x.mode = "children" /\ Opening(e, tag, "node", x.node)
    <3>1. IsElement(e) /\ e.mode = "node" /\ e.node = x.node
      BY <2>2, ElementIs DEF ElementModes
    <3> QED BY <1>3, <2>2, <3>1 DEF Rooted, Quoting
  <2>3. CASE x.mode # "walk" /\ x.mode # "children" /\ Opening(e, tag, x.mode, x.node)
    <3>1. x.mode \in ElementModes
      BY <1>3 DEF IsElement
    <3>2. IsElement(e) /\ e.mode = x.mode /\ e.node = x.node
      BY <2>3, <3>1, ElementIs
    <3> QED BY <1>3, <2>3, <3>2 DEF Rooted, Quoting
  <2> QED BY <1>5, <2>1, <2>2, <2>3
<1>7. Nested(opened, C, n) /\ n \in Nat
  BY <1>2 DEF Sound
<1> HIDE DEF C, n
<1>8. Nested(opened', C, n)
  BY <1>4, <1>6, <1>7, OpenNests
<1>9. Sound(p, raw', sections', opened')
  BY <1>2, <1>4, <1>8 DEF Sound, C, n
<1> QED BY <1>4, <1>9, HtmlStep

\* What is open below an element that is no note.
LEMMA ClosesBelow ==
  ASSUME NEW p, NEW text, Sound(p, text, sections, opened),
         NEW modes, Close(modes), "walk" \notin modes
  PROVE  Sound(p, text, sections, opened')
<1> DEFINE C == Range(p.candidates)
           n == Len(p.notes)
<1>1. Nested(opened, C, n) /\ n \in Nat
  BY DEF Sound
<1> HIDE DEF C, n
<1>2. Nested(opened', C, IF Quoting(Parent) THEN n - 1 ELSE n) /\ Parent.mode \in modes
  BY <1>1, CloseNests
<1>3. Nested(opened', C, n)
  BY <1>2 DEF Quoting
<1> QED BY <1>3 DEF Sound, C, n

\* CloseQuietly leaves the output as it is.
LEMMA CloseQuietlyKeeps ==
  ASSUME HtmlInv, CloseQuietly
  PROVE  HtmlInv'
<1> DEFINE p == Emitted
           modes == {"raw", "node", "children", "table", "reported", "silent"}
<1>1. /\ Close(modes) /\ raw' = raw /\ diagnostics' = diagnostics /\ sections' = sections
      /\ candidates' = candidates /\ ordinals' = ordinals
      /\ nextProvisional' = nextProvisional /\ notes' = notes
  BY DEF CloseQuietly, Unmoved
<1>2. /\ Becomes(p) /\ texts' = texts /\ unread' = unread /\ ingested' = ingested /\ ~ingested
  BY <1>1, EmittedFields DEF Close, Becomes
<1>3. Sound(p, raw, sections, opened) /\ "walk" \notin modes
  BY EmittedIsSound
<1> HIDE DEF p, modes
<1>4. Sound(p, raw', sections', opened')
  BY <1>1, <1>3, ClosesBelow
<1> QED BY <1>1, <1>2, <1>4, HtmlStep

\* A node with the text of the buffer.
LEMMA LeafEmitted ==
  ASSUME HtmlInv, NEW o, NEW text, Sound(o, text, sections, opened),
         NEW parent \in 0..o.next, NEW kind,
         MayBear(HtmlSites(Range(o.candidates), Range(o.notes)), parent, kind),
         NEW p, p = Emit(o, parent, kind, text)
  PROVE  Sound(p, <<>>, sections, opened)
<1> DEFINE C == Range(p.candidates)
           B == Range(o.candidates)
           n == Len(o.notes)
           lost == HtmlLost
<1>1. /\ Standing(o, text, lost, texts) /\ OpenSections(sections, B) /\ Nested(opened, B, n) /\ n \in Nat
  BY DEF Sound
<1> HIDE DEF lost
<1>2. /\ Standing(p, <<>>, lost, texts) /\ Grown(B, C) /\ p.notes = o.notes
  BY <1>1, EmitStands
<1> HIDE DEF B, C, n
<1>3. OpenSections(sections, C) /\ Nested(opened, C, n)
  BY <1>1, <1>2, SectionsStayOpen, StaysNested DEF Grown
<1> QED BY <1>1, <1>2, <1>3 DEF Sound, lost, C, n

\* CloseLeaf emits the leaf with the text of the buffer.
LEMMA CloseLeafKeeps ==
  ASSUME HtmlInv, CloseLeaf
  PROVE  HtmlInv'
<1> DEFINE o == Emitted
           parent == SectionParent
           kind == IF Parent.tag = "pre" THEN "code_block" ELSE "figure_caption"
           p == Emit(o, parent, kind, raw)
<1>1. /\ Close({"raw"}) /\ Becomes(p) /\ raw' = <<>> /\ diagnostics' = diagnostics /\ sections' = sections
  BY DEF CloseLeaf, Unmoved
<1>2. /\ texts' = texts /\ unread' = unread /\ ingested' = ingested /\ ~ingested
  BY <1>1 DEF Close
<1>3. Sound(o, raw, sections, opened) /\ p = Emit(o, parent, kind, raw)
  BY EmittedIsSound
<1> HIDE DEF o, p, kind
<1>4. parent \in 0..o.next /\ MayBear(HtmlSites(Range(o.candidates), Range(o.notes)), parent, kind)
  BY <1>3, MayGoBelow DEF Sound, SectionParent
<1> HIDE DEF parent
<1>5. Sound(p, <<>>, sections, opened)
  BY <1>3, <1>4, LeafEmitted
<1>6. Sound(p, raw', sections', opened')
  BY <1>1, <1>5, ClosesBelow
<1> QED BY <1>1, <1>2, <1>6, HtmlStep

-----------------------------------------------------------------------------
(* HTML: headings.                                                         *)

\* e is x with a label and an anchor.
Titled(e, x, label, anchor) == e = [x EXCEPT !.label = label, !.anchor = anchor]

\* A section that is given its label and its anchor.
LEMMA TitledFields ==
  ASSUME NEW x, IsCandidate(x), x.kind = "section", NEW anchor, NEW e, Titled(e, x, LabelOf(x.text), anchor)
  PROVE  /\ IsCandidate(e) /\ e.provisional = x.provisional /\ e.parent = x.parent /\ e.kind = x.kind
         /\ e.ordinal = x.ordinal /\ e.text = x.text
<1> DEFINE label == LabelOf(x.text)
           a == [x EXCEPT !.label = label]
           b == [provisional |-> x.provisional, parent |-> x.parent, kind |-> x.kind, ordinal |-> x.ordinal,
                 text |-> x.text, label |-> label, anchor |-> anchor]
<1>1. e = [x EXCEPT !.label = label, !.anchor = anchor]
  BY DEF Titled
<1>2. x = [provisional |-> x.provisional, parent |-> x.parent, kind |-> x.kind, ordinal |-> x.ordinal,
           text |-> x.text, label |-> x.label, anchor |-> x.anchor]
  BY DEF IsCandidate
<1> HIDE DEF label
<1>3. [x EXCEPT !.label = label, !.anchor = anchor] = [a EXCEPT !.anchor = anchor]
  BY <1>2
<1>4. a = [provisional |-> x.provisional, parent |-> x.parent, kind |-> x.kind, ordinal |-> x.ordinal,
           text |-> x.text, label |-> label, anchor |-> x.anchor]
  BY <1>2
<1> HIDE DEF a
<1>5. [a EXCEPT !.anchor = anchor] = b
  BY <1>4
<1>6. e = b
  BY <1>1, <1>3, <1>5
<1>7. /\ e.provisional = x.provisional /\ e.parent = x.parent /\ e.kind = x.kind
      /\ e.ordinal = x.ordinal /\ e.text = x.text /\ e.label = label
      /\ e = [provisional |-> e.provisional, parent |-> e.parent, kind |-> e.kind, ordinal |-> e.ordinal,
              text |-> e.text, label |-> e.label, anchor |-> e.anchor]
  BY <1>6
<1> HIDE DEF b
<1>8. x.text \in Seq(Nat)
  BY DEF IsCandidate
<1>9. e.label = NoId \/ NamedAsHeading(e)
  <2>1. CASE x.text = <<>>
    BY <1>7, <2>1 DEF LabelOf, label
  <2>2. CASE x.text # <<>>
    <3>1. 1 \in DOMAIN x.text
      BY <1>8, <2>2
    <3>2. e.label = <<"heading", e.text[1]>>
      BY <1>7, <2>2 DEF LabelOf, label
    <3> QED BY <1>7, <3>1, <3>2, Zenon DEF NamedAsHeading
  <2> QED BY <2>1, <2>2
<1>10. IsCandidate(e)
  BY <1>7, <1>8, <1>9, Zenon DEF IsCandidate
<1> QED BY <1>7, <1>10

\* The element at the end replaced.
LEMMA AppendReplaced ==
  ASSUME NEW s, s \in Seq(Range(s)), NEW x, NEW e
  PROVE  [Append(s, x) EXCEPT ![Len(Append(s, x))] = e] = Append(s, e)
<1> DEFINE S == Range(s) \cup {x, e}
           t == Append(s, x)
           k == Len(t)
           u == [t EXCEPT ![k] = e]
           v == Append(s, e)
<1>1. s \in Seq(S) /\ x \in S /\ e \in S
  BY SeqMonotonic, Range(s) \subseteq S
<1>2. /\ t \in Seq(S) /\ k = Len(s) + 1 /\ \A i \in 1..Len(s) : t[i] = s[i]
      /\ v \in Seq(S) /\ Len(v) = Len(s) + 1 /\ \A i \in 1..Len(s) : v[i] = s[i]
      /\ v[Len(s) + 1] = e /\ Len(s) \in Nat
  BY <1>1, AppendProperties, LenProperties
<1> HIDE DEF S, t, v
<1>3. /\ u \in Seq(S) /\ Len(u) = k /\ \A i \in 1..k : u[i] = IF i = k THEN e ELSE t[i]
  BY <1>1, <1>2, ExceptSeq
<1> HIDE DEF u
<1>4. \A i \in 1..Len(u) : u[i] = v[i]
  BY <1>2, <1>3
<1>5. u = v
  BY <1>2, <1>3, <1>4, SeqEqual
<1> QED BY <1>5 DEF u, v, k, t

\* p is out, with a label and an anchor for the node that came last.
Headed(p, out, label, anchor) ==
    p = [out EXCEPT !.candidates[Len(out.candidates)] = [@ EXCEPT !.label = label, !.anchor = anchor]]

\* The heading that is emitted is replaced by one that has its label.
LEMMA HeadingIs ==
  ASSUME NEW c, c \in Seq(Range(c)), NEW x, NEW counts, NEW n, NEW w,
         NEW out, out = Out(Append(c, x), counts, n, w), NEW label, NEW anchor
  PROVE  \E e : /\ Titled(e, x, label, anchor)
                /\ Headed(Out(Append(c, e), counts, n, w), out, label, anchor)
<1> DEFINE d == Append(c, x)
           k == Len(d)
           e == [x EXCEPT !.label = label, !.anchor = anchor]
           a == [d EXCEPT ![k] = e]
<1>1. out.candidates = d /\ out = Out(d, counts, n, w)
  <2>1. out = Out(d, counts, n, w)
    OBVIOUS
  <2> HIDE DEF d, e, a
  <2> QED BY <2>1, OutFields
<1>2. d[k] = x /\ a = Append(c, e)
  <2>1. k = Len(c) + 1 /\ d[k] = x
    BY AppendList
  <2> HIDE DEF e
  <2> QED BY <2>1, AppendReplaced
<1>3. Titled(e, x, label, anchor)
  BY Zenon DEF Titled
<1>4. [out EXCEPT !.candidates[Len(out.candidates)] = [@ EXCEPT !.label = label, !.anchor = anchor]]
        = [out EXCEPT !.candidates[k] = [@ EXCEPT !.label = label, !.anchor = anchor]]
  BY <1>1
<1> HIDE DEF d, k
<1>5. [out EXCEPT !.candidates[k] = [@ EXCEPT !.label = label, !.anchor = anchor]]
        = [out EXCEPT !.candidates = [out.candidates EXCEPT ![k] = [out.candidates[k] EXCEPT !.label = label, !.anchor = anchor]]]
  OBVIOUS
<1>6. [out.candidates EXCEPT ![k] = [out.candidates[k] EXCEPT !.label = label, !.anchor = anchor]] = a
  BY <1>1, <1>2
<1> HIDE DEF e, a
<1>7. [out EXCEPT !.candidates = a] = Out(a, counts, n, w)
  BY <1>1 DEF Out
<1>8. [out EXCEPT !.candidates[Len(out.candidates)] = [@ EXCEPT !.label = label, !.anchor = anchor]]
        = Out(Append(c, e), counts, n, w)
  BY <1>2, <1>4, <1>5, <1>6, <1>7
<1>9. Headed(Out(Append(c, e), counts, n, w), out, label, anchor)
  BY <1>8, Zenon DEF Headed
<1> QED BY <1>3, <1>9

\* A node with the text of the buffer is added.
Added(p, o, e, text) ==
    /\ IsCandidate(e) /\ e.provisional = o.next + 1 /\ e.parent \in 0..o.next
    /\ e.ordinal = OrdinalIn(o.ordinals, e.parent) /\ e.text = text
    /\ MayBear(HtmlSites(Range(o.candidates), Range(o.notes)), e.parent, e.kind)
    /\ p = Out(Append(o.candidates, e), CountedIn(o.ordinals, e.parent), o.next + 1, o.notes)

\* The emitted node takes the buffer.
LEMMA LeafAdded ==
  ASSUME NEW o, NEW text, NEW lost, NEW n, Standing(o, text, lost, n),
         NEW e, NEW p, Added(p, o, e, text)
  PROVE  /\ Standing(p, <<>>, lost, n)
         /\ Range(p.candidates) = Range(o.candidates) \cup {e}
         /\ p.notes = o.notes
<1> DEFINE rest == <<>>
<1>1. \/ e.text = <<>> /\ rest = text
      \/ e.text = text /\ rest = <<>>
  BY DEF Added
<1>2. p = Out(Append(o.candidates, e), CountedIn(o.ordinals, e.parent), o.next + 1, o.notes)
  BY DEF Added
<1>3. /\ IsCandidate(e) /\ e.provisional = o.next + 1 /\ e.parent \in 0..o.next
      /\ e.ordinal = OrdinalIn(o.ordinals, e.parent)
      /\ MayBear(HtmlSites(Range(o.candidates), Range(o.notes)), e.parent, e.kind)
  BY DEF Added
<1> HIDE DEF rest
<1>4. /\ Standing(p, rest, lost, n)
      /\ Range(p.candidates) = Range(o.candidates) \cup {e}
      /\ p.notes = o.notes
  <2> DEFINE parent == e.parent
             m == o.next + 1
  <2>1. /\ parent \in 0..o.next /\ e.parent = parent /\ e.provisional = m
        /\ e.ordinal = OrdinalIn(o.ordinals, parent)
    BY <1>3
  <2>2. p = Out(Append(o.candidates, e), CountedIn(o.ordinals, parent), m, o.notes)
    BY <1>2
  <2> HIDE DEF parent
  <2>3. /\ p = Out(Append(o.candidates, e), CountedIn(o.ordinals, e.parent), o.next + 1, o.notes)
        /\ e.parent \in 0..o.next /\ e.ordinal = OrdinalIn(o.ordinals, e.parent)
        /\ MayBear(HtmlSites(Range(o.candidates), Range(o.notes)), e.parent, e.kind)
        /\ \/ e.text = <<>> /\ rest = text
           \/ e.text = text /\ rest = <<>>
        /\ IsCandidate(e) /\ e.provisional = o.next + 1
    BY <1>1, <1>2, <1>3, <2>1, <2>2
  <2>4. /\ Standing(p, rest, lost, n)
        /\ Range(p.candidates) = Range(o.candidates) \cup {e}
        /\ p.notes = o.notes
    BY <2>1, <2>3, NodeAdded, SMTT(30)
  <2> QED BY <2>4
<1> QED BY <1>4 DEF rest

\* CloseHeading emits the section, named after its text, and opens it.
LEMMA CloseHeadingKeeps ==
  ASSUME HtmlInv, CloseHeading
  PROVE  HtmlInv'
<1>1. PICK level, explicit :
        LET out == Emit(Emitted, ParentAfter(SectionsAbove(level)), "section", raw)
        IN /\ Becomes([out EXCEPT !.candidates[Len(out.candidates)] =
                            [@ EXCEPT !.label = LabelOf(raw), !.anchor = Anchor(explicit)]])
           /\ sections' = Append(SectionsAbove(level), [level |-> level, provisional |-> out.next])
           /\ ClaimAnchor(out.next, explicit)
  BY DEF CloseHeading
<1> DEFINE o == Emitted
           above == SectionsAbove(level)
           parent == ParentAfter(above)
           out == Emit(o, parent, "section", raw)
           x == Node(o.next + 1, parent, "section", OrdinalIn(o.ordinals, parent), raw)
           counts == CountedIn(o.ordinals, parent)
           next == o.next + 1
           anchor == Anchor(explicit)
           section == [level |-> level, provisional |-> out.next]
           lost == HtmlLost
           B == Range(o.candidates)
           n == Len(o.notes)
<1>2. /\ Close({"raw"}) /\ raw' = <<>>
      /\ \A q : Headed(q, out, LabelOf(raw), anchor) => Becomes(q)
      /\ sections' = Append(above, section)
      /\ \A t : <<"dropped", t>> \in diagnostics' <=> <<"dropped", t>> \in diagnostics
  BY <1>1 DEF CloseHeading, ClaimAnchor, Headed
<1>3. /\ texts' = texts /\ unread' = unread /\ ingested' = ingested /\ ~ingested
  BY <1>2 DEF Close
<1>4. /\ Standing(o, raw, lost, texts) /\ OpenSections(sections, B) /\ Nested(opened, B, n) /\ n \in Nat
      /\ Sound(o, raw, sections, opened)
  BY EmittedIsSound DEF Sound
<1> HIDE DEF o, anchor, lost
<1>5. /\ o.candidates \in Seq(Range(o.candidates)) /\ raw \in Seq(Nat)
      /\ o = Out(o.candidates, o.ordinals, o.next, o.notes)
  BY <1>4 DEF Standing, Distinct
<1>6. out = Out(Append(o.candidates, x), counts, next, o.notes) /\ out.next = next
  BY <1>5, EmitIs, OutFields
<1>7. OpenSections(above, B)
  BY <1>4, SectionsAboveAreOpen
<1>8. /\ parent \in 0..o.next
      /\ MayBear(HtmlSites(Range(o.candidates), Range(o.notes)), parent, "section")
  BY <1>4, <1>7, MayGoBelow
<1> HIDE DEF out, above, parent
<1>9. /\ IsCandidate(x) /\ x.provisional = next /\ x.parent = parent /\ x.kind = "section"
      /\ x.ordinal = OrdinalIn(o.ordinals, parent) /\ x.text = raw
  BY <1>5, NodeIsCandidate
<1> HIDE DEF x
<1>10. PICK e : /\ Titled(e, x, LabelOf(raw), anchor)
                /\ Headed(Out(Append(o.candidates, e), counts, next, o.notes), out, LabelOf(raw), anchor)
  BY <1>5, <1>6, HeadingIs
<1> DEFINE p == Out(Append(o.candidates, e), counts, next, o.notes)
           C == Range(p.candidates)
<1>11. Becomes(p)
  BY <1>2, <1>10
<1>12. /\ IsCandidate(e) /\ e.provisional = next /\ e.parent = parent /\ e.kind = "section"
       /\ e.ordinal = OrdinalIn(o.ordinals, parent) /\ e.text = raw
  BY <1>9, <1>10, TitledFields
<1>13. p = Out(Append(o.candidates, e), CountedIn(o.ordinals, e.parent), o.next + 1, o.notes)
  BY <1>12
<1>14. /\ e.parent \in 0..o.next /\ e.ordinal = OrdinalIn(o.ordinals, e.parent)
       /\ MayBear(HtmlSites(Range(o.candidates), Range(o.notes)), e.parent, e.kind)
       /\ e.provisional = o.next + 1
  BY <1>8, <1>12
<1>15. Added(p, o, e, raw)
  BY <1>12, <1>13, <1>14 DEF Added
<1> HIDE DEF p, counts, next, section
<1>16. Standing(p, <<>>, lost, texts) /\ C = B \cup {e} /\ p.notes = o.notes
  BY <1>4, <1>15, LeafAdded
<1> HIDE DEF C, B, n
<1>17. Grown(B, C) /\ e \in C
  BY <1>16, GrownParts
<1>18. Nested(opened, C, n)
  BY <1>4, <1>17, StaysNested
<1>19. OpenSections(sections, C) /\ OpenSections(above, C)
  BY <1>4, <1>7, <1>17, SectionsStayOpen DEF Grown
<1>20. OpenSections(Append(above, section), C)
  <2>1. section.provisional = next
    BY <1>6 DEF section
  <2> QED BY <1>12, <1>17, <1>19, <2>1, SectionOpened
<1>21. Sound(p, <<>>, sections, opened)
  BY <1>4, <1>16, <1>18, <1>19 DEF Sound, lost, C, n
<1>22. Sound(p, <<>>, sections, opened')
  BY <1>2, <1>21, ClosesBelow
<1>23. Sound(p, raw', sections', opened')
  BY <1>2, <1>20, <1>22 DEF Sound, C
<1> QED BY <1>2, <1>3, <1>11, <1>23, HtmlStep

-----------------------------------------------------------------------------
(* HTML: text.                                                             *)

\* The text that was given is in p, in the buffer, or lost.
LEMMA HtmlGiven ==
  ASSUME HtmlInv, GiveText, NEW p, Becomes(p), Standing(p, raw', HtmlLost', texts + 1),
         Grown(Range(candidates), Range(p.candidates)), p.notes = notes
  PROVE  HtmlInv'
<1> DEFINE k == Len(opened)
           x == [opened[k] EXCEPT !.filled = TRUE]
           C == Range(p.candidates)
<1>1. /\ ~ingested /\ ingested' = ingested /\ texts' = texts + 1
      /\ opened' = [opened EXCEPT ![k].filled = TRUE] /\ sections' = sections
      /\ unread' \subseteq unread \cup {texts + 1}
      /\ \A t : <<"dropped", t>> \in diagnostics' => <<"dropped", t>> \in diagnostics \/ t = texts + 1
  BY DEF GiveText, Unmoved
<1>2. /\ texts \in Nat /\ unread \subseteq 1..texts
      /\ \A t : <<"dropped", t>> \in diagnostics => t \in 1..texts
      /\ OpenSections(sections, Range(candidates)) /\ Nested(opened, Range(candidates), Len(notes))
  BY DEF HtmlInv
<1>3. OpenSections(sections, C) /\ Nested(opened, C, Len(notes))
  BY <1>2, SectionsStayOpen, StaysNested DEF Grown
<1>4. Replaced(opened', opened, x) /\ FilledAs(x, opened[k], TRUE)
  BY <1>1, Zenon DEF Replaced, FilledAs
<1>5. Last(opened) = opened[k] /\ IsElement(Last(opened))
  BY <1>3, InnermostElement
<1> HIDE DEF x, k, C
<1>6. IsElement(x) /\ Alike(x, Last(opened))
  BY <1>4, <1>5, ElementFilled
<1>7. Nested(opened', C, Len(notes))
  BY <1>3, <1>4, <1>6, ElementTouched
<1>8. candidates' = p.candidates /\ notes' = p.notes
  BY DEF Becomes
<1>9. p = Out(p.candidates, p.ordinals, p.next, p.notes)
  BY DEF Standing
<1>10. Emitted' = Out(candidates', ordinals', nextProvisional', notes')
  BY DEF Emitted, Out
<1>11. Emitted' = p
  BY <1>9, <1>10 DEF Becomes
<1>12. Standing(Emitted', raw', HtmlLost', texts')
  BY <1>1, <1>11
<1>13. texts' \in Nat /\ unread' \subseteq 1..texts'
  BY <1>1, <1>2
<1>14. \A t : <<"dropped", t>> \in diagnostics' => t \in 1..texts'
  BY <1>1, <1>2
<1>15. OpenSections(sections', Range(candidates')) /\ Nested(opened', Range(candidates'), Len(notes'))
  BY <1>1, <1>3, <1>7, <1>8 DEF C
<1> QED BY <1>1, <1>12, <1>13, <1>14, <1>15 DEF HtmlInv

\* Whether the new text is lost.
LEMMA LostAfterText ==
  ASSUME HtmlInv, GiveText
  PROVE  /\ Parent.mode \in {"reported", "silent"}
              => \A t \in 1..texts + 1 : t \in HtmlLost' <=> t \in HtmlLost \/ t = texts + 1
         /\ Parent.mode \notin {"reported", "silent"} => HtmlLost' = HtmlLost
         /\ \A t \in HtmlLost : t <= texts
<1>1. /\ texts' = texts + 1 /\ texts \in Nat
      /\ unread' = IF Parent.mode = "silent" THEN unread \cup {texts + 1} ELSE unread
      /\ diagnostics' = IF Parent.mode = "reported" THEN diagnostics \cup {<<"dropped", texts + 1>>}
                        ELSE diagnostics
  BY DEF GiveText, HtmlInv
<1>2. HtmlLost' = {t \in 1..texts + 1 : t \in unread' \/ <<"dropped", t>> \in diagnostics'}
  BY <1>1 DEF HtmlLost
<1>3. /\ texts + 1 \notin unread /\ <<"dropped", texts + 1>> \notin diagnostics
  BY DEF HtmlInv
<1>4. \A t \in HtmlLost : t <= texts
  BY <1>1 DEF HtmlLost
<1>5. ASSUME Parent.mode \notin {"reported", "silent"}
      PROVE  HtmlLost' = HtmlLost
  <2>1. unread' = unread /\ diagnostics' = diagnostics
    BY <1>1, <1>5
  <2> QED BY <1>1, <1>2, <1>3, <2>1 DEF HtmlLost
<1>6. ASSUME Parent.mode \in {"reported", "silent"}, NEW t \in 1..texts + 1
      PROVE  t \in HtmlLost' <=> t \in HtmlLost \/ t = texts + 1
  <2>1. t = texts + 1 => t \in unread' \/ <<"dropped", t>> \in diagnostics'
    BY <1>1, <1>6
  <2>2. t # texts + 1 => t \in 1..texts
    BY <1>1
  <2>3. t # texts + 1 => (t \in unread' <=> t \in unread)
    BY <1>1
  <2>4. t # texts + 1 => (<<"dropped", t>> \in diagnostics' <=> <<"dropped", t>> \in diagnostics)
    BY <1>1
  <2> QED BY <1>2, <2>1, <2>2, <2>3, <2>4 DEF HtmlLost
<1> QED BY <1>4, <1>5, <1>6

\* e is x with one more run of text.
WithText(e, x, t) == e = [x EXCEPT !.text = Append(x.text, t)]

\* The node with that id has more text.
LEMMA TextOfNode ==
  ASSUME NEW c, Distinct(c), NEW k \in DOMAIN c, NEW id, c[k].provisional = id, NEW t,
         NEW d, d = [i \in DOMAIN c |-> IF c[i].provisional = id
                                        THEN [c[i] EXCEPT !.text = Append(@, t)] ELSE c[i]]
  PROVE  \E e : WithText(e, c[k], t) /\ PutAt(d, c, k, e)
<1> DEFINE e == [c[k] EXCEPT !.text = Append(c[k].text, t)]
           f == [c EXCEPT ![k] = e]
<1>1. \A i \in DOMAIN c : c[i].provisional = id <=> i = k
  BY DEF Distinct
<1>2. \A i \in DOMAIN c : d[i] = IF i = k THEN e ELSE c[i]
  BY <1>1
<1>3. c \in Seq(Range(c))
  BY DEF Distinct
<1>4. DOMAIN d = DOMAIN c /\ DOMAIN f = DOMAIN c /\ \A i \in DOMAIN c : f[i] = IF i = k THEN e ELSE c[i]
  OBVIOUS
<1>5. WithText(e, c[k], t)
  BY Zenon DEF WithText
<1> HIDE DEF e
<1>6. d = f
  <2>1. d = [i \in DOMAIN c |-> d[i]] /\ f = [i \in DOMAIN c |-> f[i]]
    BY <1>4
  <2>2. \A i \in DOMAIN c : d[i] = f[i]
    BY <1>2, <1>4
  <2> HIDE DEF f
  <2> QED BY <2>1, <2>2, Zenon
<1>7. PutAt(d, c, k, e)
  BY <1>6 DEF PutAt
<1> QED BY <1>7, <1>5

\* A node that is given a run of text keeps its place.
LEMMA TextGivenToNode ==
  ASSUME NEW x, IsCandidate(x), NEW t \in Nat, NEW e, WithText(e, x, t)
  PROVE  /\ IsCandidate(e) /\ e.provisional = x.provisional /\ SiteOf(e) = SiteOf(x) /\ e.kind = x.kind
         /\ e.text = Append(x.text, t)
<1> DEFINE text == Append(x.text, t)
<1>1. e = [provisional |-> x.provisional, parent |-> x.parent, kind |-> x.kind, ordinal |-> x.ordinal,
           text |-> text, label |-> x.label, anchor |-> x.anchor]
  BY DEF IsCandidate, WithText
<1>2. /\ text \in Seq(Nat)
      /\ 1 \in DOMAIN x.text => 1 \in DOMAIN text /\ text[1] = x.text[1]
  BY AppendProperties, LenProperties DEF IsCandidate
<1> HIDE DEF text
<1>3. /\ e.provisional = x.provisional /\ e.parent = x.parent /\ e.kind = x.kind
      /\ e.ordinal = x.ordinal /\ e.text = text /\ e.label = x.label
      /\ e = [provisional |-> e.provisional, parent |-> e.parent, kind |-> e.kind, ordinal |-> e.ordinal,
              text |-> e.text, label |-> e.label, anchor |-> e.anchor]
  BY <1>1
<1>4. e.label = NoId \/ NamedAsHeading(e)
  <2>1. CASE x.label = NoId
    BY <1>3, <2>1
  <2>2. CASE NamedAsHeading(x)
    <3>1. /\ x.kind = "section" /\ 1 \in DOMAIN x.text /\ x.label = <<"heading", x.text[1]>>
      BY <2>2 DEF NamedAsHeading
    <3>2. e.label = <<"heading", e.text[1]>> /\ 1 \in DOMAIN e.text /\ e.kind = "section"
      BY <1>2, <1>3, <3>1
    <3> QED BY <3>2, Zenon DEF NamedAsHeading
  <2> QED BY <2>1, <2>2 DEF IsCandidate
<1>5. IsCandidate(e)
  BY <1>2, <1>3, <1>4, Zenon DEF IsCandidate
<1>6. SiteOf(e) = SiteOf(x)
  BY <1>3 DEF SiteOf
<1> QED BY <1>3, <1>5, <1>6 DEF text

\* A run of text at the end of that of a node.
LEMMA NodeWithText ==
  ASSUME NEW o, NEW text, NEW lost, NEW n \in Nat, Standing(o, text, lost, n), NoneAfter(lost, n),
         NEW k \in DOMAIN o.candidates, NEW e, WithText(e, o.candidates[k], n + 1),
         NEW c, PutAt(c, o.candidates, k, e),
         NEW p, p = Out(c, o.ordinals, o.next, o.notes)
  PROVE  /\ Standing(p, text, lost, n + 1) /\ Grown(Range(o.candidates), Range(p.candidates))
         /\ p.notes = o.notes
<1> DEFINE y == o.candidates[k]
           m == n + 1
<1>1. IsCandidate(y)
  <2>1. y \in Range(o.candidates)
    BY DEF Range
  <2> QED BY <2>1 DEF Standing
<1>2. m \in Nat /\ WithText(e, y, m)
  OBVIOUS
<1> HIDE DEF y, m
<1>3. /\ IsCandidate(e) /\ e.provisional = y.provisional /\ SiteOf(e) = SiteOf(y)
      /\ e.text = Append(y.text, m)
  BY <1>1, <1>2, TextGivenToNode
<1>4. GrownNode(e, o.candidates[k], n + 1)
  BY <1>3 DEF y, m, GrownNode
<1>5. TextPut(p, o, n + 1)
  BY <1>4, Zenon DEF TextPut
<1> QED BY <1>5, NodeGrows

\* GiveText: into a node, into the buffer, or nowhere, which is reported or goes unread.
LEMMA GiveTextKeeps ==
  ASSUME HtmlInv, GiveText
  PROVE  HtmlInv'
<1> DEFINE o == Emitted
           x == Parent
           lost == HtmlLost
           missing == HtmlLost'
           t == texts + 1
<1>1. /\ Standing(o, raw, lost, texts) /\ texts \in Nat
      /\ o.candidates = candidates /\ o.notes = notes /\ o.next = nextProvisional /\ o.ordinals = ordinals
  BY EmittedFields DEF HtmlInv
<1>2. IsElement(x) /\ Rooted(x, Range(candidates))
  BY InnermostElement DEF HtmlInv, Parent
<1>3. /\ x.mode \in {"reported", "silent"} => \A u \in 1..t : u \in missing <=> u \in lost \/ u = t
      /\ x.mode \notin {"reported", "silent"} => missing = lost
      /\ \A u \in lost : u <= texts
  BY LostAfterText
<1>4. /\ x.mode \notin {"table", "row"}
      /\ raw' = IF x.mode \in {"walk", "raw"} THEN Append(raw, t) ELSE raw
      /\ candidates' = IF x.mode \in {"node", "children"}
                       THEN [i \in DOMAIN candidates |->
                              IF candidates[i].provisional = x.node
                              THEN [candidates[i] EXCEPT !.text = Append(@, t)] ELSE candidates[i]]
                       ELSE candidates
      /\ ordinals' = ordinals /\ nextProvisional' = nextProvisional /\ notes' = notes
  BY DEF GiveText
<1>5. x.mode \in ElementModes
  BY <1>2 DEF IsElement
<1>6. Grown(Range(candidates), Range(candidates))
  BY GrownParts
<1> HIDE DEF o, x, lost, missing
<1>7. CASE x.mode \in {"walk", "raw"}
  <2>1. raw' = Append(raw, t) /\ candidates' = candidates /\ missing = lost
    BY <1>3, <1>4, <1>7
  <2>2. Standing(o, Append(raw, t), lost, t)
    BY <1>1, <1>3, BufferGrows
  <2>3. Standing(o, raw', missing, t) /\ Becomes(o)
    BY <1>1, <1>4, <2>1, <2>2 DEF Becomes
  <2> QED BY <1>1, <1>6, <2>3, HtmlGiven DEF missing
<1>8. CASE x.mode \in {"reported", "silent"}
  <2>1. raw' = raw /\ candidates' = candidates
    BY <1>4, <1>8
  <2>2. \A u \in 1..texts + 1 : u \in missing <=> u \in lost \/ u = texts + 1
    BY <1>3, <1>8
  <2>3. Standing(o, raw, missing, t)
    BY <1>1, <2>2, TextIsLost
  <2>4. Standing(o, raw', missing, t) /\ Becomes(o)
    BY <1>1, <1>4, <2>1, <2>3 DEF Becomes
  <2> QED BY <1>1, <1>6, <2>4, HtmlGiven DEF missing
<1>9. CASE x.mode \in {"node", "children"}
  <2>1. PICK c \in Range(candidates) : c.provisional = x.node
    BY <1>2, <1>9 DEF Rooted
  <2>2. PICK k \in DOMAIN candidates : candidates[k].provisional = x.node
    BY <2>1 DEF Range
  <2>3. /\ Distinct(candidates) /\ IsCandidate(candidates[k])
    <3>1. candidates[k] \in Range(candidates)
      BY DEF Range
    <3> QED BY <1>1, <3>1 DEF Standing
  <2>4. \E e : WithText(e, candidates[k], t) /\ PutAt(candidates', candidates, k, e)
    <3>1. candidates' = [i \in DOMAIN candidates |->
                            IF candidates[i].provisional = x.node
                            THEN [candidates[i] EXCEPT !.text = Append(@, t)] ELSE candidates[i]]
      BY <1>4, <1>9
    <3> QED BY <2>2, <2>3, <3>1, TextOfNode
  <2>5. PICK e : WithText(e, candidates[k], t) /\ PutAt(candidates', candidates, k, e)
    BY <2>4
  <2> DEFINE p == Out(candidates', o.ordinals, o.next, o.notes)
  <2>6. WithText(e, o.candidates[k], texts + 1) /\ PutAt(candidates', o.candidates, k, e) /\ k \in DOMAIN o.candidates
    BY <1>1, <2>2, <2>5
  <2>7. p = Out(candidates', o.ordinals, o.next, o.notes)
    OBVIOUS
  <2>8. /\ p.candidates = candidates' /\ p.ordinals = o.ordinals /\ p.next = o.next /\ p.notes = o.notes
    BY OutFields
  <2>9. NoneAfter(lost, texts)
    BY <1>3 DEF NoneAfter
  <2> HIDE DEF p
  <2>10. /\ Standing(p, raw, lost, t) /\ Grown(Range(o.candidates), Range(p.candidates))
         /\ p.notes = o.notes
    BY <1>1, <2>9, <2>6, <2>7, NodeWithText
  <2>11. raw' = raw /\ missing = lost
    BY <1>3, <1>4, <1>9
  <2>12. Becomes(p)
    BY <1>1, <1>4, <2>8 DEF Becomes
  <2>13. Standing(p, raw', missing, t) /\ Grown(Range(candidates), Range(p.candidates)) /\ p.notes = notes
    BY <1>1, <2>10, <2>11
  <2> QED BY <2>12, <2>13, HtmlGiven DEF missing
<1> QED BY <1>4, <1>5, <1>7, <1>8, <1>9 DEF ElementModes

-----------------------------------------------------------------------------
(* HTML: cells.                                                            *)

\* Finitely many columns inserted into finitely many.
LEMMA OverriddenDomain ==
  ASSUME NEW f, NEW g, IsFiniteSet(DOMAIN f), IsFiniteSet(DOMAIN g)
  PROVE  IsFiniteSet(DOMAIN Inserted(f, g))
<1>1. DOMAIN Inserted(f, g) = DOMAIN f \cup DOMAIN g
  BY DEF Inserted
<1> QED BY <1>1, FS_Union

\* The columns whose span goes on below are among those of now.
LEMMA ReducedDomain ==
  ASSUME NEW columns, NEW S, IsFiniteSet(S)
  PROVE  IsFiniteSet(DOMAIN LessOne(columns, S))
<1>1. DOMAIN LessOne(columns, S) \subseteq S
  BY DEF LessOne
<1> QED BY <1>1, FS_Subset

\* e is x with other columns.
RowMoved(e, x, carry, pending, later, column) ==
    e = [x EXCEPT !.carry = carry, !.pending = pending, !.later = later, !.column = column]

\* A row that moves to its next column is like the one before.
LEMMA RowStays ==
  ASSUME NEW x, IsElement(x), NEW carry, IsFiniteSet(DOMAIN carry),
         NEW pending, IsFiniteSet(DOMAIN pending), NEW later, IsFiniteSet(DOMAIN later),
         NEW column \in Nat, NEW e, RowMoved(e, x, carry, pending, later, column)
  PROVE  IsElement(e) /\ Alike(e, x)
<1> DEFINE a == [x EXCEPT !.carry = carry]
           b == [a EXCEPT !.pending = pending]
           c == [b EXCEPT !.later = later]
           d == [tag |-> x.tag, mode |-> x.mode, fold |-> x.fold, node |-> x.node, filled |-> x.filled,
                 carry |-> carry, pending |-> pending, later |-> later, column |-> column]
<1>1. x = [tag |-> x.tag, mode |-> x.mode, fold |-> x.fold, node |-> x.node, filled |-> x.filled,
           carry |-> x.carry, pending |-> x.pending, later |-> x.later, column |-> x.column]
  BY DEF IsElement
<1>2. e = [x EXCEPT !.carry = carry, !.pending = pending, !.later = later, !.column = column]
  BY DEF RowMoved
<1>3. [x EXCEPT !.carry = carry, !.pending = pending, !.later = later, !.column = column]
        = [c EXCEPT !.column = column]
  BY <1>1
<1>4. a = [tag |-> x.tag, mode |-> x.mode, fold |-> x.fold, node |-> x.node, filled |-> x.filled,
           carry |-> carry, pending |-> x.pending, later |-> x.later, column |-> x.column]
  BY <1>1
<1> HIDE DEF a
<1>5. b = [tag |-> x.tag, mode |-> x.mode, fold |-> x.fold, node |-> x.node, filled |-> x.filled,
           carry |-> carry, pending |-> pending, later |-> x.later, column |-> x.column]
  BY <1>4
<1> HIDE DEF b
<1>6. c = [tag |-> x.tag, mode |-> x.mode, fold |-> x.fold, node |-> x.node, filled |-> x.filled,
           carry |-> carry, pending |-> pending, later |-> later, column |-> x.column]
  BY <1>5
<1> HIDE DEF c
<1>7. [c EXCEPT !.column = column] = d
  BY <1>6
<1>8. e = d
  BY <1>2, <1>3, <1>7
<1>9. /\ e.tag = x.tag /\ e.mode = x.mode /\ e.node = x.node /\ e.carry = carry
      /\ e.pending = pending /\ e.later = later /\ e.column = column
      /\ e = [tag |-> e.tag, mode |-> e.mode, fold |-> e.fold, node |-> e.node, filled |-> e.filled,
              carry |-> e.carry, pending |-> e.pending, later |-> e.later, column |-> e.column]
  BY <1>8
<1> HIDE DEF d
<1> QED BY <1>9, Zenon DEF IsElement, Alike

\* e is x with other columns pending.
Pending(e, x, columns) == e = [x EXCEPT !.pending = columns]

\* A table that keeps the columns that still span is like the one before.
LEMMA TableStays ==
  ASSUME NEW x, IsElement(x), NEW columns, IsFiniteSet(DOMAIN columns), NEW e, Pending(e, x, columns)
  PROVE  IsElement(e) /\ Alike(e, x)
<1>1. e = [tag |-> x.tag, mode |-> x.mode, fold |-> x.fold, node |-> x.node, filled |-> x.filled,
           carry |-> x.carry, pending |-> columns, later |-> x.later, column |-> x.column]
  BY DEF IsElement, Pending
<1>2. /\ e.tag = x.tag /\ e.mode = x.mode /\ e.node = x.node /\ e.carry = x.carry
      /\ e.pending = columns /\ e.later = x.later /\ e.column = x.column
      /\ e = [tag |-> e.tag, mode |-> e.mode, fold |-> e.fold, node |-> e.node, filled |-> e.filled,
              carry |-> e.carry, pending |-> e.pending, later |-> e.later, column |-> e.column]
  BY <1>1
<1> QED BY <1>2, Zenon DEF IsElement, Alike

\* Cells without text, in a row that has been emitted.
LEMMA CellsAreSound ==
  ASSUME NEW o, NEW text, Sound(o, text, sections, opened),
         NEW row, IsRow(row, Range(o.candidates)),
         NEW m \in Nat, NEW p, p = EmptyCells(o, row, m)
  PROVE  /\ Sound(p, text, sections, opened)
         /\ Grown(Range(o.candidates), Range(p.candidates)) /\ p.notes = o.notes
<1> DEFINE C == Range(p.candidates)
           B == Range(o.candidates)
           n == Len(o.notes)
           lost == HtmlLost
<1>1. /\ Standing(o, text, lost, texts) /\ OpenSections(sections, B) /\ Nested(opened, B, n) /\ n \in Nat
  BY DEF Sound
<1> HIDE DEF lost
<1>2. /\ Standing(p, text, lost, texts) /\ Grown(Range(o.candidates), Range(p.candidates))
      /\ p.notes = o.notes
  BY <1>1, CellsAdded
<1>3. Grown(B, C)
  BY <1>2
<1> HIDE DEF B, C, n
<1>4. OpenSections(sections, C) /\ Nested(opened, C, n)
  BY <1>1, <1>3, SectionsStayOpen, StaysNested DEF Grown
<1> QED BY <1>1, <1>2, <1>3, <1>4 DEF Sound, lost, B, C, n

\* Those covered from above, the cell, and those that it spans.
LEMMA CellsGiven ==
  ASSUME HtmlInv, NEW row, IsRow(row, Range(candidates)),
         NEW m \in Nat, NEW k \in Nat,
         NEW q, q = EmptyCells(Emitted, row, m), NEW origin, origin = Emit(q, row, "table_cell", <<>>),
         NEW p, p = EmptyCells(origin, row, k),
         NEW e, Opening(e, "td", "children", origin.next)
  PROVE  /\ Sound(p, raw, sections, opened) /\ IsElement(e) /\ Rooted(e, Range(p.candidates))
         /\ ~Quoting(e)
<1> DEFINE o == Emitted
<1>1. Sound(o, raw, sections, opened) /\ o.candidates = candidates
  BY EmittedIsSound, EmittedFields
<1> HIDE DEF o
<1>2. Sound(q, raw, sections, opened) /\ Grown(Range(o.candidates), Range(q.candidates))
  BY <1>1, CellsAreSound DEF o
<1>3. PICK c \in Range(q.candidates) : c.provisional = row /\ c.kind = "table_row"
  BY <1>1, <1>2 DEF Grown, IsRow
<1>4. row \in 0..q.next /\ MayBear(HtmlSites(Range(q.candidates), Range(q.notes)), row, "table_cell")
  <2>1. SourceGraph!MayParent(c.kind, "table_cell")
    BY <1>3 DEF SourceGraph!MayParent
  <2>2. Standing(q, raw, HtmlLost, texts)
    BY <1>2 DEF Sound
  <2> QED BY <1>3, <2>1, <2>2, MayGoBelowNode
<1>5. IsElement(e) /\ e.mode = "children" /\ e.node = origin.next
  BY ElementIs DEF ElementModes
<1>6. /\ Sound(origin, raw, sections, opened) /\ Rooted(e, Range(origin.candidates)) /\ ~Quoting(e)
      /\ Grown(Range(q.candidates), Range(origin.candidates))
  BY <1>2, <1>4, <1>5, NodeOpens
<1>7. IsRow(row, Range(origin.candidates))
  BY <1>3, <1>6 DEF Grown, IsRow
<1>8. Sound(p, raw, sections, opened) /\ Grown(Range(origin.candidates), Range(p.candidates))
  BY <1>6, <1>7, CellsAreSound
<1>9. Rooted(e, Range(p.candidates))
  BY <1>6, <1>8 DEF Rooted, Grown
<1> QED BY <1>5, <1>6, <1>8, <1>9

\* WalkCell emits the cells that are covered, the cell, and those that it spans.
LEMMA WalkCellKeeps ==
  ASSUME HtmlInv, WalkCell
  PROVE  HtmlInv'
<1> DEFINE x == Parent
           covered == {c \in DOMAIN x.carry :
                         c >= x.column /\ \A d \in x.column..c : d \in DOMAIN x.carry}
           m == Cardinality(covered)
           first == x.column + m
           q == EmptyCells(Emitted, x.node, m)
           origin == Emit(q, x.node, "table_cell", <<>>)
           e == Element("td", "children", FALSE, origin.next)
           carry == [c \in DOMAIN x.carry \ covered |-> x.carry[c]]
           pending == Inserted(LessOne(x.carry, covered), x.pending)
           spanned(s) == [c \in first..first + s[1] - 1 |-> s[2] - 1]
           later(s) == IF s[2] = 1 THEN x.later ELSE Inserted(spanned(s), x.later)
           column(s) == first + s[1]
           k == Len(opened)
           y(s) == [x EXCEPT !.carry = carry, !.pending = pending, !.later = later(s), !.column = column(s)]
           t(s) == [opened EXCEPT ![k] = y(s)]
<1>1. PICK span \in Spans :
        /\ ~ingested /\ x.mode = "row"
        /\ Becomes(EmptyCells(origin, x.node, span[1] - 1))
        /\ opened' = Append(t(span), e)
  BY DEF WalkCell
<1>2. /\ raw' = raw /\ diagnostics' = diagnostics /\ sections' = sections
      /\ texts' = texts /\ unread' = unread /\ ingested' = ingested
  BY DEF WalkCell, Unmoved
<1> DEFINE p == EmptyCells(origin, x.node, span[1] - 1)
           C == Range(p.candidates)
           n == Len(p.notes)
           row == x.node
<1>3. /\ IsElement(x) /\ Rooted(x, Range(candidates)) /\ x = opened[k] /\ k \in DOMAIN opened
      /\ x = Last(opened)
  <2>1. Nested(opened, Range(candidates), Len(notes))
    BY DEF HtmlInv
  <2>2. opened \in Seq(Range(opened))
    BY <2>1 DEF Nested
  <2>3. /\ IsElement(x) /\ Rooted(x, Range(candidates)) /\ x = opened[k] /\ k \in Nat \ {0}
        /\ x = Last(opened)
    BY <2>1, InnermostElement DEF Parent
  <2> QED BY <2>2, <2>3
<1>5. span[1] \in Nat \ {0}
  BY SpansAreCounts
<1>6. IsFiniteSet(covered) /\ m \in Nat
  <2>1. covered \subseteq DOMAIN x.carry
    OBVIOUS
  <2> HIDE DEF covered
  <2> QED BY <1>3, <2>1, FS_Subset, FS_CardinalityType DEF IsElement
<1>7. x.column \in Nat /\ first \in Nat /\ column(span) \in Nat
  BY <1>3, <1>5, <1>6 DEF IsElement
<1>8. IsFiniteSet(DOMAIN carry)
  <2>1. DOMAIN carry \subseteq DOMAIN x.carry
    OBVIOUS
  <2> HIDE DEF carry
  <2> QED BY <1>3, <2>1, FS_Subset DEF IsElement
<1>9. IsFiniteSet(DOMAIN pending)
  <2> HIDE DEF covered, x
  <2>1. IsFiniteSet(DOMAIN LessOne(x.carry, covered)) /\ IsFiniteSet(DOMAIN x.pending)
    BY <1>3, <1>6, ReducedDomain DEF IsElement
  <2> QED BY <2>1, OverriddenDomain
<1>10. IsFiniteSet(DOMAIN later(span))
  <2>1. DOMAIN spanned(span) = first..first + span[1] - 1
    OBVIOUS
  <2> HIDE DEF spanned, first, x
  <2>2. IsFiniteSet(DOMAIN spanned(span))
    BY <1>5, <1>7, <2>1, FS_Interval
  <2>3. IsFiniteSet(DOMAIN x.later)
    BY <1>3 DEF IsElement
  <2> QED BY <2>2, <2>3, OverriddenDomain
<1> DEFINE new == y(span)
           list == t(span)
<1>11. RowMoved(new, x, carry, pending, later(span), column(span))
  BY Zenon DEF RowMoved
<1>12. Replaced(list, opened, new)
  BY Zenon DEF Replaced
<1>13. IsRow(row, Range(candidates))
  BY <1>1, <1>3 DEF Rooted, IsRow
<1>14. Opening(e, "td", "children", origin.next)
  BY DEF Opening
<1>15. /\ q = EmptyCells(Emitted, row, m) /\ origin = Emit(q, row, "table_cell", <<>>)
       /\ p = EmptyCells(origin, row, span[1] - 1) /\ span[1] - 1 \in Nat
  BY <1>5
<1>16. opened' = Append(list, e) /\ Becomes(p)
  BY <1>1
<1> HIDE DEF new, list, y, t, carry, pending, later, column, e, q, p, m, origin, first, covered
<1>17. IsElement(new) /\ Alike(new, x)
  BY <1>3, <1>7, <1>8, <1>9, <1>10, <1>11, RowStays
<1> HIDE DEF row
<1>18. Sound(p, raw, sections, opened) /\ IsElement(e) /\ Rooted(e, C) /\ ~Quoting(e)
  BY <1>6, <1>13, <1>14, <1>15, CellsGiven
<1>19. Nested(opened, C, n) /\ n \in Nat
  BY <1>18 DEF Sound
<1> HIDE DEF C, n, x
<1>20. Nested(list, C, n)
  BY <1>3, <1>12, <1>17, <1>19, ElementTouched
<1>21. Nested(Append(list, e), C, n)
  BY <1>18, <1>19, <1>20, ElementPushed
<1>22. Sound(p, raw', sections', opened')
  BY <1>2, <1>16, <1>18, <1>21 DEF Sound, C, n
<1>23. ingested' => p.notes = <<>>
  BY <1>1, <1>2
<1> QED BY <1>2, <1>16, <1>22, <1>23, HtmlStep

\* CloseRow emits the cells covered at the end of the row and hands the rest to the table.
LEMMA CloseRowKeeps ==
  ASSUME HtmlInv, CloseRow
  PROVE  HtmlInv'
<1> DEFINE x == Parent
           row == x.node
           rest == {c \in DOMAIN x.carry : c >= x.column}
           m == Cardinality(rest)
           p == EmptyCells(Emitted, row, m)
           s == Front(opened)
           k == Len(s)
           pending == Inserted(x.later, Inserted(LessOne(x.carry, rest), x.pending))
           table == Last(s)
           new == [s[k] EXCEPT !.pending = pending]
           C == Range(p.candidates)
           n == Len(p.notes)
<1>1. /\ x.mode = "row" /\ Becomes(p) /\ opened' = [s EXCEPT ![Len(opened) - 1].pending = pending]
      /\ raw' = raw /\ diagnostics' = diagnostics /\ sections' = sections
      /\ texts' = texts /\ unread' = unread /\ ingested' = ingested /\ ~ingested
  BY DEF CloseRow, Unmoved
<1>2. /\ IsElement(x) /\ Rooted(x, Range(candidates)) /\ x = Last(opened)
      /\ Len(opened) > 1 /\ ~Quoting(Last(opened))
  <2>1. x.mode = "row" /\ x = Last(opened)
    BY DEF CloseRow, Parent
  <2>2. Nested(opened, Range(candidates), Len(notes))
    BY DEF HtmlInv
  <2> HIDE DEF x
  <2>3. /\ IsElement(x) /\ Rooted(x, Range(candidates))
        /\ Len(opened) \in Nat \ {0} /\ Len(opened) # 1
    BY <2>1, <2>2, InnermostElement
  <2>4. Len(opened) > 1
    BY <2>3
  <2>5. x.mode # "walk"
    BY <2>1
  <2>6. ~Quoting(x)
    BY <2>5 DEF Quoting
  <2> QED BY <2>1, <2>3, <2>4, <2>6, Zenon
<1>3. IsFiniteSet(rest) /\ m \in Nat
  <2>1. rest \subseteq DOMAIN x.carry
    OBVIOUS
  <2> HIDE DEF rest
  <2> QED BY <1>2, <2>1, FS_Subset, FS_CardinalityType DEF IsElement
<1>4. IsFiniteSet(DOMAIN pending)
  <2> HIDE DEF rest, x
  <2>1. /\ IsFiniteSet(DOMAIN LessOne(x.carry, rest)) /\ IsFiniteSet(DOMAIN x.pending)
        /\ IsFiniteSet(DOMAIN x.later)
    BY <1>2, <1>3, ReducedDomain DEF IsElement
  <2> QED BY <2>1, OverriddenDomain
<1>5. Sound(Emitted, raw, sections, opened) /\ IsRow(row, Range(Emitted.candidates))
  BY <1>1, <1>2, EmittedIsSound, EmittedFields DEF Rooted, IsRow
<1>6. p = EmptyCells(Emitted, row, m)
  OBVIOUS
<1> HIDE DEF p, m, rest, row, pending
<1>7. Sound(p, raw, sections, opened)
  BY <1>3, <1>5, <1>6, CellsAreSound
<1>8. Nested(opened, C, n) /\ n \in Nat
  BY <1>7 DEF Sound
<1> HIDE DEF C, n
<1>9. Nested(s, C, n) /\ k = Len(opened) - 1
  <2>1. Len(opened) > 1 /\ ~Quoting(Last(opened))
    BY <1>2
  <2> HIDE DEF new
  <2> QED BY <1>8, <2>1, ElementPopped
<1> HIDE DEF s
<1>10. table = s[k] /\ IsElement(table)
  BY <1>9, InnermostElement
<1>11. opened' = [s EXCEPT ![k] = new]
  <2>1. opened' = [s EXCEPT ![k].pending = pending]
    BY <1>1, <1>9
  <2> QED BY <2>1
<1>12. Replaced(opened', s, new) /\ Pending(new, table, pending)
  BY <1>10, <1>11, Zenon DEF Replaced, Pending
<1> HIDE DEF new, k, table
<1>13. IsElement(new) /\ Alike(new, table)
  BY <1>4, <1>10, <1>12, TableStays
<1>14. Nested(opened', C, n)
  BY <1>9, <1>12, <1>13, ElementTouched DEF table
<1>15. Sound(p, raw', sections', opened')
  BY <1>1, <1>7, <1>14 DEF Sound, C, n
<1> QED BY <1>1, <1>15, HtmlStep

-----------------------------------------------------------------------------
(* HTML: the invariant.                                                    *)

\* An HTML document begins with its root open and nothing else.
LEMMA HtmlInvInit == HtmlInit => HtmlInv
<1> SUFFICES ASSUME HtmlInit PROVE HtmlInv
  OBVIOUS
<1> DEFINE root == Element("document", "walk", FALSE, 0)
           o == Emitted
           counts == [p \in {} |-> 0]
<1>1. /\ texts = 0 /\ sections = <<>> /\ candidates = <<>> /\ ordinals = counts
      /\ nextProvisional = 0 /\ ingested = FALSE /\ raw = <<>> /\ notes = <<>> /\ unread = {}
      /\ diagnostics = {} /\ opened = <<root>>
  BY DEF HtmlInit, AdapterInit, HtmlIdle
<1>2. HtmlLost = {}
  BY <1>1 DEF HtmlLost
<1>3. Opening(root, "document", "walk", 0)
  BY DEF Opening
<1> HIDE DEF root
<1>4. /\ o.candidates = <<>> /\ o.notes = <<>> /\ o.next = 0 /\ o.ordinals = counts
      /\ o = Out(o.candidates, o.ordinals, o.next, o.notes)
  BY <1>1, EmittedFields
<1> HIDE DEF o
<1>5. Standing(o, <<>>, {}, 0)
  <2>1. Distinct(<<>>) /\ Range(<<>>) = {}
    BY EmptyIsDistinct
  <2>2. HtmlSites({}, {}) = {}
    BY DEF HtmlSites, Sites
  <2>3. Planted({}, counts)
    BY NothingIsPlanted
  <2> HIDE DEF counts
  <2>4. KeptOnce(HtmlTexts({}, {}, <<>>), {}, 0)
    <3>1. \A x \in HtmlTexts({}, {}, <<>>) : x.text = <<>>
      BY HtmlTextsAre
    <3>2. DOMAIN <<>> = {}
      OBVIOUS
    <3> QED BY <3>1, <3>2 DEF KeptOnce
  <2>5. <<>> \in Seq(Nat)
    OBVIOUS
  <2>6. /\ Range(o.candidates) = {} /\ Range(o.notes) = {}
        /\ Distinct(o.candidates) /\ Distinct(o.notes) /\ o.next \in Nat
    BY <1>4, <2>1
  <2>7. /\ Planted(HtmlSites(Range(o.candidates), Range(o.notes)), o.ordinals)
        /\ KeptOnce(HtmlTexts(Range(o.candidates), Range(o.notes), <<>>), {}, 0)
    BY <1>4, <2>2, <2>3, <2>4, <2>6
  <2> QED BY <1>4, <2>5, <2>6, <2>7, Zenon DEF Standing
<1>6. Nested(opened, {}, 0)
  <2>1. IsElement(root) /\ root.tag = "document" /\ root.mode = "walk"
    BY <1>3, ElementIs DEF ElementModes
  <2>2. DOMAIN opened = {1} /\ opened[1] = root
    BY <1>1
  <2>3. Range(opened) = {root}
    BY <2>2 DEF Range
  <2>4. opened \in Seq({root}) /\ opened # <<>>
    BY <1>1
  <2>5. OpenQuotes(opened) = {}
    BY <2>1, <2>2 DEF OpenQuotes, Quoting
  <2>6. Rooted(root, {})
    BY <2>1 DEF Rooted
  <2> QED BY <2>1, <2>2, <2>3, <2>4, <2>5, <2>6, FS_EmptySet DEF Nested
<1>7. OpenSections(sections, {})
  BY <1>1, NoSectionsOpen
<1>8. Range(candidates) = {} /\ Len(notes) = 0
  BY <1>1, EmptyIsDistinct
<1> QED BY <1>1, <1>2, <1>5, <1>6, <1>7, <1>8 DEF HtmlInv, o

\* Every step of the HTML adapter keeps its invariant.
LEMMA HtmlInvNext == HtmlInv /\ HtmlNext => HtmlInv'
<1> SUFFICES ASSUME HtmlInv, HtmlNext PROVE HtmlInv'
  OBVIOUS
<1>1. CASE WalkElement
  BY <1>1, WalkElementKeeps
<1>2. CASE WalkQuote
  BY <1>2, WalkQuoteKeeps
<1>3. CASE WalkTable \/ WalkItem
  BY <1>3, WalkTableKeeps
<1>4. CASE WalkRow
  BY <1>4, WalkRowKeeps
<1>5. CASE WalkCell
  BY <1>5, WalkCellKeeps
<1>6. CASE Collect
  BY <1>6, CollectKeeps
<1>7. CASE GiveText
  BY <1>7, GiveTextKeeps
<1>8. CASE CloseQuietly
  BY <1>8, CloseQuietlyKeeps
<1>9. CASE CloseContainer \/ CloseParagraph
  BY <1>9, CloseContainerKeeps
<1>10. CASE CloseQuote
  BY <1>10, CloseQuoteKeeps
<1>11. CASE CloseLeaf
  BY <1>11, CloseLeafKeeps
<1>12. CASE CloseHeading
  BY <1>12, CloseHeadingKeeps
<1>13. CASE CloseRow
  BY <1>13, CloseRowKeeps
<1>14. CASE EndOfTree
  BY <1>14, EndOfTreeKeeps
<1> QED BY <1>1, <1>2, <1>3, <1>4, <1>5, <1>6, <1>7, <1>8, <1>9, <1>10, <1>11, <1>12, <1>13, <1>14 DEF HtmlNext

\* What the HTML invariant says of a document that has been ingested.
LEMMA HtmlInvIsEnough == HtmlInv => HtmlTextIsKept /\ HtmlGraphIsValid
<1> SUFFICES ASSUME HtmlInv PROVE HtmlTextIsKept /\ HtmlGraphIsValid
  OBVIOUS
<1> DEFINE C == Range(candidates)
           W == Range(notes)
           X == HtmlTexts(C, W, raw)
<1>1. /\ Distinct(candidates) /\ Distinct(notes) /\ nextProvisional \in Nat
      /\ \A x \in C : IsCandidate(x) /\ x.provisional \in 1..nextProvisional
      /\ \A x \in W : x.provisional \in 1..nextProvisional
      /\ \A x \in C, y \in W : x.provisional # y.provisional
      /\ Planted(HtmlSites(C, W), ordinals)
      /\ KeptOnce(X, HtmlLost, texts)
  BY EmittedFields DEF HtmlInv, Standing
<1>2. \A x : x \in X <=> \/ x \in C \/ x \in W
                         \/ x = [provisional |-> 0, text |-> raw]
  BY HtmlTextsAre DEF Buffer
<1>3. \A x \in C \cup W : x.provisional # 0
  BY <1>1
<1> HIDE DEF X
<1>4. ASSUME NEW t \in 1..texts
      PROVE  TimesIn(t, candidates) + TimesIn(t, notes) + TimesIn(t, <<[text |-> raw]>>)
                = IF t \in unread \/ <<"dropped", t>> \in diagnostics THEN 0 ELSE 1
  <2>1. TimesIn(t, candidates) + TimesIn(t, notes) + TimesIn(t, <<[text |-> raw]>>)
          = IF t \in HtmlLost THEN 0 ELSE 1
    BY <1>1, <1>2, <1>3, TimesInAll
  <2>2. t \in HtmlLost <=> t \in unread \/ <<"dropped", t>> \in diagnostics
    BY DEF HtmlLost
  <2> QED BY <2>1, <2>2
<1>5. ASSUME ingested
      PROVE  GraphIsValid
  <2>1. W = {}
    BY <1>5, EmptyIsDistinct DEF HtmlInv
  <2>2. HtmlSites(C, {}) = Sites(C)
    BY DEF HtmlSites
  <2>3. SourceGraph!Valid(CandidateGraph)
    BY <1>1, <2>1, <2>2, ValidFromSites
  <2>4. SourceGraph!LabelsUnique(CandidateGraph)
    <3>1. C \subseteq X
      BY <1>2
    <3>2. \A c \in C : c.label = NoId \/ NamedAsHeading(c)
      BY <1>1 DEF IsCandidate
    <3>3. \A c \in C : c.kind = "note" => c.label = NoId
      BY <3>2 DEF NamedAsHeading
    <3> HIDE DEF C
    <3>4. \A c, d \in C : c.kind = "note" /\ d.kind = "note" /\ c.label = d.label /\ c.label # NoId
                            => c.provisional = d.provisional
      BY <3>3
    <3> QED BY <1>1, <3>1, <3>2, <3>4, LabelsFromTexts DEF C
  <2> QED BY <2>3, <2>4 DEF GraphIsValid
<1> QED BY <1>4, <1>5 DEF HtmlTextIsKept, HtmlGraphIsValid

-----------------------------------------------------------------------------
(* The three adapters together: MCSourcePlane.                             *)

\* The invariant of the adapter that runs.
IngestInv ==
    /\ part = "markdown" => MarkdownInv
    /\ part = "html" => HtmlInv
    /\ part = "pdf" => PdfInv

\* A behaviour begins with an empty document in every adapter.
LEMMA IngestInvInit == Init => IngestInv
<1> SUFFICES ASSUME Init PROVE IngestInv
  OBVIOUS
<1>1. CASE part = "html"
  BY <1>1, HtmlInvInit DEF Init, IngestInv
<1>2. CASE part # "html"
  BY <1>2, MarkdownInvInit, PdfInvInit DEF Init, IngestInv
<1> QED BY <1>1, <1>2

\* A document at rest keeps what held of it.
LEMMA RestKeeps ==
  ASSUME UNCHANGED all, IngestInv
  PROVE  IngestInv'
<1>1. /\ UNCHANGED <<opened, blocks, texts, sections, candidates, ordinals, usedAnchors, diagnostics>>
      /\ UNCHANGED <<nextProvisional, ingested, frames, footnotesSeen, raw, notes, unread, page, pages>>
      /\ part' = part
  BY DEF all, adapterVars
<1>2. MarkdownInv => MarkdownInv'
  <2>1. Repeated' = Repeated /\ MarkdownTree' = MarkdownTree /\ MarkdownKept' = MarkdownKept
    BY <1>1 DEF Repeated, MarkdownTree, MarkdownKept
  <2>2. MarkdownStack => MarkdownStack'
    BY <1>1 DEF MarkdownStack
  <2> QED BY <1>1, <2>1, <2>2 DEF MarkdownInv, MarkdownDocument
<1>3. HtmlInv => HtmlInv'
  <2>1. Emitted' = Emitted /\ HtmlLost' = HtmlLost
    BY <1>1 DEF Emitted, HtmlLost
  <2> QED BY <1>1, <2>1 DEF HtmlInv
<1>4. PdfInv => PdfInv'
  <2>1. LostIn(texts)' = LostIn(texts)
    BY <1>1 DEF LostIn
  <2> QED BY <1>1, <2>1 DEF PdfInv
<1> QED BY <1>1, <1>2, <1>3, <1>4 DEF IngestInv

\* Every step of an adapter keeps its own invariant, and the other two say nothing
\* of it: a behaviour ingests one document with one adapter.
LEMMA IngestInvNext == IngestInv /\ [Next]_all => IngestInv'
<1> SUFFICES ASSUME IngestInv, [Next]_all PROVE IngestInv'
  OBVIOUS
<1>1. CASE Only("sources") /\ SourcesNext
  BY <1>1 DEF Only, IngestInv
<1>2. CASE Only("reingestion") /\ ReingestionNext
  BY <1>2 DEF Only, IngestInv
<1>3. CASE Only("markdown") /\ MarkdownNext
  BY <1>3, MarkdownInvNext DEF Only, IngestInv
<1>4. CASE Only("html") /\ HtmlNext
  BY <1>4, HtmlInvNext DEF Only, IngestInv
<1>5. CASE Only("pdf") /\ PdfNext
  BY <1>5, PdfInvNext DEF Only, IngestInv
<1>6. CASE Rest \/ UNCHANGED all
  BY <1>6, RestKeeps DEF Rest
<1> QED BY <1>1, <1>2, <1>3, <1>4, <1>5, <1>6 DEF Next

\* The invariant in every state of a behaviour.
LEMMA IngestInvHolds == Spec => []IngestInv
BY IngestInvInit, IngestInvNext, PTL DEF Spec

\* What an adapter assembles passes the validation of a structural graph (source_graph/validate.rs),
\* for documents of every length and nesting: parents resolve and lead to the root, ordinals have no
\* gaps although some are taken as a block opens and others as it closes, and, where labels are not
\* the numbers a PDF prints, no two sections or notes share one.
THEOREM GraphsIngestValid == Spec => []IngestedGraphsAreValid
<1>1. IngestInv => IngestedGraphsAreValid
  BY MarkdownInvIsEnough, HtmlInvIsEnough, PdfInvIsEnough DEF IngestInv, IngestedGraphsAreValid
<1> QED BY <1>1, IngestInvHolds, PTL

\* No adapter loses a run of text unreported or projects it twice (markdown/close.rs,
\* html/walk.rs, pdf/project.rs), for every document.
THEOREM TextsIngestOnce == Spec => []EveryTextIsKeptOnce
<1>1. IngestInv => EveryTextIsKeptOnce
  BY MarkdownInvIsEnough, HtmlInvIsEnough, PdfInvIsEnough DEF IngestInv, EveryTextIsKeptOnce
<1> QED BY <1>1, IngestInvHolds, PTL

=============================================================================
