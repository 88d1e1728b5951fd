-------------------------- MODULE SourcePlane_proofs --------------------------
(***************************************************************************)
(* The source plane, for any number of documents, revisions, commits and   *)
(* nodes.                                                                  *)
(*                                                                         *)
(* The lineage of committed sources rests on a fact about finite graphs: in*)
(* a lineage that validate_source_lineage accepts, no set of revisions has *)
(* all its predecessors inside itself, for it would have all its successors*)
(* inside itself too, a cycle.  So every document has a head, and following*)
(* supersedes edges from the head meets every revision of the document.    *)
(*                                                                         *)
(* The comparison of a second ingestion and the effective graph rest on    *)
(* this: a patch applies to no graph but the one it is bound to.           *)
(***************************************************************************)
EXTENDS SourceLineage, Reingestion, FiniteSetTheorems, TLAPS

\* Every element of D is superseded by an element of D.
Backed(G, D) == \A t \in D : \E u \in D : G[u].supersedes = t

\* One edge leaves each revision, so a finite set whose elements are all reached from
\* within is also never left.
LEMMA NoBackedSet ==
  ASSUME NEW G, IsFiniteSet(DOMAIN G), LineageAcyclic(G),
         NEW D \in SUBSET DOMAIN G, D # {}
  PROVE  ~Backed(G, D)
<1> SUFFICES ASSUME Backed(G, D) PROVE FALSE
  OBVIOUS
<1> DEFINE inside == {u \in D : G[u].supersedes \in D}
           f == [u \in inside |-> G[u].supersedes]
<1>1. IsFiniteSet(D) /\ IsFiniteSet(inside)
      /\ Cardinality(inside) <= Cardinality(D) /\ (Cardinality(D) = Cardinality(inside) => D = inside)
  <2>1. IsFiniteSet(D)
    BY FS_Subset
  <2>2. inside \in SUBSET D
    OBVIOUS
  <2> HIDE DEF inside
  <2>3. QED
    BY <2>1, <2>2, FS_Subset
<1>2. f \in Surjection(inside, D)
  BY DEF Surjection, Backed
<1>3. Cardinality(D) <= Cardinality(inside)
  <2> HIDE DEF f, inside
  <2>1. QED
    BY <1>1, <1>2, FS_Surjection
<1>4. Cardinality(D) \in Nat /\ Cardinality(inside) \in Nat
  <2> HIDE DEF inside
  <2>1. QED
    BY <1>1, FS_CardinalityType
<1>5. D = inside
  <2> HIDE DEF inside
  <2>1. QED
    BY <1>1, <1>3, <1>4
<1>6. QED
  BY <1>5 DEF LineageAcyclic

\* Two revisions of a document that nothing supersedes are one.
LEMMA HeadIsUnique ==
  ASSUME NEW G, IsFiniteSet(DOMAIN G), OneHead(G), NEW d \in Documents,
         NEW s \in Revisions(G, d) \ Superseded(G), NEW t \in Revisions(G, d) \ Superseded(G)
  PROVE  s = t
<1> DEFINE heads == Revisions(G, d) \ Superseded(G)
<1>1. heads \in SUBSET DOMAIN G /\ Cardinality(heads) <= 1 /\ s \in heads /\ t \in heads
  BY DEF Revisions, OneHead
<1> HIDE DEF heads
<1>2. IsFiniteSet(heads)
  BY <1>1, FS_Subset
<1>3. Cardinality(heads) \in Nat /\ Cardinality(heads) # 0
  BY <1>1, <1>2, FS_CardinalityType, FS_EmptySet
<1>4. PICK x : heads = {x}
  BY <1>1, <1>2, <1>3, FS_Singleton
<1>5. QED
  BY <1>1, <1>4

\* A document with a revision has a head.
LEMMA HeadExists ==
  ASSUME NEW G, IsFiniteSet(DOMAIN G), DOMAIN G \subseteq Sources, LineageValid(G),
         NEW d \in Documents, Revisions(G, d) # {}
  PROVE  HeadOf(G, d) \in Revisions(G, d) \ Superseded(G)
<1>1. Revisions(G, d) \in SUBSET DOMAIN G
  BY DEF Revisions
<1>2. PICK t \in Revisions(G, d) : \A u \in Revisions(G, d) : G[u].supersedes # t
  BY <1>1, NoBackedSet DEF LineageValid, Backed
<1>3. t \notin Superseded(G)
  BY <1>1, <1>2, NoneIsNoSource DEF LineageValid, EdgesLegal, Revisions, Superseded
<1>4. ~(Revisions(G, d) \subseteq Superseded(G))
  BY <1>2, <1>3
<1>5. QED
  BY <1>4 DEF HeadOf

\* From the head of a document the edges lead to every one of its revisions.
LEMMA HeadLeadsEverywhere ==
  ASSUME NEW G, IsFiniteSet(DOMAIN G), DOMAIN G \subseteq Sources, LineageValid(G),
         NEW d \in Documents, NEW s \in Revisions(G, d)
  PROVE  s \in Ancestry(G, HeadOf(G, d))
<1> DEFINE head == HeadOf(G, d)
<1>1. s \in DOMAIN G
  BY DEF Revisions
<1>2. SUFFICES ASSUME NEW S \in SUBSET DOMAIN G, head \in S,
                      \A u \in S : G[u].supersedes \in DOMAIN G => G[u].supersedes \in S
               PROVE  s \in S
  BY <1>1 DEF Ancestry
<1> DEFINE missed == Revisions(G, d) \ S
<1>3. head \in Revisions(G, d) \ Superseded(G)
  BY HeadExists
<1>4. ASSUME NEW t \in missed PROVE \E u \in missed : G[u].supersedes = t
  <2>1. t # head
    BY <1>2, <1>4
  <2>2. t \in Superseded(G)
    BY <1>3, <1>4, <2>1, HeadIsUnique DEF LineageValid
  <2>3. PICK u \in DOMAIN G : G[u].supersedes = t
    BY <2>2 DEF Superseded
  <2>4. t \in DOMAIN G /\ t # None /\ G[t].document = d
    BY <1>4, NoneIsNoSource DEF Revisions
  <2>5. u \in Revisions(G, d)
    BY <2>3, <2>4 DEF LineageValid, EdgesLegal, Revisions
  <2>6. u \notin S
    BY <1>2, <1>4, <2>3, <2>4
  <2>7. QED
    BY <2>3, <2>5, <2>6
<1>5. missed \in SUBSET DOMAIN G /\ Backed(G, missed)
  BY <1>4 DEF Backed, Revisions
<1> HIDE DEF missed
<1>6. missed = {}
  BY <1>5, NoBackedSet DEF LineageValid
<1>7. QED
  BY <1>6 DEF missed

-----------------------------------------------------------------------------
(* The behaviours.                                                         *)

\* What is committed is valid, and has lost and rewritten nothing that was a head.
LineageInv ==
    /\ IsFiniteSet(DOMAIN records) /\ DOMAIN records \subseteq Sources
    /\ LineageValid(records)
    /\ \A past \in pastHeads : /\ past[1] \in DOMAIN records /\ records[past[1]] = past[2]
                              /\ past[2].document \in Documents

LEMMA LineageInvInit == SourcesInit => LineageInv
<1> SUFFICES ASSUME SourcesInit PROVE LineageInv
  OBVIOUS
<1>1. DOMAIN records = {} /\ pastHeads = {}
  BY DEF SourcesInit, NoRecords
<1>2. IsFiniteSet({}) /\ Cardinality({}) = 0
  BY FS_EmptySet
<1>3. OneRoot(records)
  <2> SUFFICES ASSUME NEW d \in Documents
               PROVE  Cardinality({s \in Revisions(records, d) : records[s].supersedes = None}) <= 1
    BY DEF OneRoot
  <2> DEFINE S == {s \in Revisions(records, d) : records[s].supersedes = None}
  <2>1. S = {}
    BY <1>1 DEF Revisions
  <2>2. Cardinality(S) <= 1
    <3> HIDE DEF S
    <3> QED BY <1>2, <2>1
  <2> QED BY <2>2
<1>4. OneHead(records)
  <2> SUFFICES ASSUME NEW d \in Documents
               PROVE  Cardinality(Revisions(records, d) \ Superseded(records)) <= 1
    BY DEF OneHead
  <2> DEFINE S == Revisions(records, d) \ Superseded(records)
  <2>1. S = {}
    BY <1>1 DEF Revisions
  <2>2. Cardinality(S) <= 1
    <3> HIDE DEF S
    <3> QED BY <1>2, <2>1
  <2> QED BY <2>2
<1>5. LineageValid(records)
  BY <1>1, <1>3, <1>4 DEF LineageValid, EdgesLegal, NoForks, LineageAcyclic
<1>6. QED
  BY <1>1, <1>2, <1>5 DEF LineageInv

\* A commit adds finitely many revisions.
LEMMA EditsAreFinite ==
  ASSUME LineageInv, CommitEdit
  PROVE  IsFiniteSet(DOMAIN records') /\ DOMAIN records' \subseteq Sources
<1>1. IsFiniteSet(DOMAIN records) /\ DOMAIN records \subseteq Sources
  BY DEF LineageInv
<1>2. \A s \in Sources : IsFiniteSet(DOMAIN records \cup {s})
  BY <1>1, FS_AddElement
<1>3. CASE \E s \in Sources, r \in SourceRevision : CommitRecords(Put(records, s, r))
  BY <1>1, <1>2, <1>3 DEF CommitRecords, Put
<1>4. CASE \E s \in Sources \ DOMAIN records, t \in Sources \ DOMAIN records :
             \E r, q \in {r \in SourceRevision : r.material.mode = "unavailable"} :
               CommitRecords(Put(Put(records, s, r), t, q))
  <2>1. PICK s \in Sources, t \in Sources : DOMAIN records' = (DOMAIN records \cup {s}) \cup {t}
    BY <1>4 DEF CommitRecords, Put
  <2>2. IsFiniteSet(DOMAIN records \cup {s})
    BY <1>2
  <2>3. IsFiniteSet((DOMAIN records \cup {s}) \cup {t})
    BY <2>2, FS_AddElement
  <2>4. QED
    BY <1>1, <2>1, <2>3
<1>5. CASE \E s \in DOMAIN records : CommitRecords([t \in DOMAIN records \ {s} |-> records[t]])
  <2>1. DOMAIN records' \in SUBSET DOMAIN records
    BY <1>5 DEF CommitRecords
  <2>2. QED
    BY <1>1, <2>1, FS_Subset
<1>6. QED
  BY <1>3, <1>4, <1>5 DEF CommitEdit

LEMMA LineageInvNext == LineageInv /\ [SourcesNext]_sourceVars => LineageInv'
<1> SUFFICES ASSUME LineageInv, [SourcesNext]_sourceVars PROVE LineageInv'
  OBVIOUS
<1>1. CASE CommitEdit
  <2>1. MayFollow(records, records')
        /\ pastHeads' = pastHeads \cup {<<HeadOf(records', d), records'[HeadOf(records', d)]>> :
                                          d \in WithHead(records')}
    <3>1. PICK proposed : CommitRecords(proposed)
      BY <1>1 DEF CommitEdit
    <3>2. QED
      BY <3>1 DEF CommitRecords
  <2>2. LineageValid(records') /\ NothingRewritten(records, records')
    BY <2>1 DEF MayFollow
  <2>3. IsFiniteSet(DOMAIN records') /\ DOMAIN records' \subseteq Sources
    BY <1>1, EditsAreFinite
  <2>4. ASSUME NEW d \in WithHead(records')
        PROVE  HeadOf(records', d) \in DOMAIN records' /\ records'[HeadOf(records', d)].document = d
    BY <2>4 DEF WithHead, HeadOf, Revisions
  <2>5. QED
    BY <2>1, <2>2, <2>3, <2>4 DEF LineageInv, NothingRewritten, WithHead
<1>2. CASE UNCHANGED <<records, pastHeads>>
  BY <1>2 DEF LineageInv, LineageValid, EdgesLegal, NoForks, LineageAcyclic, OneRoot, OneHead,
     Revisions, Superseded
<1>3. QED
  BY <1>1, <1>2 DEF SourcesNext, sourceVars, RegenerateLock, EditLock, ChangePayload

LEMMA LineageInvHolds == SourcesSpec => []LineageInv
BY LineageInvInit, LineageInvNext, PTL DEF SourcesSpec

\* Whatever the gate lets pass, a revision that was once the head of its document stays as
\* it was and the present head leads back to it (validate_source_transition).
THEOREM HeadsNeverGoBack == SourcesSpec => []HeadsOnlyAdvance
<1>1. LineageInv => HeadsOnlyAdvance
  BY HeadLeadsEverywhere DEF LineageInv, HeadsOnlyAdvance, Revisions
<1>2. QED
  BY <1>1, LineageInvHolds, PTL

-----------------------------------------------------------------------------
(* The lock and the payload.                                               *)

SourcesType ==
    /\ \A s \in DOMAIN records : records[s] \in SourceRevision
    /\ payload \in [Documents -> Payloads]

LEMMA PutKeepsTypes ==
  ASSUME NEW G, \A x \in DOMAIN G : G[x] \in SourceRevision, NEW s, NEW r \in SourceRevision
  PROVE  \A x \in DOMAIN Put(G, s, r) : Put(G, s, r)[x] \in SourceRevision
BY DEF Put

LEMMA SourcesTypeHolds == SourcesSpec => []SourcesType
<1>1. SourcesInit => SourcesType
  BY DEF SourcesInit, NoRecords, SourcesType, Missing, Payloads
<1>2. SourcesType /\ [SourcesNext]_sourceVars => SourcesType'
  <2> SUFFICES ASSUME SourcesType, [SourcesNext]_sourceVars PROVE SourcesType'
    OBVIOUS
  <2>1. CASE CommitEdit
    <3>1. ASSUME NEW G, CommitRecords(G), \A s \in DOMAIN G : G[s] \in SourceRevision
          PROVE  SourcesType'
      BY <3>1 DEF CommitRecords, SourcesType
    <3>2. ASSUME NEW s \in Sources, NEW r \in SourceRevision, CommitRecords(Put(records, s, r))
          PROVE  SourcesType'
      BY <3>1, <3>2, PutKeepsTypes DEF SourcesType
    <3>3. ASSUME NEW s \in Sources, NEW t \in Sources, NEW r \in SourceRevision,
                 NEW q \in SourceRevision, CommitRecords(Put(Put(records, s, r), t, q))
          PROVE  SourcesType'
      <4>1. \A x \in DOMAIN Put(records, s, r) : Put(records, s, r)[x] \in SourceRevision
        BY PutKeepsTypes DEF SourcesType
      <4>2. QED
        BY <3>1, <3>3, <4>1, PutKeepsTypes
    <3>4. ASSUME NEW s \in DOMAIN records,
                 CommitRecords([t \in DOMAIN records \ {s} |-> records[t]])
          PROVE  SourcesType'
      <4>1. \A x \in DOMAIN records \ {s} : records[x] \in SourceRevision
        BY DEF SourcesType
      <4>2. QED
        BY <3>1, <3>4, <4>1
    <3>5. QED
      BY <2>1, <3>2, <3>3, <3>4 DEF CommitEdit
  <2>2. CASE ChangePayload
    BY <2>2 DEF ChangePayload, SourcesType
  <2>3. CASE UNCHANGED <<records, payload>>
    BY <2>3 DEF SourcesType
  <2>4. QED
    BY <2>1, <2>2, <2>3 DEF SourcesNext, sourceVars, RegenerateLock, EditLock
<1>3. QED
  BY <1>1, <1>2, PTL DEF SourcesSpec

\* A lock that is accepted has the entry of every head, as it would be derived now.
LEMMA AcceptedIsDerived ==
  ASSUME LockAccepted(records, sourcesLock), NEW d \in WithHead(records)
  PROVE  sourcesLock.entries[d] = EntryOf(records, d)
BY DEF LockAccepted, FirstDifference, DeriveLock

\* What is reported as verified is the present head of its document, with the very bytes it
\* pins, in a plain file: however the lock and the files came about
\* (verify_effective_sources behind validate_committed_lock).
THEOREM VerifiedIsPresent == SourcesSpec => []VerifiedIsThePresentHead
<1>1. SourcesType => VerifiedIsThePresentHead
  <2> DEFINE report == Verification(records, sourcesLock, payload)
  <2> SUFFICES ASSUME SourcesType, NEW d \in DOMAIN report
               PROVE  /\ sourcesLock.entries[d].source \in Revisions(records, d) \ Superseded(records)
                      /\ report[d] = "verified_bytes" =>
                           payload[d] = [kind |-> "file", bytes |-> sourcesLock.entries[d].material.sha256]
    BY DEF VerifiedIsThePresentHead
  <2> DEFINE head == HeadOf(records, d)
  <2>1. /\ LockAccepted(records, sourcesLock) /\ d \in WithHead(records)
        /\ report[d] = VerifyHead(records, sourcesLock, d, payload[d])
    BY DEF Verification
  <2>2. d \in Documents /\ head \in Revisions(records, d) \ Superseded(records)
    BY <2>1 DEF WithHead, HeadOf
  <2>3. sourcesLock.entries[d] = [source |-> head, material |-> records[head].material]
    BY <2>1, AcceptedIsDerived DEF EntryOf
  <2>4. records[head].material.mode \in {"vendored", "hash_only", "external_controlled", "unavailable"}
    BY <2>2, ModesAreKnown DEF SourcesType, SourceRevision, Materials, Revisions
  <2>5. ASSUME report[d] = "verified_bytes"
        PROVE  Obstacle(payload[d]) = "none" /\ payload[d].bytes = records[head].material.sha256
    BY <2>1, <2>3, <2>4, <2>5 DEF VerifyHead, VerifyVendored, Obstacle
  <2>6. payload[d] \in Payloads
    BY <2>2 DEF SourcesType
  <2>7. ASSUME Obstacle(payload[d]) = "none"
        PROVE  payload[d] = [kind |-> "file", bytes |-> payload[d].bytes]
    BY <2>6, <2>7 DEF Obstacle, Payloads
  <2>8. QED
    BY <2>2, <2>3, <2>5, <2>7
<1>2. QED
  BY <1>1, SourcesTypeHolds, PTL

-----------------------------------------------------------------------------
(* The two patches of a revision, one on top of the other.                 *)

\* effective_source_graph, patch by patch.
LEMMA EffectiveInTwo ==
  ASSUME NEW recipe
  PROVE  LET F == EffectiveAfter(recipe) IN
         /\ F[0] = {committed}
         /\ F[1] = IF 1 \notin Approved THEN F[0] ELSE UNION {Applied(G, patches[1], recipe) : G \in F[0]}
         /\ F[2] = IF 2 \notin Approved THEN F[1] ELSE UNION {Applied(G, patches[2], recipe) : G \in F[1]}
<1> DEFINE S == {0} \cup PatchUids
           Step(f) == [n \in S |->
              IF n = 0 THEN {committed}
              ELSE IF n \notin Approved THEN f[n - 1]
              ELSE UNION {Applied(G, patches[n], recipe) : G \in f[n - 1]}]
           one == IF 1 \notin Approved THEN {committed} ELSE Applied(committed, patches[1], recipe)
           two == IF 2 \notin Approved THEN one ELSE UNION {Applied(G, patches[2], recipe) : G \in one}
           f == [n \in S |-> IF n = 0 THEN {committed} ELSE IF n = 1 THEN one ELSE two]
<1>1. S = {0, 1, 2}
  BY DEF PatchUids
<1>2. UNION {Applied(G, patches[1], recipe) : G \in {committed}} = Applied(committed, patches[1], recipe)
  OBVIOUS
<1>3. f = Step(f)
  <2>1. f[0] = {committed} /\ f[1] = one /\ f[2] = two
    BY <1>1
  <2> HIDE DEF one
  <2>2. \A n \in S : f[n] = Step(f)[n]
    <3>1. Step(f)[0] = {committed}
      BY <1>1
    <3>2. Step(f)[1] = IF 1 \notin Approved THEN f[0] ELSE UNION {Applied(G, patches[1], recipe) : G \in f[0]}
      BY <1>1
    <3>3. Step(f)[2] = IF 2 \notin Approved THEN f[1] ELSE UNION {Applied(G, patches[2], recipe) : G \in f[1]}
      BY <1>1
    <3>4. Step(f)[1] = one
      BY <2>1, <3>2, <1>2 DEF one
    <3>5. Step(f)[2] = two
      BY <2>1, <3>3
    <3> HIDE DEF f, Step
    <3> QED BY <2>1, <3>1, <3>4, <3>5, <1>1
  <2> HIDE DEF two
  <2> QED BY <2>2
<1>4. EffectiveAfter(recipe) = CHOOSE g : g = Step(g)
  BY DEF EffectiveAfter
<1> HIDE DEF f
<1>5. EffectiveAfter(recipe) = Step(EffectiveAfter(recipe))
  BY <1>3, <1>4
<1>6. ASSUME NEW g, g = Step(g)
      PROVE  /\ g[0] = {committed}
             /\ g[1] = IF 1 \notin Approved THEN g[0] ELSE UNION {Applied(G, patches[1], recipe) : G \in g[0]}
             /\ g[2] = IF 2 \notin Approved THEN g[1] ELSE UNION {Applied(G, patches[2], recipe) : G \in g[1]}
  <2>1. \A n \in S : g[n] = IF n = 0 THEN {committed}
                            ELSE IF n \notin Approved THEN g[n - 1]
                            ELSE UNION {Applied(G, patches[n], recipe) : G \in g[n - 1]}
    BY <1>6
  <2>2. 0 \in S /\ 1 \in S /\ 2 \in S /\ 1 - 1 = 0 /\ 2 - 1 = 1 /\ 1 # 0 /\ 2 # 0
    BY <1>1
  <2> HIDE DEF Step, S
  <2> QED BY <2>1, <2>2, Zenon
<1> HIDE DEF Step
<1> QED BY <1>5, <1>6

\* apply_approved, patch by patch.
LEMMA CandidateInTwo ==
  ASSUME NEW cand
  PROVE  LET F == CandidateAfter(cand)
             Next(n) == Applied(F[n - 1], TheOne(cand.patches[n]), cand.recipe) IN
         /\ F[0] = cand.graph
         /\ \A n \in {1, 2} : F[n] = IF n \notin Carried(cand) \/ Next(n) = {} THEN F[n - 1]
                                   ELSE TheOne(Next(n))
<1> DEFINE S == {0} \cup PatchUids
           On(G, n) == Applied(G, TheOne(cand.patches[n]), cand.recipe)
           Then(G, n) == IF n \notin Carried(cand) \/ On(G, n) = {} THEN G ELSE TheOne(On(G, n))
           Step(f) == [n \in S |->
              IF n = 0 THEN cand.graph
              ELSE IF n \notin Carried(cand) \/ On(f[n - 1], n) = {} THEN f[n - 1]
              ELSE TheOne(On(f[n - 1], n))]
           one == Then(cand.graph, 1)
           two == Then(one, 2)
           f == [n \in S |-> IF n = 0 THEN cand.graph ELSE IF n = 1 THEN one ELSE two]
<1>1. S = {0, 1, 2}
  BY DEF PatchUids
<1>2. CandidateAfter(cand) = CHOOSE g : g = Step(g)
  BY DEF CandidateAfter
<1>3. \A g : Step(g) = [n \in S |-> IF n = 0 THEN cand.graph ELSE Then(g[n - 1], n)]
  OBVIOUS
<1> HIDE DEF Step, Then
<1>4. f = Step(f)
  <2>1. f[0] = cand.graph /\ f[1] = one /\ f[2] = two
    BY <1>1
  <2>2. Step(f) = [n \in S |-> IF n = 0 THEN cand.graph ELSE Then(f[n - 1], n)]
    BY <1>3
  <2>3. f = [n \in S |-> f[n]]
    OBVIOUS
  <2> HIDE DEF f
  <2>4. \A n \in S : f[n] = IF n = 0 THEN cand.graph ELSE Then(f[n - 1], n)
    BY <1>1, <2>1
  <2> QED BY <2>2, <2>3, <2>4
<1> HIDE DEF f
<1>5. CandidateAfter(cand) = Step(CandidateAfter(cand))
  BY <1>2, <1>4
<1>6. ASSUME NEW g, g = Step(g)
      PROVE  g[0] = cand.graph /\ \A n \in {1, 2} : g[n] = Then(g[n - 1], n)
  <2>1. g = [n \in S |-> IF n = 0 THEN cand.graph ELSE Then(g[n - 1], n)]
    BY <1>3, <1>6
  <2>2. 0 \in S /\ \A n \in {1, 2} : n \in S /\ n # 0
    BY <1>1
  <2> HIDE DEF S
  <2> QED BY <2>1, <2>2
<1> QED BY <1>5, <1>6 DEF Then

\* A patch applies to the graph it is bound to and to no other.
LEMMA AppliedToOne ==
  ASSUME NEW G, NEW p, NEW recipe
  PROVE  /\ Applied(G, p, recipe) # {} => p.bound = G /\ p.recipe = recipe
         /\ \E H : Applied(G, p, recipe) \in {{}, {H}}
<1>1. \A F \in {W \in {G} : p.target \in DOMAIN W} : F = G
  OBVIOUS
<1>2. Applied(G, p, recipe) # {} => p.bound = G /\ p.recipe = recipe
  BY DEF Applied
<1>3. \A H \in Applied(G, p, recipe) : H = Operated(G, p)
  BY <1>1 DEF Applied
<1> QED BY <1>2, <1>3

-----------------------------------------------------------------------------

\* The second ingestion of a document, with any patches of its first.
ReingestionSpec == ReingestionInit /\ [][ReingestionNext]_driftVars

PatchFields == {"target", "tag", "bound", "recipe", "state", "recomputes"}
IsPatch(p) == p = [f \in PatchFields |-> p[f]] /\ p.recomputes \in BOOLEAN

Curated(G, P) ==
    /\ DOMAIN P \subseteq PatchUids /\ P = [n \in DOMAIN P |-> P[n]]
    /\ \A n \in DOMAIN P : IsPatch(P[n]) /\ P[n].bound = G /\ P[n].recomputes = TRUE

PatchSet(S) == \E p, q : IsPatch(p) /\ IsPatch(q) /\ S = {p, q}

IsCandidate(c) ==
    c = [graph |-> c.graph, patches |-> c.patches, recipe |-> c.recipe, extractor |-> c.extractor]

Presented(c) ==
    /\ IsCandidate(c)
    /\ c.patches = [n \in DOMAIN c.patches |-> c.patches[n]]
    /\ \A n \in DOMAIN c.patches : PatchSet(c.patches[n])

\* Every committed patch is of the committed graph, and what is presented has patches
\* where it has any.
ReingestionInv == Curated(committed, patches) /\ Presented(candidate)

LEMMA PatchesArePatches ==
  /\ \A G, u, tag, recipe, state : IsPatch(Patch(G, u, tag, recipe, state))
  /\ \A p, f, x : IsPatch(p) /\ (f # "recomputes" \/ x \in BOOLEAN) => IsPatch([p EXCEPT ![f] = x])
<1>1. ASSUME NEW G, NEW u, NEW tag, NEW recipe, NEW state
      PROVE  IsPatch(Patch(G, u, tag, recipe, state))
  <2> DEFINE p == Patch(G, u, tag, recipe, state)
  <2>1. DOMAIN p = PatchFields
    BY DEF Patch, PatchFields
  <2>2. p = [f \in DOMAIN p |-> p[f]]
    BY DEF Patch
  <2>3. p.recomputes \in BOOLEAN
    BY DEF Patch
  <2> HIDE DEF p
  <2>4. IsPatch(p)
    BY <2>1, <2>2, <2>3 DEF IsPatch
  <2> QED BY <2>4 DEF p
<1>2. ASSUME NEW p, NEW f, NEW x, IsPatch(p), f # "recomputes" \/ x \in BOOLEAN
      PROVE  IsPatch([p EXCEPT ![f] = x])
  BY <1>2 DEF IsPatch, PatchFields
<1> QED BY <1>1, <1>2

\* A candidate of which one part is another.
LEMMA CandidateWith ==
  ASSUME NEW c, IsCandidate(c), NEW x
  PROVE  /\ [c EXCEPT !.graph = x]
              = [graph |-> x, patches |-> c.patches, recipe |-> c.recipe, extractor |-> c.extractor]
         /\ [c EXCEPT !.patches = x]
              = [graph |-> c.graph, patches |-> x, recipe |-> c.recipe, extractor |-> c.extractor]
         /\ [c EXCEPT !.recipe = x]
              = [graph |-> c.graph, patches |-> c.patches, recipe |-> x, extractor |-> c.extractor]
         /\ [c EXCEPT !.extractor = x]
              = [graph |-> c.graph, patches |-> c.patches, recipe |-> c.recipe, extractor |-> x]
<1>1. [c EXCEPT !.graph = x] = [graph |-> x, patches |-> c.patches, recipe |-> c.recipe, extractor |-> c.extractor]
  BY DEF IsCandidate
<1>2. [c EXCEPT !.patches = x] = [graph |-> c.graph, patches |-> x, recipe |-> c.recipe, extractor |-> c.extractor]
  BY DEF IsCandidate
<1>3. [c EXCEPT !.recipe = x] = [graph |-> c.graph, patches |-> c.patches, recipe |-> x, extractor |-> c.extractor]
  BY DEF IsCandidate
<1>4. [c EXCEPT !.extractor = x] = [graph |-> c.graph, patches |-> c.patches, recipe |-> c.recipe, extractor |-> x]
  BY DEF IsCandidate
<1> QED BY <1>1, <1>2, <1>3, <1>4

LEMMA PresentedWith ==
  ASSUME NEW c, Presented(c)
  PROVE  /\ \A G : Presented([c EXCEPT !.graph = G])
         /\ \A recipe : Presented([c EXCEPT !.recipe = recipe])
         /\ \A output : Presented([c EXCEPT !.extractor = output])
         /\ \A n, S : PatchSet(S) => Presented([c EXCEPT !.patches[n] = S])
         /\ \A n : Presented([c EXCEPT !.patches = [m \in DOMAIN c.patches \ {n} |-> c.patches[m]]])
<1> DEFINE cp == c.patches
<1>1. IsCandidate(c) /\ cp = [n \in DOMAIN cp |-> cp[n]] /\ \A n \in DOMAIN cp : PatchSet(cp[n])
  BY DEF Presented
<1>2. ASSUME NEW d, NEW G, NEW P, NEW recipe, NEW output,
             d = [graph |-> G, patches |-> P, recipe |-> recipe, extractor |-> output],
             P = [n \in DOMAIN P |-> P[n]], \A n \in DOMAIN P : PatchSet(P[n])
      PROVE  Presented(d)
  BY <1>2 DEF Presented, IsCandidate
<1> HIDE DEF cp
<1>3. ASSUME NEW G
      PROVE  Presented([c EXCEPT !.graph = G])
  <2>1. [c EXCEPT !.graph = G] = [graph |-> G, patches |-> cp, recipe |-> c.recipe, extractor |-> c.extractor]
    BY <1>1, CandidateWith DEF cp
  <2> QED BY <1>1, <1>2, <2>1
<1>4. ASSUME NEW recipe
      PROVE  Presented([c EXCEPT !.recipe = recipe])
  <2>1. [c EXCEPT !.recipe = recipe] = [graph |-> c.graph, patches |-> cp, recipe |-> recipe, extractor |-> c.extractor]
    BY <1>1, CandidateWith DEF cp
  <2> QED BY <1>1, <1>2, <2>1
<1>8. ASSUME NEW output
      PROVE  Presented([c EXCEPT !.extractor = output])
  <2>1. [c EXCEPT !.extractor = output]
          = [graph |-> c.graph, patches |-> cp, recipe |-> c.recipe, extractor |-> output]
    BY <1>1, CandidateWith DEF cp
  <2> QED BY <1>1, <1>2, <2>1
<1>5. ASSUME NEW P, P = [n \in DOMAIN P |-> P[n]], \A n \in DOMAIN P : PatchSet(P[n])
      PROVE  Presented([c EXCEPT !.patches = P])
  <2>1. [c EXCEPT !.patches = P] = [graph |-> c.graph, patches |-> P, recipe |-> c.recipe, extractor |-> c.extractor]
    BY <1>1, CandidateWith
  <2> QED BY <1>2, <1>5, <2>1
<1>6. ASSUME NEW n, NEW S, PatchSet(S)
      PROVE  Presented([c EXCEPT !.patches[n] = S])
  <2> DEFINE P == [cp EXCEPT ![n] = S]
  <2>1. P = [m \in DOMAIN P |-> P[m]] /\ \A m \in DOMAIN P : PatchSet(P[m])
    BY <1>1, <1>6
  <2>2. [c EXCEPT !.patches[n] = S] = [c EXCEPT !.patches = P]
    BY <1>1 DEF IsCandidate, cp
  <2> HIDE DEF P
  <2> QED BY <1>5, <2>1, <2>2
<1>7. ASSUME NEW n
      PROVE  Presented([c EXCEPT !.patches = [m \in DOMAIN cp \ {n} |-> cp[m]]])
  <2> DEFINE P == [m \in DOMAIN cp \ {n} |-> cp[m]]
  <2>1. P = [m \in DOMAIN P |-> P[m]] /\ \A m \in DOMAIN P : PatchSet(P[m])
    BY <1>1
  <2> HIDE DEF P
  <2>2. Presented([c EXCEPT !.patches = P])
    BY <1>5, <2>1
  <2> QED BY <2>2 DEF P
<1> QED BY <1>3, <1>4, <1>6, <1>7, <1>8 DEF cp

LEMMA UnchangedIsPresented ==
  ASSUME NEW G, NEW P, Curated(G, P)
  PROVE  Presented(Unchanged(G, P))
<1> DEFINE c == Unchanged(G, P)
<1>1. /\ c.patches = [n \in DOMAIN P |-> {P[n]}]
      /\ c = [graph |-> c.graph, patches |-> c.patches, recipe |-> c.recipe,
              extractor |-> c.extractor]
  BY DEF Unchanged
<1>6. IsCandidate(c)
  BY <1>1 DEF IsCandidate
<1> HIDE DEF c
<1>2. \A n \in DOMAIN P : PatchSet({P[n]})
  <2> TAKE n \in DOMAIN P
  <2>1. IsPatch(P[n]) /\ {P[n]} = {P[n], P[n]}
    BY DEF Curated
  <2> QED BY <2>1 DEF PatchSet
<1>3. DOMAIN c.patches = DOMAIN P /\ \A n \in DOMAIN P : c.patches[n] = {P[n]}
  BY <1>1
<1>4. c.patches = [n \in DOMAIN c.patches |-> c.patches[n]]
  BY <1>1
<1>5. Presented(c)
  BY <1>2, <1>3, <1>4, <1>6 DEF Presented
<1> QED BY <1>5 DEF c

LEMMA OneOfAPatchSet ==
  ASSUME NEW S, PatchSet(S)
  PROVE  TheOne(S) \in S /\ \A p \in S : IsPatch(p)
<1>1. PICK p, q : IsPatch(p) /\ IsPatch(q) /\ S = {p, q}
  BY DEF PatchSet
<1> QED BY <1>1 DEF TheOne

\* A revision of any graph: patches of any content are curated, and the second
\* ingestion presents whatever it likes.
RevisionStart == patches = <<>> /\ candidate = Unchanged(committed, patches)

CurateAny ==
    /\ \E n \in PatchUids \ DOMAIN patches : \E u, tag, recipe, state :
        patches' = [m \in DOMAIN patches \cup {n} |->
                      IF m = n THEN Patch(committed, u, tag, recipe, state) ELSE patches[m]]
    /\ candidate' = Unchanged(committed, patches')
    /\ UNCHANGED <<committed, extractor>>

PresentAny == Presented(candidate') /\ UNCHANGED <<committed, extractor, patches>>

revisionVars == <<committed, extractor, patches, candidate>>
RevisionSpec == RevisionStart /\ [][CurateAny \/ PresentAny]_revisionVars

LEMMA CuratingAnyKeeps ==
  ASSUME ReingestionInv, CurateAny
  PROVE  ReingestionInv'
<1>1. PICK n \in PatchUids \ DOMAIN patches : \E u, tag, recipe, state :
        patches' = [m \in DOMAIN patches \cup {n} |->
                      IF m = n THEN Patch(committed, u, tag, recipe, state) ELSE patches[m]]
  BY DEF CurateAny
<1>2. PICK u, tag, recipe, state :
        patches' = [m \in DOMAIN patches \cup {n} |->
                      IF m = n THEN Patch(committed, u, tag, recipe, state) ELSE patches[m]]
  BY <1>1
<1>3. committed' = committed /\ candidate' = Unchanged(committed, patches')
  BY DEF CurateAny
<1> DEFINE new == Patch(committed, u, tag, recipe, state)
<1>4. IsPatch(new) /\ new.bound = committed /\ new.recomputes = TRUE
  BY PatchesArePatches DEF Patch
<1> HIDE DEF new
<1>5. Curated(committed, patches')
  BY <1>2, <1>4 DEF Curated, ReingestionInv, new
<1>6. Presented(Unchanged(committed, patches'))
  BY <1>5, UnchangedIsPresented
<1> QED BY <1>3, <1>5, <1>6 DEF ReingestionInv

LEMMA CuratingIsCurating == CuratePatch => CurateAny
<1> SUFFICES ASSUME CuratePatch PROVE CurateAny
  OBVIOUS
<1>1. \E n \in PatchUids \ DOMAIN patches : \E u, tag, recipe, state :
        patches' = [m \in DOMAIN patches \cup {n} |->
                      IF m = n THEN Patch(committed, u, tag, recipe, state) ELSE patches[m]]
  BY DEF CuratePatch
<1> QED BY <1>1, Zenon DEF CuratePatch, CurateAny

LEMMA DriftingKeeps ==
  ASSUME ReingestionInv, Reingest \/ SwapSiblings \/ ChangeRecipe \/ ChangeExtractor \/ RedoPatch
  PROVE  ReingestionInv'
<1>1. committed' = committed /\ patches' = patches /\ extractor' = extractor
  BY DEF Reingest, SwapSiblings, ChangeRecipe, ChangeExtractor, RedoPatch, Drifted
<1>2. Presented(candidate)
  BY DEF ReingestionInv
<1>3. \A G : Presented([candidate EXCEPT !.graph = G])
  BY <1>2, PresentedWith
<1>4. CASE Reingest
  <2>1. PICK G : candidate' = [candidate EXCEPT !.graph = G]
    BY <1>4, Zenon DEF Reingest, Drifted
  <2> QED BY <1>1, <1>3, <2>1 DEF ReingestionInv
<1>5. CASE SwapSiblings
  <2>1. PICK u, w : candidate' = [candidate EXCEPT !.graph[u].ordinal = candidate.graph[w].ordinal,
                                                   !.graph[w].ordinal = candidate.graph[u].ordinal]
    BY <1>5, Zenon DEF SwapSiblings, Drifted
  <2>2. \E G : candidate' = [candidate EXCEPT !.graph = G]
    <3>1. IsCandidate(candidate)
      BY <1>2 DEF Presented
    <3> DEFINE x == candidate.graph[w].ordinal
               y == candidate.graph[u].ordinal
    <3>2. candidate' = [candidate EXCEPT !.graph[u].ordinal = x, !.graph[w].ordinal = y]
      BY <2>1
    <3> HIDE DEF x, y
    <3> DEFINE G == [[candidate.graph EXCEPT ![u].ordinal = x] EXCEPT ![w].ordinal = y]
    <3>3. [candidate EXCEPT !.graph[u].ordinal = x, !.graph[w].ordinal = y]
            = [candidate EXCEPT !.graph = G]
      BY <3>1 DEF IsCandidate
    <3> QED BY <3>2, <3>3, Zenon
  <2> QED BY <1>1, <1>3, <2>2 DEF ReingestionInv
<1>6. CASE ChangeRecipe
  <2>1. PICK recipe : candidate' = [candidate EXCEPT !.recipe = recipe]
    BY <1>6, Zenon DEF ChangeRecipe, Drifted
  <2> QED BY <1>1, <1>2, <2>1, PresentedWith DEF ReingestionInv
<1>8. CASE ChangeExtractor
  <2>1. PICK output : candidate' = [candidate EXCEPT !.extractor = output]
    BY <1>8, Zenon DEF ChangeExtractor, Drifted
  <2> QED BY <1>1, <1>2, <2>1, PresentedWith DEF ReingestionInv
<1>7. CASE RedoPatch
  <2>1. PICK n \in DOMAIN candidate.patches :
          LET p == TheOne(candidate.patches[n]) IN
          \/ candidate' = [candidate EXCEPT !.patches =
                              [m \in DOMAIN candidate.patches \ {n} |-> candidate.patches[m]]]
          \/ candidate' = [candidate EXCEPT !.patches[n] = {p, [p EXCEPT !.tag = "remove"]}]
          \/ \E q \in {[p EXCEPT !.tag = "confirm"], [p EXCEPT !.recomputes = FALSE]}
                       \cup {[p EXCEPT !.state = s] : s \in States} :
                candidate' = [candidate EXCEPT !.patches[n] = {q}]
    BY <1>7, Zenon DEF RedoPatch, Drifted
  <2> DEFINE p == TheOne(candidate.patches[n])
  <2>2. IsPatch(p)
    BY <1>2, OneOfAPatchSet DEF Presented
  <2> HIDE DEF p
  <2>3. /\ IsPatch([p EXCEPT !.tag = "remove"]) /\ IsPatch([p EXCEPT !.tag = "confirm"])
        /\ IsPatch([p EXCEPT !.recomputes = FALSE])
        /\ \A s \in States : IsPatch([p EXCEPT !.state = s])
    BY <2>2, PatchesArePatches
  <2>4. PatchSet({p, [p EXCEPT !.tag = "remove"]})
    BY <2>2, <2>3 DEF PatchSet
  <2>5. ASSUME NEW q, IsPatch(q)
        PROVE  PatchSet({q})
    <3>1. {q} = {q, q}
      OBVIOUS
    <3> QED BY <2>5, <3>1 DEF PatchSet
  <2>6. CASE candidate' = [candidate EXCEPT !.patches =
                              [m \in DOMAIN candidate.patches \ {n} |-> candidate.patches[m]]]
    BY <1>1, <1>2, <2>6, PresentedWith, Zenon DEF ReingestionInv
  <2>7. ASSUME NEW S, PatchSet(S), candidate' = [candidate EXCEPT !.patches[n] = S]
        PROVE  ReingestionInv'
    BY <1>1, <1>2, <2>7, PresentedWith, Zenon DEF ReingestionInv
  <2>8. CASE candidate' = [candidate EXCEPT !.patches[n] = {p, [p EXCEPT !.tag = "remove"]}]
    BY <2>4, <2>7, <2>8, Zenon
  <2>9. ASSUME NEW q \in {[p EXCEPT !.tag = "confirm"], [p EXCEPT !.recomputes = FALSE]}
                          \cup {[p EXCEPT !.state = s] : s \in States},
               candidate' = [candidate EXCEPT !.patches[n] = {q}]
        PROVE  ReingestionInv'
    <3>1. IsPatch(q)
      BY <2>3
    <3> QED BY <2>5, <2>7, <2>9, <3>1, Zenon
  <2> QED BY <2>1, <2>6, <2>8, <2>9, Zenon DEF p
<1> QED BY <1>4, <1>5, <1>6, <1>7, <1>8

LEMMA ReingestionInvHolds == ReingestionSpec => []ReingestionInv
<1>1. ReingestionInit => ReingestionInv
  <2> SUFFICES ASSUME ReingestionInit PROVE ReingestionInv
    OBVIOUS
  <2>1. Curated(committed, patches)
    BY DEF ReingestionInit, Curated
  <2> QED BY <2>1, UnchangedIsPresented DEF ReingestionInit, ReingestionInv
<1>2. ReingestionInv /\ [ReingestionNext]_driftVars => ReingestionInv'
  <2> SUFFICES ASSUME ReingestionInv, [ReingestionNext]_driftVars PROVE ReingestionInv'
    OBVIOUS
  <2>1. CASE UNCHANGED driftVars
    BY <2>1 DEF driftVars, ReingestionInv
  <2> QED BY <2>1, CuratingIsCurating, CuratingAnyKeeps, DriftingKeeps DEF ReingestionNext
<1> QED BY <1>1, <1>2, PTL DEF ReingestionSpec

LEMMA RevisionInvHolds == RevisionSpec => []ReingestionInv
<1>1. RevisionStart => ReingestionInv
  <2> SUFFICES ASSUME RevisionStart PROVE ReingestionInv
    OBVIOUS
  <2>1. Curated(committed, patches)
    BY DEF RevisionStart, Curated
  <2> QED BY <2>1, UnchangedIsPresented DEF RevisionStart, ReingestionInv
<1>2. ReingestionInv /\ [CurateAny \/ PresentAny]_revisionVars => ReingestionInv'
  <2> SUFFICES ASSUME ReingestionInv, [CurateAny \/ PresentAny]_revisionVars PROVE ReingestionInv'
    OBVIOUS
  <2>1. CASE UNCHANGED revisionVars
    BY <2>1 DEF revisionVars, ReingestionInv
  <2>2. CASE PresentAny
    BY <2>2 DEF PresentAny, ReingestionInv
  <2> QED BY <2>1, <2>2, CuratingAnyKeeps
<1> QED BY <1>1, <1>2, PTL DEF RevisionSpec

\* What the model does to a small graph is a revision.
LEMMA ReingestionIsARevision == ReingestionSpec => RevisionSpec
<1>1. ReingestionInit => RevisionStart
  BY DEF ReingestionInit, RevisionStart
<1>2. ReingestionInv' /\ [ReingestionNext]_driftVars => [CurateAny \/ PresentAny]_revisionVars
  <2> SUFFICES ASSUME ReingestionInv', [ReingestionNext]_driftVars
               PROVE  [CurateAny \/ PresentAny]_revisionVars
    OBVIOUS
  <2>1. CASE UNCHANGED driftVars
    BY <2>1 DEF driftVars, revisionVars
  <2>2. CASE CuratePatch
    BY <2>2, CuratingIsCurating
  <2>3. CASE Reingest \/ SwapSiblings \/ ChangeRecipe \/ ChangeExtractor \/ RedoPatch
    <3>1. committed' = committed /\ patches' = patches /\ extractor' = extractor
      BY <2>3 DEF Reingest, SwapSiblings, ChangeRecipe, ChangeExtractor, RedoPatch, Drifted
    <3> QED BY <3>1 DEF ReingestionInv, PresentAny
  <2> QED BY <2>1, <2>2, <2>3 DEF ReingestionNext
<1> QED BY <1>1, <1>2, ReingestionInvHolds, PTL DEF ReingestionSpec, RevisionSpec

-----------------------------------------------------------------------------
\* What an approved patch makes of the graphs it meets.
LEMMA AloneOrNotAtAll ==
  ASSUME Curated(committed, patches), NEW n \in Approved
  PROVE  /\ n \in {1, 2} /\ patches[n].bound = committed
         /\ \E H : Applied(committed, patches[n], patches[n].recipe) \in {{}, {H}}
         /\ \A G, recipe : Applied(G, patches[n], recipe) # {} =>
               /\ G = committed /\ recipe = patches[n].recipe
               /\ Applied(G, patches[n], recipe) = Applied(committed, patches[n], patches[n].recipe)
<1>1. n \in {1, 2} /\ patches[n].bound = committed
  BY DEF Curated, Approved, PatchUids
<1>2. \E H : Applied(committed, patches[n], patches[n].recipe) \in {{}, {H}}
  BY AppliedToOne
<1>3. ASSUME NEW G, NEW recipe, Applied(G, patches[n], recipe) # {}
      PROVE  G = committed /\ recipe = patches[n].recipe
  BY <1>1, <1>3, AppliedToOne
<1> QED BY <1>1, <1>2, <1>3

LEMMA ChainedIsAlone ==
  ASSUME Curated(committed, patches)
  PROVE  EffectiveIsOnePatch
<1> DEFINE alone(n) == Applied(committed, patches[n], patches[n].recipe)
           F == EffectiveAfter(SameRecipe)
           P(n) == patches[n]
<1>1. F[0] = {committed}
      /\ F[1] = (IF 1 \notin Approved THEN F[0] ELSE UNION {Applied(G, P(1), SameRecipe) : G \in F[0]})
      /\ F[2] = (IF 2 \notin Approved THEN F[1] ELSE UNION {Applied(G, P(2), SameRecipe) : G \in F[1]})
  BY EffectiveInTwo
<1>2. \A n \in Approved :
        /\ n \in {1, 2}
        /\ \E H : alone(n) \in {{}, {H}}
        /\ \A G : Applied(G, P(n), SameRecipe) # {} =>
              G = committed /\ P(n).recipe = SameRecipe /\ Applied(G, P(n), SameRecipe) = alone(n)
  BY AloneOrNotAtAll
<1>3. Effective(SameRecipe) = F[2] /\ (BoundaryPasses <=> \A n \in Approved : alone(n) # {})
  BY DEF Effective, BoundaryPasses
<1> HIDE DEF alone, F, P
<1>5. F[1] = (IF 1 \notin Approved THEN {committed} ELSE Applied(committed, P(1), SameRecipe))
  BY <1>1
<1> SUFFICES ASSUME NEW G \in F[2]
             PROVE  /\ \A n \in Approved : alone(n) # {}
                    /\ \A n \in Approved : P(n).recipe = SameRecipe
                    /\ \A n \in Approved : alone(n) # {committed} => alone(n) = {G}
                    /\ \A n, m \in Approved : n # m => committed \in alone(n) \cup alone(m)
                    /\ G # committed => \E n \in Approved : alone(n) = {G}
  BY <1>3 DEF EffectiveIsOnePatch, alone, P
<1>6. CASE 2 \notin Approved
  <2>1. G \in F[1]
    BY <1>1, <1>6
  <2>2. CASE 1 \notin Approved
    <3>1. Approved = {} /\ G = committed
      BY <1>2, <1>5, <1>6, <2>1, <2>2
    <3> QED BY <3>1
  <2>3. CASE 1 \in Approved
    <3>1. Approved = {1} /\ G \in alone(1) /\ P(1).recipe = SameRecipe
      BY <1>2, <1>5, <1>6, <2>1, <2>3
    <3>2. alone(1) = {G}
      BY <1>2, <3>1
    <3> QED BY <3>1, <3>2
  <2> QED BY <2>2, <2>3
<1>7. CASE 2 \in Approved
  <2>1. PICK H \in F[1] : G \in Applied(H, P(2), SameRecipe)
    BY <1>1, <1>7
  <2>2. H = committed /\ P(2).recipe = SameRecipe /\ alone(2) = {G}
    BY <1>2, <1>7, <2>1
  <2>3. CASE 1 \notin Approved
    <3>1. Approved = {2}
      BY <1>2, <1>7, <2>3
    <3> QED BY <2>2, <3>1
  <2>4. CASE 1 \in Approved
    <3>1. Approved = {1, 2}
      BY <1>2, <1>7, <2>4
    <3>2. alone(1) = {committed} /\ P(1).recipe = SameRecipe
      BY <1>2, <1>5, <2>1, <2>2, <2>4
    <3> QED BY <2>2, <3>1, <3>2
  <2> QED BY <2>3, <2>4
<1> QED BY <1>6, <1>7

\* An effective graph is the work of one approved patch at most: of approved contents
\* none is composed with another and none is dropped (effective_source_graph,
\* validate_effective_curated_content).
THEOREM OnePatchIsEffective == RevisionSpec => []EffectiveIsOnePatch
<1>1. ReingestionInv => EffectiveIsOnePatch
  BY ChainedIsAlone DEF ReingestionInv
<1> QED BY <1>1, RevisionInvHolds, PTL

-----------------------------------------------------------------------------
\* The same patch in the same state.
LEMMA SamePatch ==
  ASSUME NEW old, NEW new, IsPatch(old), IsPatch(new), old.recomputes = TRUE,
         PatchVerdict(old, new) = "same", new.state = old.state
  PROVE  new = old
<1>1. new.recomputes = TRUE
  BY DEF PatchVerdict, IsPatch
<1>2. <<new.target, new.tag, new.bound, new.recipe>> = <<old.target, old.tag, old.bound, old.recipe>>
  BY <1>1 DEF PatchVerdict
<1>3. \A f \in PatchFields : new[f] = old[f]
  BY <1>1, <1>2 DEF PatchFields
<1> QED BY <1>3 DEF IsPatch

LEMMA OneRecord ==
  ASSUME NEW S, PatchSet(S), Cardinality(S) = 1
  PROVE  S = {TheOne(S)}
<1>1. PICK p, q : S = {p, q}
  BY DEF PatchSet
<1>2. p = q
  <2>1. SUFFICES ASSUME p # q PROVE FALSE
    OBVIOUS
  <2>2. IsFiniteSet({q}) /\ Cardinality({q}) = 1
    BY FS_Singleton
  <2>3. Cardinality({q} \cup {p}) = 2
    BY <2>1, <2>2, FS_AddElement
  <2>4. S = {q} \cup {p}
    BY <1>1
  <2> QED BY <2>3, <2>4
<1> QED BY <1>1, <1>2 DEF TheOne

\* The findings about patches, one by one.
LEMMA NoPatchFindings ==
  ASSUME NEW c, PatchFindings(c) = {}
  PROVE  /\ DOMAIN c.patches = DOMAIN patches /\ Grouped(c.patches) = DOMAIN patches
         /\ \A n \in DOMAIN patches :
               /\ PatchVerdict(patches[n], TheOne(c.patches[n])) = "same"
               /\ TheOne(c.patches[n]).state = patches[n].state
         /\ Unappliable(c) = {}
<1> DEFINE known == DOMAIN patches
           present == Grouped(c.patches)
           one(n) == TheOne(c.patches[n])
           restated(n) == StateFindings(patches[n], one(n), n)
           same == {n \in known \cap present : PatchVerdict(patches[n], one(n)) = "same"}
<1>1. \A n \in DOMAIN c.patches \ present : Finding("patch_unappliable", n) \in PatchFindings(c)
  BY DEF PatchFindings
<1>2. \A n \in known \ present : Finding("patch_removed", n) \in PatchFindings(c)
  BY DEF PatchFindings
<1>3. \A n \in present \ known : Finding("patch_added", n) \in PatchFindings(c)
  BY DEF PatchFindings
<1>4. ASSUME NEW n \in Unappliable(c)
      PROVE  Finding("patch_unappliable", n) \in PatchFindings(c)
  BY DEF PatchFindings
<1>5. \A n \in known \cap present : PatchVerdict(patches[n], one(n)) # "same" =>
        Finding(PatchVerdict(patches[n], one(n)), n) \in PatchFindings(c)
  BY DEF PatchFindings
<1>6. \A n \in same : restated(n) \subseteq PatchFindings(c)
  BY DEF PatchFindings
<1>7. known = present /\ DOMAIN c.patches = known
  BY <1>1, <1>2, <1>3 DEF Grouped
<1>8. \A n \in known : PatchVerdict(patches[n], one(n)) = "same"
  BY <1>7, <1>5
<1>9. Unappliable(c) = {}
  BY <1>4
<1>10. ASSUME NEW n \in known
       PROVE  one(n).state = patches[n].state
  <2>1. n \in same
    BY <1>7, <1>8
  <2> HIDE DEF same
  <2>2. restated(n) = {}
    BY <1>6, <2>1
  <2>3. {x \in {"review_state_changed"} : one(n).state # patches[n].state} = {}
    BY <2>2 DEF StateFindings
  <2> QED BY <2>3
<1> QED BY <1>7, <1>8, <1>9, <1>10

\* A patch is bound to the graph it applies to, so the first approved one ties the
\* candidate graph to the committed one; without any, the effective graphs are the two.
LEMMA SameGraph ==
  ASSUME Curated(committed, patches), NEW c, c.recipe = SameRecipe,
         \A n \in DOMAIN patches : c.patches[n] = {patches[n]},
         Carried(c) = Approved, Unappliable(c) = {},
         {CandidateEffective(c)} = Effective(SameRecipe)
  PROVE  c.graph = committed
<1> DEFINE F == EffectiveAfter(SameRecipe)
           K == CandidateAfter(c)
<1>1. /\ F[0] = {committed}
      /\ 1 \notin Approved => F[1] = F[0]
      /\ 2 \notin Approved => F[2] = F[1]
  BY EffectiveInTwo
<1>2. /\ K[0] = c.graph
      /\ 1 \notin Approved => K[1] = K[0]
      /\ 2 \notin Approved => K[2] = K[1]
  BY CandidateInTwo
<1>3. {K[2]} = F[2]
  BY DEF CandidateEffective, Effective
<1>4. \A n \in Approved : Applied(K[n - 1], TheOne(c.patches[n]), SameRecipe) # {}
  BY DEF Unappliable
<1>5. ASSUME NEW n \in Approved
      PROVE  K[n - 1] = committed
  <2>1. n \in DOMAIN patches /\ TheOne(c.patches[n]) = patches[n]
    BY DEF Approved, TheOne
  <2> HIDE DEF K
  <2>2. K[n - 1] = patches[n].bound
    BY <1>4, <2>1, AppliedToOne
  <2> QED BY <2>1, <2>2 DEF Curated
<1> HIDE DEF F, K
<1>6. CASE 1 \in Approved
  <2>1. 1 - 1 = 0
    OBVIOUS
  <2> QED BY <1>2, <1>5, <1>6, <2>1
<1>7. CASE 1 \notin Approved /\ 2 \in Approved
  <2>1. 2 - 1 = 1
    OBVIOUS
  <2> QED BY <1>2, <1>5, <1>7, <2>1
<1>8. CASE 1 \notin Approved /\ 2 \notin Approved
  BY <1>1, <1>2, <1>3, <1>8
<1> QED BY <1>6, <1>7, <1>8

LEMMA NothingFoundNothingChanged ==
  ASSUME ReingestionInv
  PROVE  EqualMeansIdentical
<1> SUFFICES ASSUME Equal(candidate)
             PROVE  /\ extractor # "none" => candidate.extractor = extractor
                    /\ [candidate EXCEPT !.extractor = extractor] = Unchanged(committed, patches)
  BY DEF EqualMeansIdentical
<1> DEFINE c == candidate
<1>1. PatchFindings(c) = {} /\ c.recipe = SameRecipe
      /\ {CandidateEffective(c)} = Effective(SameRecipe)
      /\ (extractor # "none" => c.extractor = extractor)
  <2> DEFINE A0 == {Finding("extractor_output_changed", 0) :
                      x \in {x \in {1} : extractor # "none" /\ c.extractor # extractor}}
             A1 == {Finding("recipe_changed_or_unavailable", 0) : x \in {x \in {1} : c.recipe # SameRecipe}}
             A2 == NodeFindings(committed, c.graph)
             A3 == PatchFindings(c)
             A4 == {Finding("effective_graph_changed", 0) :
                      x \in {x \in {1} : {CandidateEffective(c)} # Effective(SameRecipe)}}
  <2>1. A1 \cup A0 \cup A2 \cup A3 \cup A4 = {}
    BY DEF Equal, Findings
  <2> HIDE DEF A0, A1, A2, A3, A4
  <2>2. A0 = {} /\ A1 = {} /\ A3 = {} /\ A4 = {}
    BY <2>1
  <2>3. c.recipe = SameRecipe
    BY <2>2 DEF A1
  <2>4. {CandidateEffective(c)} = Effective(SameRecipe)
    BY <2>2 DEF A4
  <2>5. extractor # "none" => c.extractor = extractor
    BY <2>2 DEF A0
  <2> QED BY <2>2, <2>3, <2>4, <2>5 DEF A3
<1>2. Curated(committed, patches) /\ Presented(c)
  BY DEF ReingestionInv
<1> HIDE DEF c
<1>3. /\ DOMAIN c.patches = DOMAIN patches /\ Grouped(c.patches) = DOMAIN patches
      /\ \A n \in DOMAIN patches :
            /\ PatchVerdict(patches[n], TheOne(c.patches[n])) = "same"
            /\ TheOne(c.patches[n]).state = patches[n].state
      /\ Unappliable(c) = {}
  BY <1>1, NoPatchFindings
<1>4. ASSUME NEW n \in DOMAIN patches
      PROVE  c.patches[n] = {patches[n]}
  <2>1. PatchSet(c.patches[n]) /\ Cardinality(c.patches[n]) = 1
    BY <1>2, <1>3 DEF Presented, Grouped
  <2>2. c.patches[n] = {TheOne(c.patches[n])} /\ IsPatch(TheOne(c.patches[n]))
    BY <2>1, OneRecord, OneOfAPatchSet
  <2>3. TheOne(c.patches[n]) = patches[n]
    BY <1>2, <1>3, <2>2, SamePatch DEF Curated
  <2> QED BY <2>2, <2>3
<1>5. Carried(c) = Approved
  BY <1>3 DEF Carried, Approved
<1>6. c.graph = committed
  BY <1>1, <1>2, <1>3, <1>4, <1>5, SameGraph
<1>7. c.patches = [n \in DOMAIN patches |-> {patches[n]}]
  BY <1>2, <1>3, <1>4 DEF Presented
<1>8. [c EXCEPT !.extractor = extractor]
        = [graph |-> c.graph, patches |-> c.patches, recipe |-> c.recipe, extractor |-> extractor]
  BY <1>2, CandidateWith DEF Presented
<1>9. [c EXCEPT !.extractor = extractor] = Unchanged(committed, patches)
  BY <1>1, <1>6, <1>7, <1>8 DEF Unchanged
<1> QED BY <1>1, <1>9 DEF c

\* No report without findings for anything but what is committed (compare_reingestion).
THEOREM EqualIsIdentical == RevisionSpec => []EqualMeansIdentical
<1>1. ReingestionInv => EqualMeansIdentical
  BY NothingFoundNothingChanged
<1> QED BY <1>1, RevisionInvHolds, PTL
====
