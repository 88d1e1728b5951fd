------------------------ MODULE ProposalStore_proofs ------------------------
(***************************************************************************)
(* The review plane, for every set of targets, reviews, reviewers and      *)
(* digests, and the proposal store, for any number of agents and           *)
(* proposals.                                                              *)
(* Of the reviews only TypeOK has to be inductive: the guarantees of       *)
(* supersession follow from the validation of the graph in each state.     *)
(* That the walk of reject_cycles finds every cycle is an argument about   *)
(* finite sets: the reviews are finite in number, so a walk longer than    *)
(* they are many has come back to one of them.                             *)
(* Of the store StoreInv is: a busy agent owns the file it opened          *)
(* (create_new gave it to nobody else), and that file is a draft for as    *)
(* long as the agent may still remove it, so neither its own clean-up nor  *)
(* anybody's write can reach a file that is whole, let alone acknowledged. *)
(*            RevisionInv remembers for every loaded copy of the corpus    *)
(* that it was the corpus once, so that what passes the guards on a stale  *)
(* copy was a candidate when the copy was made.                            *)
(***************************************************************************)
EXTENDS ProposalStore, FiniteSetTheorems, WellFoundedInduction, FunctionTheorems, TLAPS

-----------------------------------------------------------------------------
(* The reviews of a corpus (ReviewCorpus).                                 *)

\* The committed records stay well typed and no two share a uid, under every
\* edit of the record files (the loader's strict parse and graph.insert).
THEOREM TypeCorrect == ReviewSpec => []TypeOK
<1>1. ReviewInit => TypeOK
  BY DEF ReviewInit, TypeOK
<1>2. TypeOK /\ [ReviewNext]_reviewVars => TypeOK'
  <2> SUFFICES ASSUME TypeOK, [ReviewNext]_reviewVars
               PROVE  TypeOK'
    OBVIOUS
  <2> USE DEF TypeOK
  <2>1. ASSUME NEW t \in Targets, NEW d \in Digests, EditContent(t, d)
        PROVE  TypeOK'
    BY <2>1 DEF EditContent
  <2>2. ASSUME NEW t \in Targets, DeleteTarget(t)
        PROVE  TypeOK'
    BY <2>2 DEF DeleteTarget
  <2>3. ASSUME NEW v \in ReviewNode, RecordReview(v)
        PROVE  TypeOK'
    BY <2>3 DEF RecordReview
  <2>4. ASSUME NEW v \in reviews, WithdrawReview(v)
        PROVE  TypeOK'
    BY <2>4 DEF WithdrawReview
  <2>5. ASSUME NEW c \in Artifacts \X Requirements, ToggleClaim(c)
        PROVE  TypeOK'
    BY <2>5 DEF ToggleClaim
  <2>6. CASE UNCHANGED reviewVars
    BY <2>6 DEF reviewVars
  <2>7. QED
    BY <2>1, <2>2, <2>3, <2>4, <2>5, <2>6 DEF ReviewNext
<1>3. QED
  BY <1>1, <1>2, PTL DEF ReviewSpec

-----------------------------------------------------------------------------

\* In a valid graph every review's reviewer keeps an effective head at the
\* digest reviewed.  The set of that reviewer's reviews of that target and
\* digest is not empty, so by NoCycles one of its members is superseded by
\* none of the others; by CorrectionsMatch nobody outside the set can
\* supersede it either, so it is a head.
LEMMA VoiceHasHead ==
  ASSUME TypeOK, GraphValid, NEW v \in reviews
  PROVE  \E h \in Heads(v.target) : h.reviewer = v.reviewer /\ h.digest = v.digest
<1> DEFINE Voice == {w \in reviews : /\ w.reviewer = v.reviewer
                                     /\ w.target = v.target
                                     /\ w.digest = v.digest}
<1>1. Voice \in SUBSET reviews /\ v \in Voice
  OBVIOUS
<1>2. PICK h \in Voice : \A w \in Voice : w.supersedes # h.uid
  BY <1>1, Zenon DEF GraphValid, NoCycles
<1>3. ASSUME NEW w \in reviews, w.supersedes = h.uid
      PROVE  FALSE
  <2>1. Corrects(w, h)
    BY <1>2, <1>3 DEF GraphValid, CorrectionsMatch
  <2>2. w \in Voice
    BY <2>1, <1>2 DEF Corrects
  <2>3. QED
    BY <2>2, <1>2, <1>3
<1>4. h.uid \notin Superseded
  BY <1>3 DEF Superseded
<1>5. h \in Heads(v.target)
  BY <1>2, <1>4 DEF Heads
<1>6. QED
  BY <1>5, <1>2

\* No reviewer's voice is lost by supersession, in any reachable record set.
THEOREM VoicesKept == ReviewSpec => []DecisionsNeverVanish
<1>1. TypeOK => DecisionsNeverVanish
  BY VoiceHasHead DEF DecisionsNeverVanish
<1>2. QED
  BY <1>1, TypeCorrect, PTL

\* A rejection of the current content is lifted only by its own reviewer.
LEMMA ObjectionStands ==
  ASSUME TypeOK, GraphValid, NEW v \in reviews, v.digest = content[v.target]
  PROVE  \/ DeriveState(v.target) = "Rejected"
         \/ \E h \in Heads(v.target) : /\ h.reviewer = v.reviewer
                                       /\ h.decision = "Approve"
                                       /\ h.digest = content[v.target]
<1>1. PICK h \in Heads(v.target) : h.reviewer = v.reviewer /\ h.digest = v.digest
  BY VoiceHasHead
<1>2. h.decision \in Decisions
  BY <1>1 DEF Heads, TypeOK, ReviewNode
<1>3. CASE h.decision = "Reject"
  BY <1>1, <1>3 DEF DeriveState, HeadDecides
<1>4. CASE h.decision = "Approve"
  BY <1>1, <1>4
<1>5. QED
  BY <1>2, <1>3, <1>4 DEF Decisions

\* Nobody but the objector turns a rejected target into anything else while
\* its content stands (supersession.rs and derive_state).
THEOREM ObjectorsRule == ReviewSpec => []OnlyTheObjectorLiftsARejection
<1>1. TypeOK => OnlyTheObjectorLiftsARejection
  BY ObjectionStands DEF OnlyTheObjectorLiftsARejection
<1>2. QED
  BY <1>1, TypeCorrect, PTL

\* What a passed approval boundary means: every claimed requirement is
\* approved at its current content and has no standing objection.
THEOREM BoundarySound == ReviewSpec => []PassedBoundaryIsUncontested
<1>1. ASSUME TypeOK, Boundary = "Ok", NEW c \in claims
      PROVE  /\ HeadDecides(c[2], "Approve")
             /\ \A v \in reviews :
                  v.target = c[2] /\ v.digest = content[c[2]] =>
                    \E h \in Heads(c[2]) : /\ h.reviewer = v.reviewer
                                           /\ h.decision = "Approve"
                                           /\ h.digest = content[c[2]]
  <2>1. GraphValid
    BY <1>1 DEF Boundary
  <2>2. Violations = {}
    BY <1>1, <2>1 DEF Boundary
  <2>3. DeriveState(c[2]) = "Approved"
    BY <2>2, <1>1 DEF Violations
  <2>4. HeadDecides(c[2], "Approve")
    BY <2>3 DEF DeriveState
  <2>5. ASSUME NEW v \in reviews, v.target = c[2], v.digest = content[c[2]]
        PROVE  \E h \in Heads(c[2]) : /\ h.reviewer = v.reviewer
                                      /\ h.decision = "Approve"
                                      /\ h.digest = content[c[2]]
    BY <1>1, <2>1, <2>3, <2>5, ObjectionStands
  <2>6. QED
    BY <2>4, <2>5
<1>2. TypeOK => PassedBoundaryIsUncontested
  BY <1>1 DEF PassedBoundaryIsUncontested
<1>3. QED
  BY <1>2, TypeCorrect, PTL

-----------------------------------------------------------------------------

\* Whether a review of t is a head depends on the reviews of t alone, because
\* in a valid graph only a review of t can supersede one.
LEMMA HeadsAreLocal ==
  ASSUME NEW t \in Targets, GraphValid, GraphValid',
         {v \in reviews : v.target = t} = {v \in reviews' : v.target = t}
  PROVE  Heads(t)' = Heads(t)
<1>1. ASSUME NEW v, v \in reviews, v.target = t
      PROVE  v \in reviews' /\ (v.uid \in Superseded <=> v.uid \in Superseded')
  <2>1. v \in reviews'
    BY <1>1
  <2>2. ASSUME NEW w \in reviews, w.supersedes = v.uid
        PROVE  w \in reviews'
    <3>1. w.target = t
      BY <1>1, <2>2 DEF GraphValid, CorrectionsMatch, Corrects
    <3>2. QED
      BY <3>1
  <2>3. ASSUME NEW w \in reviews', w.supersedes = v.uid
        PROVE  w \in reviews
    <3>1. w.target = t
      BY <1>1, <2>1, <2>3 DEF GraphValid, CorrectionsMatch, Corrects
    <3>2. QED
      BY <3>1
  <2>4. QED
    BY <2>1, <2>2, <2>3 DEF Superseded
<1>2. ASSUME NEW v, v \in reviews', v.target = t
      PROVE  v \in reviews
  BY <1>2
<1>3. QED
  BY <1>1, <1>2 DEF Heads

\* Reviews of one target never move another target's lifecycle.
THEOREM Locality == ReviewSpec => ReviewsAreLocal
<1>1. ASSUME NEW t \in Targets, GraphValid, GraphValid', content' = content,
             {v \in reviews : v.target = t} = {v \in reviews' : v.target = t}
      PROVE  DeriveState(t)' = DeriveState(t)
  <2>1. Heads(t)' = Heads(t)
    BY <1>1, HeadsAreLocal
  <2>2. \A decision : HeadDecides(t, decision)' <=> HeadDecides(t, decision)
    BY <1>1, <2>1 DEF HeadDecides
  <2>3. HasOlderApproval(t)' <=> HasOlderApproval(t)
    BY <1>1, <2>1 DEF HasOlderApproval
  <2>4. QED
    BY <2>2, <2>3 DEF DeriveState
<1>2. LocalStep
  BY <1>1 DEF LocalStep
<1>3. QED
  BY <1>2, PTL DEF ReviewsAreLocal

\* An edit of the content leaves the review records alone, so what decides the
\* new content was recorded before the edit.
THEOREM EditsDecideNothing == ReviewSpec => EditsInheritNoDecision
<1>1. ASSUME [ReviewNext]_reviewVars, NEW t \in Targets, content'[t] # content[t]
      PROVE  reviews' = reviews
  BY <1>1 DEF ReviewNext, reviewVars, EditContent, DeleteTarget, RecordReview, WithdrawReview, ToggleClaim
<1>2. ASSUME [ReviewNext]_reviewVars, NEW t \in Targets, content'[t] # content[t]
      PROVE  /\ DeriveState(t)' = "Approved" =>
                  \E v \in reviews : /\ v.target = t /\ v.digest = content'[t]
                                     /\ v.decision = "Approve"
             /\ DeriveState(t)' = "Rejected" =>
                  \E v \in reviews : /\ v.target = t /\ v.digest = content'[t]
                                     /\ v.decision = "Reject"
  BY <1>1, <1>2 DEF DeriveState, HeadDecides, Heads
<1>3. [ReviewNext]_reviewVars => InheritNothingStep
  BY <1>2 DEF InheritNothingStep
<1>4. QED
  BY <1>3, PTL DEF EditsInheritNoDecision, ReviewSpec

-----------------------------------------------------------------------------
(* The walk of reject_cycles.                                              *)

\* A set of numbers has a least one.
LEMMA LeastNatural ==
  ASSUME NEW S \in SUBSET Nat, S # {}
  PROVE  \E x \in S : \A y \in S : x <= y
<1> DEFINE T == {1..n : n \in S}
<1>1. T \subseteq FiniteSubsetsOf(Nat) /\ T # {}
  <2>1. \A n \in Nat : 1..n \in SUBSET Nat /\ IsFiniteSet(1..n)
    BY FS_Interval
  <2> QED BY <2>1 DEF FiniteSubsetsOf
<1>2. IsWellFoundedOn(StrictSubsetOrdering(Nat), FiniteSubsetsOf(Nat))
  BY FS_StrictSubsetOrderingWellFounded
<1> HIDE DEF T
<1>3. PICK X \in T : \A Y \in T : <<Y, X>> \notin StrictSubsetOrdering(Nat)
  BY <1>1, <1>2, WFMin
<1>4. PICK x \in S : X = 1..x
  BY DEF T
<1>5. ASSUME NEW y \in S, y < x
      PROVE  FALSE
  <2>1. 1..y \in T /\ 1..y \subseteq 1..x /\ 1..y \in SUBSET Nat /\ 1..x \in SUBSET Nat
    BY <1>5 DEF T
  <2>2. 1..y # 1..x
    <3>1. x \in 1..x /\ x \notin 1..y
      BY <1>5
    <3> QED BY <3>1
  <2>3. <<1..y, 1..x>> \in StrictSubsetOrdering(Nat)
    BY <2>1, <2>2 DEF StrictSubsetOrdering
  <2> QED BY <1>3, <1>4, <2>1, <2>3
<1> QED BY <1>5

\* What is first of the numbers up to n with a property they do not all lack.
LEMMA FirstOf ==
  ASSUME NEW S \in SUBSET Nat, NEW n \in S, 0 \notin S
  PROVE  \E k \in S : k > 0 /\ k - 1 \in Nat /\ k - 1 \notin S /\ k <= n
<1>1. PICK k \in S : \A y \in S : k <= y
  BY LeastNatural
<1> QED BY <1>1

\* f starts at x and follows next, up to n.
Follows(f, x, next, n) ==
    /\ DOMAIN f = 0..n
    /\ f[0] = x
    /\ \A k \in 1..n : f[k] = next[f[k - 1]]

\* However far a function is iterated, there is a function of its values.
LEMMA IterationExists ==
  ASSUME NEW x, NEW next, NEW n \in Nat
  PROVE  \E f : Follows(f, x, next, n)
<1> SUFFICES ASSUME ~\E f : Follows(f, x, next, n)
             PROVE  FALSE
  OBVIOUS
<1> DEFINE Bad == {k \in Nat : ~\E f : Follows(f, x, next, k)}
<1>1. 0 \notin Bad
  <2> DEFINE f == [k \in {0} |-> x]
  <2>1. DOMAIN f = 0..0 /\ f[0] = x /\ 1..0 = {}
    OBVIOUS
  <2> HIDE DEF f
  <2>2. Follows(f, x, next, 0)
    BY <2>1 DEF Follows
  <2> QED BY <2>2
<1>2. PICK k \in Bad : k > 0 /\ k - 1 \in Nat /\ k - 1 \notin Bad
  <2>1. n \in Bad /\ Bad \in SUBSET Nat
    OBVIOUS
  <2> HIDE DEF Bad
  <2> QED BY <1>1, <2>1, FirstOf
<1>3. PICK g : Follows(g, x, next, k - 1)
  BY <1>2
<1> DEFINE f == [i \in 0..k |-> IF i < k THEN g[i] ELSE next[g[k - 1]]]
<1>4. k \in Nat
  OBVIOUS
<1>5. DOMAIN f = 0..k /\ f[0] = x
  BY <1>2, <1>3, <1>4 DEF Follows
<1>6. ASSUME NEW i \in 1..k
      PROVE  f[i] = next[f[i - 1]]
  <2>1. CASE i = k
    <3>1. f[i] = next[g[k - 1]] /\ f[i - 1] = g[i - 1]
      BY <1>2, <1>4, <2>1
    <3> QED BY <2>1, <3>1
  <2>2. CASE i # k
    <3>1. i \in 1..k - 1 /\ i - 1 \in 0..k /\ i \in 0..k /\ i < k /\ i - 1 < k
      BY <1>4, <2>2
    <3>2. f[i] = g[i] /\ f[i - 1] = g[i - 1]
      BY <3>1
    <3> QED BY <1>3, <3>1, <3>2 DEF Follows
  <2> QED BY <2>1, <2>2
<1> HIDE DEF f
<1>7. Follows(f, x, next, k)
  BY <1>5, <1>6 DEF Follows
<1> QED BY <1>2, <1>7

\* The walk is the one that Predecessor defines.
LEMMA WalkIs ==
  ASSUME NEW v, Cardinality(reviews) \in Nat, TypeOK, v \in reviews
  PROVE  /\ Walk(v)[0] = v.uid
         /\ \A k \in 1..Cardinality(reviews) : Walk(v)[k] = Predecessor(Walk(v)[k - 1])
<1> DEFINE N == Cardinality(reviews)
           U == ReviewUids \cup {None}
           next == [u \in U |-> Predecessor(u)]
           Def(f) == f = [n \in 0..N |-> IF n = 0 THEN v.uid ELSE Predecessor(f[n - 1])]
<1>1. \A u \in U : Predecessor(u) \in U
  <2> TAKE u \in U
  <2>1. \A w \in reviews : w.supersedes \in U
    BY DEF TypeOK, ReviewNode
  <2> QED BY <2>1 DEF Predecessor
<1>2. PICK f : Follows(f, v.uid, next, N)
  <2> HIDE DEF next, N
  <2> QED BY IterationExists DEF N
<1>3. v.uid \in U
  BY DEF TypeOK, ReviewNode
<1>4. \A k \in 0..N : f[k] \in U
  <2> SUFFICES ASSUME NEW n \in 0..N, f[n] \notin U
               PROVE  FALSE
    OBVIOUS
  <2> DEFINE Out == {k \in 0..N : f[k] \notin U}
  <2>1. 0 \notin Out /\ n \in Out /\ Out \in SUBSET Nat
    BY <1>2, <1>3 DEF Follows
  <2> HIDE DEF Out
  <2>2. PICK k \in Out : k > 0 /\ k - 1 \in Nat /\ k - 1 \notin Out
    BY <2>1, FirstOf
  <2>3. k \in 1..N /\ k - 1 \in 0..N /\ f[k] \notin U
    BY <2>2 DEF Out
  <2>4. f[k] = next[f[k - 1]] /\ f[k - 1] \in U
    BY <1>2, <2>2, <2>3 DEF Follows, Out
  <2> QED BY <1>1, <2>3, <2>4
<1>5. \E g : Def(g)
  <2> DEFINE g == [n \in 0..N |-> f[n]]
  <2>1. g[0] = v.uid
    BY <1>2 DEF Follows
  <2>2. \A n \in 1..N : g[n] = Predecessor(g[n - 1])
    <3> TAKE n \in 1..N
    <3>1. n \in 0..N /\ n - 1 \in 0..N
      OBVIOUS
    <3>2. f[n] = next[f[n - 1]]
      BY <1>2 DEF Follows
    <3>3. f[n - 1] \in U
      BY <1>4, <3>1
    <3>4. next[f[n - 1]] = Predecessor(f[n - 1])
      BY <3>3
    <3> QED BY <3>1, <3>2, <3>4
  <2>3. \A n \in 0..N : g[n] = IF n = 0 THEN v.uid ELSE Predecessor(g[n - 1])
    BY <2>1, <2>2
  <2>4. g = [n \in 0..N |-> g[n]]
    OBVIOUS
  <2> HIDE DEF g
  <2>5. Def(g)
    BY <2>3, <2>4
  <2> QED BY <2>5
<1>6. Walk(v) = CHOOSE g : Def(g)
  BY DEF Walk
<1>7. Def(Walk(v))
  BY <1>5, <1>6
<1> QED BY <1>7


\* A walk that comes back has been around a cycle.
LEMMA ComesBackInACycle ==
  ASSUME TypeOK, Cardinality(reviews) \in Nat, NEW v \in reviews, ComesBack(v)
  PROVE  ~NoCycles
<1> DEFINE N == Cardinality(reviews)
           at == Walk(v)
<1>1. PICK m \in 0..N, n \in 0..N : m < n /\ at[m] = at[n] /\ at[n] # None
  BY DEF ComesBack
<1>2. \A k \in 1..N : at[k] = Predecessor(at[k - 1])
  BY WalkIs
<1>3. \A u : Predecessor(u) # None => \E w \in reviews : w.uid = u /\ w.supersedes = Predecessor(u)
  <2> TAKE u
  <2> HAVE Predecessor(u) # None
  <2>1. \E w \in reviews : w.uid = u
    BY DEF Predecessor
  <2>2. Predecessor(u) = (CHOOSE w \in reviews : w.uid = u).supersedes
    BY <2>1 DEF Predecessor
  <2> QED BY <2>1, <2>2
<1>4. Predecessor(None) = None
  BY NoneIsNoUid DEF Predecessor, TypeOK, ReviewNode
<1> HIDE DEF N, at
<1>5. N \in Nat
  BY DEF N
<1>6. \A k \in 0..n : at[k] # None
  <2> SUFFICES ASSUME NEW k \in 0..n, at[k] = None
               PROVE  FALSE
    OBVIOUS
  <2> DEFINE Later == {i \in Nat : i + k <= n /\ at[i + k] # None}
  <2>1. n - k \in Later /\ 0 \notin Later /\ Later \in SUBSET Nat
    <3>1. n - k \in Nat /\ (n - k) + k = n /\ 0 + k = k
      BY <1>1, <1>5
    <3> QED BY <1>1, <3>1
  <2> HIDE DEF Later
  <2>2. PICK i \in Later : i > 0 /\ i - 1 \in Nat /\ i - 1 \notin Later
    BY <2>1, FirstOf
  <2>3. i \in Nat /\ i + k <= n /\ at[i + k] # None
    BY DEF Later
  <2>4. (i - 1) + k <= n /\ i + k \in 1..N /\ (i + k) - 1 = (i - 1) + k
    BY <1>1, <1>5, <2>2, <2>3
  <2>5. at[(i - 1) + k] = None
    BY <2>2, <2>4 DEF Later
  <2> QED BY <1>2, <1>4, <2>3, <2>4, <2>5
<1>7. \A k \in 0..n - 1 : \E w \in reviews : w.uid = at[k] /\ w.supersedes = at[k + 1]
  <2> TAKE k \in 0..n - 1
  <2>1. k + 1 \in 1..N /\ k + 1 \in 0..n /\ (k + 1) - 1 = k
    BY <1>1, <1>5
  <2>2. at[k + 1] = Predecessor(at[k]) /\ at[k + 1] # None
    BY <1>2, <1>6, <2>1
  <2> QED BY <1>3, <2>2
<1> DEFINE S == {w \in reviews : \E k \in m..n - 1 : w.uid = at[k]}
<1>8. S \in SUBSET reviews /\ S # {}
  <2>1. m \in 0..n - 1 /\ m \in m..n - 1
    BY <1>1, <1>5
  <2>2. PICK w \in reviews : w.uid = at[m]
    BY <1>7, <2>1
  <2>3. w \in S
    BY <2>1, <2>2
  <2> QED BY <2>3
<1>9. ASSUME NEW x \in S
      PROVE  \E w \in S : w.supersedes = x.uid
  <2>1. PICK k \in m..n - 1 : x.uid = at[k]
    OBVIOUS
  <2>2. CASE k = m
    <3>1. n - 1 \in 0..n - 1 /\ n - 1 \in m..n - 1 /\ (n - 1) + 1 = n
      BY <1>1, <1>5
    <3>2. PICK w \in reviews : w.uid = at[n - 1] /\ w.supersedes = at[n]
      BY <1>7, <3>1
    <3> QED BY <1>1, <2>1, <2>2, <3>1, <3>2
  <2>3. CASE k # m
    <3>1. k - 1 \in 0..n - 1 /\ k - 1 \in m..n - 1 /\ (k - 1) + 1 = k
      BY <1>1, <1>5, <2>3
    <3>2. PICK w \in reviews : w.uid = at[k - 1] /\ w.supersedes = at[k]
      BY <1>7, <3>1
    <3> QED BY <2>1, <3>1, <3>2
  <2> QED BY <2>2, <2>3
<1> HIDE DEF S
<1> QED BY <1>8, <1>9 DEF NoCycles

\* Of reviews that supersede one another all around, each supersedes one of them: there
\* are no more superseded reviews than superseding ones.
LEMMA ClosedForwards ==
  ASSUME TypeOK, NEW S, IsFiniteSet(S), S \subseteq reviews,
         \A x \in S : \E w \in S : w.supersedes = x.uid
  PROVE  \A w \in S : \E x \in S : w.supersedes = x.uid
<1> DEFINE T == {w \in S : \E x \in S : w.supersedes = x.uid}
           f == [w \in T |-> CHOOSE x \in S : w.supersedes = x.uid]
<1>1. IsFiniteSet(T) /\ Cardinality(T) <= Cardinality(S)
      /\ (Cardinality(S) = Cardinality(T) => S = T)
  <2>1. T \in SUBSET S
    OBVIOUS
  <2> HIDE DEF T
  <2> QED BY <2>1, FS_Subset
<1>2. f \in Surjection(T, S)
  <2>1. \A w \in T : f[w] \in S /\ w.supersedes = f[w].uid
    OBVIOUS
  <2>2. \A x \in S : \E w \in T : f[w] = x
    <3> TAKE x \in S
    <3>1. PICK w \in S : w.supersedes = x.uid
      OBVIOUS
    <3>2. w \in T
      BY <3>1
    <3>3. f[w] \in S /\ f[w].uid = x.uid
      BY <2>1, <3>1, <3>2
    <3> QED BY <3>2, <3>3 DEF TypeOK
  <2>3. f \in [T -> S]
    BY <2>1
  <2> HIDE DEF f, T
  <2> QED BY <2>2, <2>3 DEF Surjection
<1> HIDE DEF f, T
<1>3. Cardinality(S) <= Cardinality(T)
  BY <1>1, <1>2, FS_Surjection
<1>4. Cardinality(S) \in Nat /\ Cardinality(T) \in Nat
  BY <1>1, FS_CardinalityType
<1>5. S = T
  BY <1>1, <1>3, <1>4
<1> QED BY <1>5 DEF T

\* From a review of a cycle on, the walk stays in the cycle until it comes back.
LEMMA CycleIsWalked ==
  ASSUME TypeOK, IsFiniteSet(reviews), ~NoCycles
  PROVE  \E v \in reviews : ComesBack(v)
<1>1. PICK S \in SUBSET reviews : S # {} /\ \A x \in S : \E w \in S : w.supersedes = x.uid
  BY DEF NoCycles
<1>2. IsFiniteSet(S) /\ Cardinality(S) <= Cardinality(reviews)
      /\ Cardinality(S) \in Nat /\ Cardinality(reviews) \in Nat
  BY FS_Subset, FS_CardinalityType
<1>3. \A w \in S : \E x \in S : w.supersedes = x.uid
  BY <1>1, <1>2, ClosedForwards
<1>4. PICK v \in S : TRUE
  BY <1>1
<1> DEFINE N == Cardinality(reviews)
           at == Walk(v)
<1>5. at[0] = v.uid /\ \A k \in 1..N : at[k] = Predecessor(at[k - 1])
  BY <1>2, WalkIs
<1> HIDE DEF N, at
<1>6. \A k \in 0..N : \E w \in S : w.uid = at[k]
  <2> SUFFICES ASSUME NEW n \in 0..N, ~\E w \in S : w.uid = at[n]
               PROVE  FALSE
    OBVIOUS
  <2> DEFINE Left == {k \in 0..N : ~\E w \in S : w.uid = at[k]}
  <2>1. n \in Left /\ 0 \notin Left /\ Left \in SUBSET Nat
    BY <1>5
  <2> HIDE DEF Left
  <2>2. PICK k \in Left : k > 0 /\ k - 1 \in Nat /\ k - 1 \notin Left
    BY <2>1, FirstOf
  <2>3. k \in 1..N /\ k - 1 \in 0..N /\ ~\E w \in S : w.uid = at[k]
    BY <1>2, <2>2 DEF Left, N
  <2>4. PICK w \in S : w.uid = at[k - 1]
    BY <2>2, <2>3 DEF Left
  <2>5. Predecessor(w.uid) = w.supersedes
    BY DEF Predecessor, TypeOK
  <2> QED BY <1>3, <1>5, <2>3, <2>4, <2>5
<1> DEFINE g == [k \in 0..N |-> CHOOSE w \in S : w.uid = at[k]]
<1>7. g \in [0..N -> S] /\ \A k \in 0..N : g[k].uid = at[k]
  BY <1>6
<1>8. IsFiniteSet(0..N) /\ Cardinality(S) < Cardinality(0..N)
  <2>1. N \in Nat /\ Cardinality(S) <= N
    BY <1>2 DEF N
  <2>2. IsFiniteSet(0..N) /\ Cardinality(0..N) = N + 1
    BY <2>1, FS_Interval
  <2> QED BY <1>2, <2>1, <2>2
<1> HIDE DEF g
<1>9. PICK i, k \in 0..N : i # k /\ g[i] = g[k]
  <2> DEFINE D == 0..N
  <2>1. g \in [D -> S] /\ IsFiniteSet(D) /\ IsFiniteSet(S) /\ Cardinality(S) < Cardinality(D)
    BY <1>2, <1>7, <1>8
  <2> HIDE DEF D
  <2>2. \E i, k \in D : i # k /\ g[i] = g[k]
    BY <2>1, FS_PigeonHole
  <2> QED BY <2>2 DEF D
<1>10. at[i] = at[k] /\ at[i] # None
  <2>1. g[k].uid \in ReviewUids
    BY <1>7 DEF TypeOK, ReviewNode
  <2> QED BY <1>7, <1>9, <2>1, NoneIsNoUid
<1>11. ComesBack(v)
  <2>1. i < k \/ k < i
    BY <1>2, <1>9 DEF N
  <2> QED BY <1>10, <2>1 DEF ComesBack, N, at
<1> QED BY <1>11

\* Records are committed one at a time: there are only finitely many.
LEMMA FinitelyManyReviews == ReviewSpec => []IsFiniteSet(reviews)
<1>1. ReviewInit => IsFiniteSet(reviews)
  BY FS_EmptySet DEF ReviewInit
<1>2. IsFiniteSet(reviews) /\ [ReviewNext]_reviewVars => IsFiniteSet(reviews)'
  <2> SUFFICES ASSUME IsFiniteSet(reviews), [ReviewNext]_reviewVars
               PROVE  IsFiniteSet(reviews')
    OBVIOUS
  <2>1. ASSUME NEW v \in ReviewNode, RecordReview(v)
        PROVE  IsFiniteSet(reviews')
    BY <2>1, FS_AddElement DEF RecordReview
  <2>2. ASSUME NEW v \in reviews, WithdrawReview(v)
        PROVE  IsFiniteSet(reviews')
    BY <2>2, FS_RemoveElement DEF WithdrawReview
  <2>3. CASE UNCHANGED reviews
    BY <2>3
  <2> QED BY <2>1, <2>2, <2>3 DEF ReviewNext, reviewVars, EditContent, DeleteTarget, ToggleClaim
<1> QED BY <1>1, <1>2, PTL DEF ReviewSpec

\* The walk of reject_cycles (supersession.rs) comes back from some review exactly when
\* the records are not acyclic, for any number of reviews and however they supersede
\* one another.
THEOREM WalkIsComplete == ReviewSpec => []WalkFindsTheCycles
<1>1. TypeOK /\ IsFiniteSet(reviews) => WalkFindsTheCycles
  BY ComesBackInACycle, CycleIsWalked, FS_CardinalityType DEF WalkFindsTheCycles
<1> QED BY <1>1, TypeCorrect, FinitelyManyReviews, PTL

-----------------------------------------------------------------------------
(* The proposal store.                                                     *)

Busies == {a \in Agents : agent[a] # Idle}

AgentStates == {Idle} \cup {Busy(pc, u, x) : pc \in {"write", "return"},
                                               u \in ProposalUids, x \in Actions}

\* What may be in the file of an agent that is at pc.
Extent(pc) == IF pc = "write" THEN {"empty", "required"} ELSE {"whole"}

StoreInv ==
    /\ agent \in [Agents -> AgentStates]
    /\ DOMAIN files = ProposalUids
    /\ outcomes \subseteq ProposalUids \X Actions
    /\ \A u \in ProposalUids : files[u] = NoFile \/ \E e \in Extents, x \in Actions : files[u] = File(e, x)
    /\ \A a \in Busies : \E e \in Extent(agent[a].pc) : files[agent[a].uid] = File(e, agent[a].action)
    /\ \A a, b \in Busies : agent[a].uid = agent[b].uid => a = b
    /\ ReturnedIsDurable

\* Files of different extents differ, and no file equals the missing one.
LEMMA ExtentsDiffer ==
  /\ \A x, y : File("whole", x) # File("empty", y) /\ File("whole", x) # File("required", y)
  /\ \A e \in Extents : \A x : File(e, x) # NoFile /\ File(e, x).extent = e
<1>1. \A e, x : File(e, x).extent = e
  BY DEF File
<1>2. NoFile.extent = "none"
  BY DEF NoFile
<1>3. QED
  BY <1>1, <1>2 DEF Extents

\* An agent that is not idle is in append_blocking, with a uid and an action.
LEMMA BusyIsWriting ==
  ASSUME StoreInv, NEW a \in Agents, agent[a] # Idle
  PROVE  /\ a \in Busies
         /\ agent[a].pc \in {"write", "return"}
         /\ agent[a].uid \in ProposalUids
         /\ agent[a].action \in Actions
         /\ agent[a] = Busy(agent[a].pc, agent[a].uid, agent[a].action)
  BY DEF StoreInv, AgentStates, Busies, Busy, Idle

\* An empty proposal root and idle agents satisfy the invariant.
LEMMA StoreInvInit == StoreInit => StoreInv
BY DEF StoreInit, StoreInv, AgentStates, Busies, ReturnedIsDurable

\* What an agent's step does to the store: it disturbs the file of that agent only,
\* and no file that is whole; a new outcome is of a whole file.
StoreStep(a, u) ==
    /\ u \in ProposalUids
    /\ DOMAIN files' = ProposalUids
    /\ \A w \in ProposalUids \ {u} : files'[w] = files[w]
    /\ files'[u] = NoFile \/ \E e \in Extents, x \in Actions : files'[u] = File(e, x)
    /\ \A x : files[u] = File("whole", x) => files'[u] = files[u]
    /\ \A b \in Busies \ {a} : agent[b].uid = u => files'[u] = files[u]
    /\ agent' \in [Agents -> AgentStates] /\ \A b \in Agents \ {a} : agent'[b] = agent[b]
    /\ agent'[a] # Idle =>
        /\ agent'[a].uid = u /\ \A b \in Busies \ {a} : agent[b].uid # u
        /\ \E e \in Extent(agent'[a].pc) : files'[u] = File(e, agent'[a].action)
    /\ \A o \in outcomes' : o \in outcomes \/ (o \in ProposalUids \X Actions /\ files'[o[1]] = File("whole", o[2]))

\* Such a step keeps the invariant.
LEMMA StoreStepKeepsInv ==
  ASSUME StoreInv, NEW a \in Agents, NEW u, StoreStep(a, u)
  PROVE  StoreInv'
<1> USE DEF StoreInv, StoreStep
<1>1. \A w \in ProposalUids :
        files'[w] = NoFile \/ \E e \in Extents, x \in Actions : files'[w] = File(e, x)
  OBVIOUS
<1>2. outcomes' \subseteq ProposalUids \X Actions
  OBVIOUS
<1>3. ReturnedIsDurable'
  <2>1. \A o \in outcomes : files'[o[1]] = File("whole", o[2])
    BY DEF ReturnedIsDurable
  <2>2. QED
    BY <2>1 DEF ReturnedIsDurable
<1>4. \A b \in Busies' : b = a \/ (b \in Busies /\ agent'[b] = agent[b])
  BY DEF Busies
<1>5. ASSUME NEW b \in Busies', b # a
      PROVE  files'[agent[b].uid] = files[agent[b].uid]
  <2>1. b \in Busies /\ agent[b].uid \in ProposalUids
    BY <1>4, <1>5, BusyIsWriting DEF Busies
  <2>2. QED
    BY <1>5, <2>1
<1>6. ASSUME NEW b \in Busies'
      PROVE  \E e \in Extent(agent'[b].pc) : files'[agent'[b].uid] = File(e, agent'[b].action)
  <2>1. CASE b = a
    BY <2>1 DEF Busies
  <2>2. CASE b # a
    BY <1>4, <1>5, <2>2
  <2>3. QED
    BY <2>1, <2>2
<1>7. ASSUME NEW b \in Busies', NEW c \in Busies', agent'[b].uid = agent'[c].uid
      PROVE  b = c
  <2>1. CASE b # a /\ c # a
    BY <1>4, <1>7, <2>1
  <2>2. CASE b = a /\ c # a
    BY <1>4, <1>7, <2>2 DEF Busies
  <2>3. CASE b # a /\ c = a
    BY <1>4, <1>7, <2>3 DEF Busies
  <2>4. QED
    BY <2>1, <2>2, <2>3
<1> HIDE DEF StoreStep
<1>8. QED
  BY <1>1, <1>2, <1>3, <1>6, <1>7 DEF StoreStep, Extent, Extents, File, NoFile

\* A step that opens a file, or takes one that is being written further.
LEMMA OpeningSteps ==
  ASSUME StoreInv, NEW a \in Agents, NEW uid \in ProposalUids, NEW action \in Actions,
         OpenProposal(a, uid, action)
  PROVE  StoreStep(a, uid)
<1>1. /\ files' = [files EXCEPT ![uid] = File("empty", action)]
      /\ agent' = [agent EXCEPT ![a] = Busy("write", uid, action)]
      /\ outcomes' = outcomes /\ files[uid] = NoFile
  BY DEF OpenProposal
<1>2. \A b \in Busies : agent[b].uid # uid
  <2>1. \A b \in Busies : \E e \in Extents : files[agent[b].uid] = File(e, agent[b].action)
    BY DEF StoreInv, Extent, Extents
  <2>2. QED
    BY <1>1, <2>1, ExtentsDiffer
<1>3. Busy("write", uid, action) \in AgentStates /\ Busy("write", uid, action) # Idle
  BY DEF AgentStates, Busy, Idle
<1>4. agent' \in [Agents -> AgentStates] /\ agent'[a] = Busy("write", uid, action)
      /\ \A b \in Agents \ {a} : agent'[b] = agent[b]
  BY <1>1, <1>3 DEF StoreInv
<1>5. /\ DOMAIN files' = ProposalUids /\ files'[uid] = File("empty", action)
      /\ \A w \in ProposalUids \ {uid} : files'[w] = files[w]
  BY <1>1 DEF StoreInv
<1>6. \A x : files[uid] # File("whole", x)
  BY <1>1, ExtentsDiffer DEF Extents
<1>7. agent'[a].pc = "write" /\ agent'[a].uid = uid /\ agent'[a].action = action
  BY <1>4 DEF Busy
<1>8. "empty" \in Extents /\ "empty" \in Extent("write")
  BY DEF Extents, Extent
<1>9. QED
  BY <1>1, <1>2, <1>4, <1>5, <1>6, <1>7, <1>8 DEF StoreStep

\* The steps of an agent in append_blocking.
LEMMA WritingSteps ==
  ASSUME StoreInv, NEW a \in Agents,
         WriteSome(a) \/ WriteRest(a) \/ Return(a) \/ WriteFails(a) \/ Crash(a)
  PROVE  StoreStep(a, agent[a].uid)
<1> DEFINE u == agent[a].uid
           x == agent[a].action
<1>1. a \in Busies /\ u \in ProposalUids /\ x \in Actions /\ agent[a] = Busy(agent[a].pc, u, x)
  BY BusyIsWriting DEF WriteSome, WriteRest, Return, WriteFails, Crash, Idle
<1>2. PICK e \in Extent(agent[a].pc) : files[u] = File(e, x)
  BY <1>1 DEF StoreInv
<1>3. /\ \A b \in Busies \ {a} : agent[b].uid # u
      /\ DOMAIN files = ProposalUids /\ agent \in [Agents -> AgentStates]
      /\ e \in Extents /\ Idle \in AgentStates
      /\ \A o \in outcomes : o \in ProposalUids \X Actions /\ files[o[1]] = File("whole", o[2])
  BY <1>1 DEF StoreInv, AgentStates, Extent, Extents, ReturnedIsDurable
<1>4. CASE WriteSome(a)
  <2>1. agent' = agent /\ outcomes' = outcomes /\ agent[a].pc = "write"
        /\ files[u].extent = "empty" /\ files' = [files EXCEPT ![u].extent = "required"]
    BY <1>4 DEF WriteSome
  <2>2. files' = [files EXCEPT ![u] = File("required", x)]
    <3>1. [files[u] EXCEPT !.extent = "required"] = File("required", x)
      BY <1>1, <1>2, <1>3, <2>1 DEF File
    <3>2. files' = [files EXCEPT ![u] = [files[u] EXCEPT !.extent = "required"]]
      BY <2>1
    <3>3. QED
      BY <3>1, <3>2
  <2>3. files'[u] = File("required", x) /\ \A w \in ProposalUids \ {u} : files'[w] = files[w]
    BY <1>1, <1>3, <2>2
  <2>4. \A y : files[u] # File("whole", y)
    BY <2>1 DEF File
  <2>5. "required" \in Extents /\ "required" \in Extent("write")
    BY DEF Extents, Extent
  <2>6. QED
    BY <1>1, <1>3, <2>1, <2>2, <2>3, <2>4, <2>5 DEF StoreStep
<1>5. CASE WriteRest(a)
  <2>1. agent' = [agent EXCEPT ![a].pc = "return"] /\ outcomes' = outcomes /\ agent[a].pc = "write"
        /\ files' = [files EXCEPT ![u].extent = "whole"]
    BY <1>5 DEF WriteRest
  <2>2. files' = [files EXCEPT ![u] = File("whole", x)]
    <3>1. [files[u] EXCEPT !.extent = "whole"] = File("whole", x)
      BY <1>1, <1>2, <1>3, <2>1 DEF File
    <3>2. files' = [files EXCEPT ![u] = [files[u] EXCEPT !.extent = "whole"]]
      BY <2>1
    <3>3. QED
      BY <3>1, <3>2
  <2>3. files'[u] = File("whole", x) /\ \A w \in ProposalUids \ {u} : files'[w] = files[w]
    BY <1>1, <1>3, <2>2
  <2>4. \A y : files[u] # File("whole", y)
    BY <1>2, <2>1 DEF File, Extent
  <2>5. "whole" \in Extents /\ "whole" \in Extent("return")
    BY DEF Extents, Extent
  <2>6. agent' = [agent EXCEPT ![a] = Busy("return", u, x)]
    <3>1. [agent[a] EXCEPT !.pc = "return"] = Busy("return", u, x)
      BY <1>1 DEF Busy
    <3>2. agent' = [agent EXCEPT ![a] = [agent[a] EXCEPT !.pc = "return"]]
      BY <2>1
    <3>3. QED
      BY <3>1, <3>2
  <2>7. Busy("return", u, x) \in AgentStates
    BY <1>1 DEF AgentStates
  <2>8. agent'[a].pc = "return" /\ agent'[a].uid = u /\ agent'[a].action = x
        /\ agent' \in [Agents -> AgentStates] /\ \A b \in Agents \ {a} : agent'[b] = agent[b]
    BY <1>3, <2>6, <2>7 DEF Busy
  <2>9. QED
    BY <1>1, <1>3, <2>1, <2>2, <2>3, <2>4, <2>5, <2>8 DEF StoreStep
<1>6. CASE Return(a)
  <2>1. /\ agent' = [agent EXCEPT ![a] = Idle] /\ files' = files /\ agent[a].pc = "return"
        /\ outcomes' = outcomes \cup {<<u, x>>}
    BY <1>6 DEF Return
  <2>2. files[u] = File("whole", x)
    BY <1>2, <2>1 DEF Extent
  <2>3. \A o \in outcomes' : o \in outcomes \/ (o \in ProposalUids \X Actions /\ files'[o[1]] = File("whole", o[2]))
    BY <1>1, <2>1, <2>2
  <2>4. agent' \in [Agents -> AgentStates] /\ agent'[a] = Idle
        /\ \A b \in Agents \ {a} : agent'[b] = agent[b]
    BY <1>3, <2>1
  <2>5. QED
    BY <1>1, <1>2, <1>3, <2>1, <2>3, <2>4 DEF StoreStep
<1>7. CASE WriteFails(a)
  <2>1. /\ agent' = [agent EXCEPT ![a] = Idle] /\ outcomes' = outcomes /\ agent[a].pc = "write"
        /\ files' = [files EXCEPT ![u] = NoFile] \/ files' = files
    BY <1>7 DEF WriteFails
  <2>2. \A y : files[u] # File("whole", y)
    BY <1>2, <2>1 DEF File, Extent
  <2>3. QED
    BY <1>1, <1>2, <1>3, <2>1, <2>2 DEF StoreStep
<1>8. CASE Crash(a)
  <2>1. agent' = [agent EXCEPT ![a] = Idle] /\ outcomes' = outcomes /\ files' = files
    BY <1>8 DEF Crash
  <2>2. QED
    BY <1>1, <1>2, <1>3, <2>1 DEF StoreStep
<1>9. QED
  BY <1>4, <1>5, <1>6, <1>7, <1>8

\* One agent's step keeps the invariant.
LEMMA AgentStepKeeps ==
  ASSUME StoreInv, NEW a \in Agents, AgentStep(a)
  PROVE  StoreInv'
<1>1. CASE LoadGraph(a)
  BY <1>1 DEF LoadGraph, StoreInv, Busies, ReturnedIsDurable
<1>2. CASE \E uid \in ProposalUids, action \in Actions : OpenProposal(a, uid, action)
  BY <1>2, OpeningSteps, StoreStepKeepsInv
<1>3. CASE WriteSome(a) \/ WriteRest(a) \/ Return(a) \/ WriteFails(a) \/ Crash(a)
  BY <1>3, WritingSteps, StoreStepKeepsInv
<1>4. QED
  BY <1>1, <1>2, <1>3 DEF AgentStep

\* Edits of the corpus leave the store alone; the rest are steps of one agent.
LEMMA StoreStepKeeps == StoreInv /\ [StoreNext]_allVars => StoreInv'
<1> SUFFICES ASSUME StoreInv, [StoreNext]_allVars
             PROVE  StoreInv'
  OBVIOUS
<1>1. CASE UNCHANGED storeVars
  BY <1>1 DEF storeVars, StoreInv, Busies, ReturnedIsDurable
<1>2. ASSUME NEW a \in Agents, AgentStep(a)
      PROVE  StoreInv'
  BY <1>2, AgentStepKeeps
<1>3. CASE UNCHANGED allVars
  BY <1>1, <1>3 DEF allVars, storeVars
<1>4. QED
  BY <1>1, <1>2, <1>3 DEF StoreNext

\* An acknowledged proposal stays on disk, whole and unchanged, whatever the
\* other agents, failures and crashes do (write_exclusive_blocking).
THEOREM AcknowledgedIsDurable == StoreSpec => []ReturnedIsDurable
<1>1. StoreInv => ReturnedIsDurable
  BY DEF StoreInv
<1>2. QED
  BY <1>1, StoreInvInit, StoreStepKeeps, PTL DEF StoreSpec

-----------------------------------------------------------------------------

\* What a file looks like to readers: its register.
LEMMA RegisterOf ==
  /\ Register(NoFile) = Promise!Free
  /\ \A x : /\ Register(File("whole", x)) = Promise!Final(x)
           /\ Register(File("empty", x)) = Promise!Draft(x)
           /\ Register(File("required", x)) = Promise!Draft(x)
BY ExtentsDiffer DEF Register, ReadsWhole, File, Extents, Promise!Free, Promise!Final, Promise!Draft

Registers == [u \in ProposalUids |-> Register(files[u])]

\* A change of one file is a change of its register.
LEMMA RegistersFollow ==
  ASSUME NEW u \in ProposalUids, NEW f, DOMAIN files = ProposalUids, files' = [files EXCEPT ![u] = f]
  PROVE  Registers' = [Registers EXCEPT ![u] = Register(f)]
<1>1. \A w \in ProposalUids : Register(files[w])' = IF w = u THEN Register(f) ELSE Register(files[w])
  BY DEF Register, ReadsWhole
<1>2. QED
  BY <1>1 DEF Registers

\* A step claims a register, withdraws or completes a draft, acknowledges what is
\* final, or is not seen at all.
LEMMA AgentStepRefines ==
  ASSUME StoreInv, NEW a \in Agents, AgentStep(a)
  PROVE  Promise!Next \/ (Registers' = Registers /\ outcomes' = outcomes)
<1> DEFINE u == agent[a].uid
           x == agent[a].action
<1>1. files' = files => Registers' = Registers
  BY DEF Registers, Register, ReadsWhole
<1>2. DOMAIN files = ProposalUids
  BY DEF StoreInv
<1>3. ASSUME NEW uid \in ProposalUids, NEW action \in Actions, OpenProposal(a, uid, action)
      PROVE  Promise!Claim(uid, action)
  <2>1. /\ files[uid] = NoFile /\ outcomes' = outcomes
        /\ files' = [files EXCEPT ![uid] = File("empty", action)]
    BY <1>3 DEF OpenProposal
  <2>2. Registers' = [Registers EXCEPT ![uid] = Promise!Draft(action)]
    <3>1. Registers' = [Registers EXCEPT ![uid] = Register(File("empty", action))]
      BY <1>2, <2>1, RegistersFollow
    <3>2. QED
      BY <3>1, RegisterOf
  <2>3. Registers[uid] = Promise!Free
    BY <2>1, RegisterOf DEF Registers
  <2>4. QED
    BY <2>1, <2>2, <2>3 DEF Promise!Claim, Registers
<1>4. ASSUME WriteSome(a) \/ WriteRest(a) \/ Return(a) \/ WriteFails(a)
      PROVE  /\ a \in Busies /\ u \in ProposalUids /\ x \in Actions
             /\ \E e \in Extent(agent[a].pc) : files[u] = File(e, x)
  BY <1>4, BusyIsWriting DEF StoreInv, WriteSome, WriteRest, Return, WriteFails, Idle
<1>5. ASSUME agent[a].pc = "write", WriteSome(a) \/ WriteRest(a) \/ WriteFails(a)
      PROVE  Registers[u] = Promise!Draft(x)
  BY <1>4, <1>5, RegisterOf DEF Extent, Registers
<1>6. CASE WriteSome(a)
  <2>1. /\ agent[a].pc = "write" /\ outcomes' = outcomes
        /\ files' = [files EXCEPT ![u].extent = "required"]
    BY <1>6 DEF WriteSome
  <2>2. files' = [files EXCEPT ![u] = File("required", x)]
    <3>1. PICK e \in Extent(agent[a].pc) : files[u] = File(e, x)
      BY <1>4, <1>6
    <3>2. [files[u] EXCEPT !.extent = "required"] = File("required", x)
      BY <3>1 DEF File
    <3>3. files' = [files EXCEPT ![u] = [files[u] EXCEPT !.extent = "required"]]
      BY <2>1
    <3>4. QED
      BY <3>2, <3>3
  <2>3. Registers' = [Registers EXCEPT ![u] = Promise!Draft(x)]
    <3>1. Registers' = [Registers EXCEPT ![u] = Register(File("required", x))]
      BY <1>2, <1>4, <1>6, <2>2, RegistersFollow
    <3>2. QED
      BY <3>1, RegisterOf
  <2>4. Registers' = Registers
    BY <1>4, <1>5, <1>6, <2>1, <2>3 DEF Registers
  <2>5. QED
    BY <2>1, <2>4
<1>7. CASE WriteRest(a)
  <2>1. /\ agent[a].pc = "write" /\ outcomes' = outcomes
        /\ files' = [files EXCEPT ![u].extent = "whole"]
    BY <1>7 DEF WriteRest
  <2>2. files' = [files EXCEPT ![u] = File("whole", x)]
    <3>1. PICK e \in Extent(agent[a].pc) : files[u] = File(e, x)
      BY <1>4, <1>7
    <3>2. [files[u] EXCEPT !.extent = "whole"] = File("whole", x)
      BY <3>1 DEF File
    <3>3. files' = [files EXCEPT ![u] = [files[u] EXCEPT !.extent = "whole"]]
      BY <2>1
    <3>4. QED
      BY <3>2, <3>3
  <2>3. Registers' = [Registers EXCEPT ![u] = Promise!Final(x)]
    <3>1. Registers' = [Registers EXCEPT ![u] = Register(File("whole", x))]
      BY <1>2, <1>4, <1>7, <2>2, RegistersFollow
    <3>2. QED
      BY <3>1, RegisterOf
  <2>4. Promise!Complete(u, x)
    BY <1>5, <1>7, <2>1, <2>3 DEF Promise!Complete, Registers
  <2>5. QED
    BY <1>4, <1>7, <2>4 DEF Promise!Next
<1>8. CASE Return(a)
  <2>1. agent[a].pc = "return" /\ files' = files /\ outcomes' = outcomes \cup {<<u, x>>}
    BY <1>8 DEF Return
  <2>2. Registers[u] = Promise!Final(x)
    BY <1>4, <1>8, <2>1, RegisterOf DEF Extent, Registers
  <2>3. Promise!Acknowledge(u, x)
    BY <1>1, <2>1, <2>2 DEF Promise!Acknowledge, Registers
  <2>4. QED
    BY <1>4, <1>8, <2>3 DEF Promise!Next
<1>9. CASE WriteFails(a)
  <2>1. /\ agent[a].pc = "write" /\ outcomes' = outcomes
        /\ files' = [files EXCEPT ![u] = NoFile] \/ files' = files
    BY <1>9 DEF WriteFails
  <2>2. ASSUME files' = [files EXCEPT ![u] = NoFile]
        PROVE  Promise!Withdraw(u, x)
    <3>1. Registers' = [Registers EXCEPT ![u] = Promise!Free]
      BY <1>2, <1>4, <1>9, <2>2, RegistersFollow, RegisterOf
    <3>2. QED
      BY <1>5, <1>9, <2>1, <3>1 DEF Promise!Withdraw, Registers
  <2>3. QED
    BY <1>1, <1>4, <1>9, <2>1, <2>2 DEF Promise!Next
<1>10. CASE LoadGraph(a) \/ Crash(a)
  BY <1>1, <1>10 DEF LoadGraph, Crash
<1>11. QED
  BY <1>3, <1>6, <1>7, <1>8, <1>9, <1>10 DEF AgentStep, Promise!Next

\* The store implements the write-once registers: submitters and readers never see a
\* whole proposal change or go away, acknowledged or not (create_new, and a clean-up
\* that is over before the call can succeed), for any number of agents and uids.
THEOREM StoreRefinesWriteOnce == StoreSpec => ImplementsWriteOnce
<1>1. StoreInit => Promise!Init
  <2> SUFFICES ASSUME StoreInit PROVE Promise!Init
    OBVIOUS
  <2>1. files = [u \in ProposalUids |-> NoFile] /\ outcomes = {}
    BY DEF StoreInit
  <2>2. Registers = [u \in ProposalUids |-> Promise!Free]
    BY <2>1, RegisterOf DEF Registers
  <2>3. QED
    BY <2>1, <2>2 DEF Promise!Init, Registers
<1>2. StoreInv /\ [StoreNext]_allVars => [Promise!Next]_<<Registers, outcomes>>
  <2> SUFFICES ASSUME StoreInv, [StoreNext]_allVars
               PROVE  Promise!Next \/ (Registers' = Registers /\ outcomes' = outcomes)
    OBVIOUS
  <2>1. CASE UNCHANGED storeVars \/ UNCHANGED allVars
    BY <2>1 DEF storeVars, allVars, Registers, Register, ReadsWhole
  <2>2. ASSUME NEW a \in Agents, AgentStep(a)
        PROVE  Promise!Next \/ (Registers' = Registers /\ outcomes' = outcomes)
    BY <2>2, AgentStepRefines
  <2>3. QED
    BY <2>1, <2>2 DEF StoreNext
<1>3. QED
  BY <1>1, <1>2, StoreInvInit, StoreStepKeeps, PTL
  DEF StoreSpec, ImplementsWriteOnce, Promise!Spec, Registers

-----------------------------------------------------------------------------
(* What a revision is aimed at.                                            *)

\* Whatever a loaded copy takes for a candidate was one when it was loaded.
CopiesRemember ==
    \A a \in Agents, t \in Requirements :
        Loaded(a)!Evaluate(t) = "Candidate" => <<t, snap[a].content[t]>> \in candidate

RevisionInv == DOMAIN snap = Agents /\ CopiesRemember /\ RevisionsTargetCandidates

\* A copy that has just been loaded is judged as the corpus is.
LEMMA FreshCopyAgrees ==
  ASSUME NEW a \in Agents, NEW t \in Requirements,
         snap'[a] = [content |-> content, reviews |-> reviews, claims |-> claims]
  PROVE  Loaded(a)!Evaluate(t)' = Evaluate(t)
<1>0. snap'[a].content = content /\ snap'[a].reviews = reviews /\ snap'[a].claims = claims
  OBVIOUS
<1>1. Loaded(a)!Superseded' = Superseded
  BY <1>0 DEF Loaded!Superseded, Superseded
<1>2. \A x : Loaded(a)!Heads(x)' = Heads(x)
  BY <1>0, <1>1 DEF Loaded!Heads, Heads
<1>3. Loaded(a)!GraphValid' <=> GraphValid
  <2>1. Loaded(a)!EdgesResolve' <=> EdgesResolve
    BY <1>0 DEF Loaded!EdgesResolve, EdgesResolve
  <2>2. Loaded(a)!CorrectionsMatch' <=> CorrectionsMatch
    BY <1>0 DEF Loaded!CorrectionsMatch, CorrectionsMatch, Loaded!Corrects, Corrects
  <2>3. Loaded(a)!NoForks' <=> NoForks
    BY <1>0 DEF Loaded!NoForks, NoForks
  <2>4. Loaded(a)!NoCycles' <=> NoCycles
    BY <1>0 DEF Loaded!NoCycles, NoCycles
  <2>5. QED
    BY <2>1, <2>2, <2>3, <2>4 DEF Loaded!GraphValid, GraphValid
<1>4. Loaded(a)!DeriveState(t)' = DeriveState(t)
  BY <1>0, <1>2 DEF Loaded!DeriveState, DeriveState, Loaded!HeadDecides, HeadDecides,
                    Loaded!HasOlderApproval, HasOlderApproval
<1>5. QED
  BY <1>0, <1>3, <1>4 DEF Loaded!Evaluate, Evaluate

\* A copy that stays is judged as before.
LEMMA OldCopyStays ==
  ASSUME NEW a \in Agents, NEW t \in Requirements, snap'[a] = snap[a]
  PROVE  Loaded(a)!Evaluate(t)' = Loaded(a)!Evaluate(t)
BY DEF Loaded!Evaluate, Loaded!GraphValid, Loaded!EdgesResolve, Loaded!CorrectionsMatch,
       Loaded!Corrects, Loaded!NoForks, Loaded!NoCycles, Loaded!DeriveState,
       Loaded!HeadDecides, Loaded!HasOlderApproval, Loaded!Heads, Loaded!Superseded

LEMMA CopiesRememberNext ==
  ASSUME RevisionInv, StoreNext
  PROVE  DOMAIN snap' = Agents /\ CopiesRemember'
<1>1. candidate' = candidate \cup CandidatesNow
  BY DEF StoreNext, Remember
<1>2. CASE UNCHANGED snap
  BY <1>1, <1>2, OldCopyStays DEF RevisionInv, CopiesRemember
<1>3. ASSUME NEW a \in Agents, LoadGraph(a)
      PROVE  DOMAIN snap' = Agents /\ CopiesRemember'
  <2>1. snap' = [snap EXCEPT ![a] = [content |-> content, reviews |-> reviews, claims |-> claims]]
    BY <1>3 DEF LoadGraph
  <2>2. DOMAIN snap' = Agents
    BY <2>1 DEF RevisionInv
  <2>3. ASSUME NEW b \in Agents, NEW t \in Requirements, Loaded(b)!Evaluate(t)' = "Candidate"
        PROVE  <<t, snap'[b].content[t]>> \in candidate'
    <3>1. CASE b = a
      <4>1. snap'[b] = [content |-> content, reviews |-> reviews, claims |-> claims]
        BY <2>1, <3>1 DEF RevisionInv
      <4>2. Evaluate(t) = "Candidate"
        BY <2>3, <4>1, FreshCopyAgrees
      <4>3. <<t, content[t]>> \in CandidatesNow
        BY <4>2 DEF CandidatesNow
      <4>4. QED
        BY <1>1, <4>1, <4>3
    <3>2. CASE b # a
      <4>1. snap'[b] = snap[b]
        BY <2>1, <3>2 DEF RevisionInv
      <4>2. Loaded(b)!Evaluate(t) = "Candidate"
        BY <2>3, <4>1, OldCopyStays
      <4>3. QED
        BY <1>1, <4>1, <4>2 DEF RevisionInv, CopiesRemember
    <3>3. QED
      BY <3>1, <3>2
  <2>4. QED
    BY <2>2, <2>3 DEF CopiesRemember
<1>4. QED
  BY <1>2, <1>3 DEF StoreNext, storeVars, AgentStep, OpenProposal, WriteSome, WriteRest,
                    Return, WriteFails, Crash

\* A file keeps its action for as long as it is there, and a new one has passed
\* the guards on the copy of its agent.
LEMMA RevisionsNext ==
  ASSUME StoreInv, RevisionInv, StoreNext
  PROVE  RevisionsTargetCandidates'
<1>1. candidate \subseteq candidate'
  BY DEF StoreNext, Remember
<1>2. CASE UNCHANGED files
  BY <1>1, <1>2 DEF RevisionInv, RevisionsTargetCandidates
<1>3. ASSUME NEW a \in Agents, NEW uid \in ProposalUids, NEW action \in Actions,
             OpenProposal(a, uid, action)
      PROVE  RevisionsTargetCandidates'
  <2>1. files' = [files EXCEPT ![uid] = File("empty", action)] /\ Guarded(a, action)
    BY <1>3 DEF OpenProposal
  <2>2. ASSUME action.kind = "revise"
        PROVE  <<action.base, action.expected>> \in candidate
    <3>1. action.base \in Requirements
      BY <2>2 DEF Actions, CreateActions, ReviseActions
    <3>2. Loaded(a)!Evaluate(action.base) = "Candidate" /\ snap[a].content[action.base] = action.expected
      BY <2>1, <2>2 DEF Guarded, MayRevise
    <3>3. QED
      BY <3>1, <3>2 DEF RevisionInv, CopiesRemember
  <2>3. ASSUME NEW u \in ProposalUids, files'[u] # NoFile, files'[u].action.kind = "revise"
        PROVE  <<files'[u].action.base, files'[u].action.expected>> \in candidate'
    <3>1. CASE u = uid
      <4>1. files'[u].action = action
        BY <2>1, <3>1 DEF StoreInv, File
      <4>2. QED
        BY <1>1, <2>2, <2>3, <4>1
    <3>2. CASE u # uid
      <4>1. files'[u] = files[u]
        BY <2>1, <3>2
      <4>2. QED
        BY <1>1, <2>3, <4>1 DEF RevisionInv, RevisionsTargetCandidates
    <3>3. QED
      BY <3>1, <3>2
  <2>4. QED
    BY <2>3 DEF RevisionsTargetCandidates
<1>4. ASSUME NEW a \in Agents, WriteSome(a) \/ WriteRest(a) \/ WriteFails(a)
      PROVE  RevisionsTargetCandidates'
  <2> DEFINE u == agent[a].uid
             x == agent[a].action
  <2>1. u \in ProposalUids /\ \E e \in Extents : files[u] = File(e, x)
    <3>1. a \in Busies /\ agent[a].pc \in {"write", "return"} /\ u \in ProposalUids
      BY <1>4, BusyIsWriting DEF WriteSome, WriteRest, WriteFails, Idle
    <3>2. QED
      BY <3>1 DEF StoreInv, Extent, Extents
  <2>2. \/ \E e \in Extents : files' = [files EXCEPT ![u].extent = e]
        \/ files' = [files EXCEPT ![u] = NoFile] \/ files' = files
    BY <1>4 DEF WriteSome, WriteRest, WriteFails, Extents
  <2>3. \/ \E e \in Extents : files' = [files EXCEPT ![u] = File(e, x)]
        \/ files' = [files EXCEPT ![u] = NoFile] \/ files' = files
    BY <2>1, <2>2 DEF File
  <2>4. ASSUME NEW w \in ProposalUids, files'[w] # NoFile
        PROVE  files[w] # NoFile /\ files'[w].action = files[w].action
    <3>1. \A e : File(e, x).action = x
      BY DEF File
    <3>2. CASE w = u
      BY <2>1, <2>3, <2>4, <3>1, <3>2, ExtentsDiffer DEF StoreInv
    <3>3. CASE w # u
      BY <2>1, <2>3, <2>4, <3>3 DEF StoreInv
    <3>4. QED
      BY <3>2, <3>3
  <2>5. QED
    BY <1>1, <2>4 DEF RevisionInv, RevisionsTargetCandidates
<1>5. QED
  BY <1>2, <1>3, <1>4 DEF StoreNext, storeVars, AgentStep, LoadGraph, Return, Crash

LEMMA RevisionInvNext == StoreInv /\ RevisionInv /\ [StoreNext]_allVars => RevisionInv'
<1> SUFFICES ASSUME StoreInv, RevisionInv, [StoreNext]_allVars
             PROVE  RevisionInv'
  OBVIOUS
<1>1. CASE StoreNext
  BY <1>1, CopiesRememberNext, RevisionsNext DEF RevisionInv
<1>2. CASE UNCHANGED allVars
  <2>1. UNCHANGED <<snap, files, candidate>>
    BY <1>2 DEF allVars
  <2>2. QED
    BY <2>1, OldCopyStays DEF RevisionInv, CopiesRemember, RevisionsTargetCandidates
<1>3. QED
  BY <1>1, <1>2

\* A recorded revision quotes content that was an undecided candidate in a state
\* the corpus went through, however old the agent's copy is and whatever happened
\* to the corpus since (append_revise_candidate_blocking): for any number of agents.
THEOREM RevisionsAimAtCandidates == StoreSpec => []RevisionsTargetCandidates
<1>1. StoreInit => RevisionInv
  <2> SUFFICES ASSUME StoreInit PROVE RevisionInv
    OBVIOUS
  <2>1. \A a \in Agents, t \in Requirements : snap[a].content[t] = Absent
    BY DEF StoreInit, ReviewInit, Targets
  <2>2. \A a \in Agents, t \in Requirements : Loaded(a)!Evaluate(t) # "Candidate"
    BY <2>1 DEF Loaded!Evaluate
  <2>3. QED
    BY <2>2 DEF StoreInit, RevisionInv, CopiesRemember, RevisionsTargetCandidates
<1>2. RevisionInv => RevisionsTargetCandidates
  BY DEF RevisionInv
<1>3. QED
  BY <1>1, <1>2, StoreInvInit, StoreStepKeeps, RevisionInvNext, PTL DEF StoreSpec

=============================================================================
