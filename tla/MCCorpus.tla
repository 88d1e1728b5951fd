------------------------------ MODULE MCCorpus ------------------------------
(***************************************************************************)
(* The corpus on small instances: a behaviour is one of the review         *)
(* records, of the proposal store beside records that are edited, or of a  *)
(* curated patch.                                                          *)
(***************************************************************************)
EXTENDS ProposalStore, SourcePatch, TLC

VARIABLE part

all == <<allVars, patchVars, part>>

\* Nothing tells two reviews or two reviewers apart.
Symmetric == Permutations(ReviewUids) \cup Permutations(Reviewers)

\* The store is checked beside one requirement that one reviewer gives one review,
\* which may be withdrawn and given again and corrects no other; nobody claims the
\* requirement.
ReviewsSeen == reviews \cup UNION {snap[a].reviews : a \in Agents}
OneReview ==
    /\ claims = {} /\ \A t \in Patches : content[t] = Absent
    /\ \A v \in reviews : v.target \in Requirements /\ v.supersedes = None
    /\ Cardinality({<<v.uid, v.reviewer>> : v \in ReviewsSeen}) <= 1

\* Patches start from graphs of two nodes with one labelled node at most, and of
\* three nodes without labels.
FewLabels ==
    Cardinality({u \in DOMAIN base : base[u].label # NoLabel}) + Cardinality(DOMAIN base) <= 3

NoGraph == base = <<>> /\ working = base /\ ops = {}

Init ==
    /\ part \in {"reviews", "store", "patch"}
    /\ StoreInit
    /\ IF part = "patch" THEN PatchInit /\ FewLabels ELSE NoGraph

Only(p) ==
    /\ part = p /\ UNCHANGED part
    /\ p # "patch" => UNCHANGED patchVars
    /\ p # "store" => UNCHANGED <<storeVars, candidate>>
    /\ p = "patch" => UNCHANGED reviewVars

Next ==
    \/ Only("reviews") /\ ReviewNext
    \/ Only("store") /\ StoreNext /\ OneReview'
    \/ Only("patch") /\ PatchNext

Spec == Init /\ [][Next]_all
=============================================================================
