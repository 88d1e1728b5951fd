---------------------------- MODULE ReviewCorpus ----------------------------
(***************************************************************************)
(* The review plane of the requirements corpus (crate evidence-core,       *)
(* module corpus): reviewable targets, the digest-bound review records     *)
(* that people commit about them, the whole-graph validation, the derived  *)
(* lifecycle of a target and the strict approval boundary.                 *)
(*                                                                         *)
(* The state is the committed record set.  It moves only because somebody  *)
(* edits a record file, so the actions are the edits; everything the code  *)
(* computes (validate, derive_state, the boundary) is a pure function of   *)
(* the record set and is an operator here.  A record may be malformed in   *)
(* every way the strict loader lets through: it may supersede itself, a    *)
(* missing review, another reviewer's review, and so on.                   *)
(***************************************************************************)
EXTENDS Naturals, FiniteSets

CONSTANTS
    Requirements,   \* req_ uids
    Patches,        \* patch_ uids (curated patches are reviewed the same way)
    ReviewUids,     \* rev_ uids
    Reviewers,      \* reviewer identities (audit metadata, compared as text)
    Digests,        \* review-content digests
    Tests,          \* test_ uids
    OwnClaims,      \* "modules", "emits": claims in a requirement's own metadata
    Absent,         \* the value of a target that has no committed record
    None            \* no supersedes_review_uid

ASSUME KindsDisjoint == Requirements \cap Patches = {}
ASSUME AbsentIsNoDigest == Absent \notin Digests
ASSUME NoneIsNoUid == None \notin ReviewUids
ASSUME ClaimsDisjoint == Tests \cap OwnClaims = {}

VARIABLES
    content,        \* current review-content digest of every target
    reviews,        \* the committed review records
    claims          \* gated claims: <<artifact, requirement>>

reviewVars == <<content, reviews, claims>>

Targets == Requirements \cup Patches
Decisions == {"Approve", "Reject"}

\* What can claim a requirement: a test that verifies it, or the requirement's
\* own trace metadata (implementation modules, emitted diagnostic codes).
Artifacts == Tests \cup OwnClaims

\* A review node.  The loader derives the Reviews edge from the target field
\* and at most one Supersedes edge from the optional predecessor uid.
ReviewNode == [uid : ReviewUids, target : Targets, digest : Digests,
               decision : Decisions, reviewer : Reviewers,
               supersedes : ReviewUids \cup {None}]

-----------------------------------------------------------------------------
(* CorpusGraph::validate, the review part.                                 *)

\* Every Reviews, Supersedes and Verifies edge has an endpoint of its kind.
EdgesResolve ==
    /\ \A v \in reviews : content[v.target] # Absent
    /\ \A v \in reviews : v.supersedes # None => \E p \in reviews : p.uid = v.supersedes
    /\ \A c \in claims : content[c[2]] # Absent

\* Faulty variants (mutants): corrections whose reviewer, or whose target, is
\* not compared.
Corrects_AnyReviewer(v, p) == v.uid # p.uid /\ v.target = p.target /\ v.digest = p.digest
Corrects_AnyTarget(v, p) == v.uid # p.uid /\ v.reviewer = p.reviewer /\ v.digest = p.digest

\* A correction is made by the same reviewer, about the same target and the
\* same reviewed digest, and never of itself.
Corrects(v, p) ==
    /\ v.uid # p.uid
    /\ v.reviewer = p.reviewer
    /\ v.target = p.target
    /\ v.digest = p.digest

CorrectionsMatch ==
    \A v, p \in reviews : v.supersedes = p.uid => Corrects(v, p)

NoForks ==
    \A v, w \in reviews : v.supersedes # None /\ v.supersedes = w.supersedes => v = w

\* Faulty variant: no cycle check.
NoCycles_Unchecked == TRUE

\* No chain of supersessions returns to where it started.  On a finite record
\* set that is: every non-empty set of reviews has a member that no member of
\* the set supersedes.
NoCycles ==
    \A S \in SUBSET reviews :
        S # {} => \E v \in S : \A w \in S : w.supersedes # v.uid

\* reject_cycles follows the edge from a review to the one it corrects, ...
Predecessor(uid) ==
    IF \E v \in reviews : v.uid = uid THEN (CHOOSE v \in reviews : v.uid = uid).supersedes ELSE None

\* ... from one review on, ...
Walk(v) ==
    LET at[n \in 0..Cardinality(reviews)] == IF n = 0 THEN v.uid ELSE Predecessor(at[n - 1])
    IN  at

\* Faulty variant: the review the walk starts from is not on the path.
ComesBack_StartUnseen(v) ==
    \E m, n \in 1..Cardinality(reviews) : m < n /\ Walk(v)[m] = Walk(v)[n] /\ Walk(v)[n] # None

\* ... until there is none to follow or a uid is on the path already.  A path has
\* no more uids than there are reviews.  (The code also stops at a review that an
\* earlier walk has cleared.)
ComesBack(v) ==
    \E m, n \in 0..Cardinality(reviews) : m < n /\ Walk(v)[m] = Walk(v)[n] /\ Walk(v)[n] # None

GraphValid == EdgesResolve /\ CorrectionsMatch /\ NoForks /\ NoCycles

-----------------------------------------------------------------------------
(* Lifecycle evaluation.                                                   *)

Superseded == {v.supersedes : v \in reviews}

Heads(t) == {v \in reviews : v.target = t /\ v.uid \notin Superseded}

HeadDecides(t, decision) ==
    \E v \in Heads(t) : v.decision = decision /\ v.digest = content[t]

HasOlderApproval(t) ==
    \E v \in Heads(t) : v.decision = "Approve" /\ v.digest # content[t]

\* Faulty variant: an approval of older content still counts.
DeriveState_OldApprovalCounts(t) ==
    IF HeadDecides(t, "Reject") THEN "Rejected"
    ELSE IF HeadDecides(t, "Approve") \/ HasOlderApproval(t) THEN "Approved"
    ELSE "Candidate"

\* The truth table: rejection beats approval beats an older approval.
DeriveState(t) ==
    IF HeadDecides(t, "Reject") THEN "Rejected"
    ELSE IF HeadDecides(t, "Approve") THEN "Approved"
    ELSE IF HasOlderApproval(t) THEN "Stale"
    ELSE "Candidate"

\* evaluate_lifecycle and evaluate_patch_lifecycle: a malformed graph has no
\* lifecycle at all, and neither has an absent target.
Evaluate(t) ==
    IF ~GraphValid THEN "InvalidGraph"
    ELSE IF content[t] = Absent THEN "Missing"
    ELSE DeriveState(t)

\* Faulty variant: a stale requirement passes the boundary.
Violations_StalePasses == {c \in claims : DeriveState(c[2]) \notin {"Approved", "Stale"}}

\* validate_approval_boundary under LifecycleEnforcement::Required, the
\* requirement claims.
Violations == {c \in claims : DeriveState(c[2]) # "Approved"}

Boundary ==
    IF ~GraphValid THEN "InvalidGraph"
    ELSE IF Violations # {} THEN "Violations"
    ELSE "Ok"

-----------------------------------------------------------------------------
(* The edits people make to the committed records.                         *)

ReviewInit ==
    /\ content = [t \in Targets |-> Absent]
    /\ reviews = {}
    /\ claims = {}

\* A target is created or its reviewed content is changed.
EditContent(t, d) ==
    /\ content[t] # d
    /\ content' = [content EXCEPT ![t] = d]
    /\ UNCHANGED <<reviews, claims>>

\* A target's record is deleted, its own claims with it; tests that still
\* verify it keep their edge.
DeleteTarget(t) ==
    /\ content[t] # Absent
    /\ content' = [content EXCEPT ![t] = Absent]
    /\ claims' = claims \ (OwnClaims \X {t})
    /\ UNCHANGED reviews

\* Faulty variant: insertion does not look for the uid.
RecordReview_DuplicateUid(v) ==
    /\ v \notin reviews
    /\ reviews' = reviews \cup {v}
    /\ UNCHANGED <<content, claims>>

\* A review record is committed.  Insertion rejects a duplicate uid, so a tree
\* with two records of one uid never becomes a graph.
RecordReview(v) ==
    /\ \A w \in reviews : w.uid # v.uid
    /\ reviews' = reviews \cup {v}
    /\ UNCHANGED <<content, claims>>

\* A review record is taken out of the tree again (a reverted commit).
WithdrawReview(v) ==
    /\ v \in reviews
    /\ reviews' = reviews \ {v}
    /\ UNCHANGED <<content, claims>>

\* A test or an implementation claim starts or stops naming a requirement.
ToggleClaim(c) ==
    /\ c[1] \in OwnClaims => content[c[2]] # Absent
    /\ claims' = IF c \in claims THEN claims \ {c} ELSE claims \cup {c}
    /\ UNCHANGED <<content, reviews>>

ReviewNext ==
    \/ \E t \in Targets, d \in Digests : EditContent(t, d)
    \/ \E t \in Targets : DeleteTarget(t)
    \/ \E v \in ReviewNode : RecordReview(v)
    \/ \E v \in reviews : WithdrawReview(v)
    \/ \E c \in Artifacts \X Requirements : ToggleClaim(c)

ReviewSpec == ReviewInit /\ [][ReviewNext]_reviewVars

-----------------------------------------------------------------------------
(* Properties.                                                             *)

\* The committed records are well typed and no two share a uid (the loader's
\* strict parse, insert's uniqueness check).
TypeOK ==
    /\ content \in [Targets -> Digests \cup {Absent}]
    /\ reviews \subseteq ReviewNode
    /\ claims \subseteq Artifacts \X Requirements
    /\ \A v, w \in reviews : v.uid = w.uid => v = w

\* The walk of supersession.rs (reject_cycles) comes back to a uid, from one review
\* or another, exactly when the records are not acyclic in the sense of NoCycles, on
\* which the guarantees of supersession rest.
WalkFindsTheCycles == NoCycles <=> \A v \in reviews : ~ComesBack(v)

\* In a valid graph supersession never makes a reviewer's voice on a digest
\* disappear: whoever has decided a target at some digest still has an
\* effective head there (supersession.rs: same reviewer, target and digest,
\* and no cycles; a cycle would silence every member of it).
DecisionsNeverVanish ==
    GraphValid =>
        \A v \in reviews : \E h \in Heads(v.target) :
            h.reviewer = v.reviewer /\ h.digest = v.digest

\* A rejection of the current content can be overturned only by the reviewer
\* who made it: as long as that reviewer has no effective approval of the
\* current digest the target is Rejected, whatever others have approved
\* (derive_state's precedence and the supersession checks together).
OnlyTheObjectorLiftsARejection ==
    GraphValid =>
        \A v \in reviews :
            v.decision = "Reject" /\ v.digest = content[v.target] =>
                \/ DeriveState(v.target) = "Rejected"
                \/ \E h \in Heads(v.target) :
                        /\ h.reviewer = v.reviewer
                        /\ h.decision = "Approve"
                        /\ h.digest = content[v.target]

\* When the approval boundary passes, every claimed requirement has an
\* effective approval of exactly its current content, and every reviewer who
\* ever rejected that content has since approved it (approval_boundary.rs,
\* validate_required).
PassedBoundaryIsUncontested ==
    Boundary = "Ok" =>
        \A c \in claims :
            /\ HeadDecides(c[2], "Approve")
            /\ \A v \in reviews :
                v.target = c[2] /\ v.digest = content[c[2]] =>
                    \E h \in Heads(c[2]) :
                        /\ h.reviewer = v.reviewer
                        /\ h.decision = "Approve"
                        /\ h.digest = content[c[2]]

\* Recording or withdrawing a review of one target never moves another
\* target's lifecycle between two valid graphs (cross-target supersession
\* fails closed, heads are per target).
LocalStep ==
    \A t \in Targets :
        /\ GraphValid /\ GraphValid'
        /\ content' = content
        /\ {v \in reviews : v.target = t} = {v \in reviews' : v.target = t}
        => DeriveState(t)' = DeriveState(t)

ReviewsAreLocal == [][LocalStep]_reviewVars

\* Editing content never produces an approval that was not recorded for the
\* new digest before the edit, and never carries an old rejection over: after
\* the edit the target is Approved or Rejected only by a review that already
\* named the new digest (lifecycle.rs: the digest comparison alone decides).
InheritNothingStep ==
    \A t \in Targets :
        content'[t] # content[t] =>
            /\ DeriveState(t)' = "Approved" =>
                 \E v \in reviews : /\ v.target = t /\ v.digest = content'[t]
                                    /\ v.decision = "Approve"
            /\ DeriveState(t)' = "Rejected" =>
                 \E v \in reviews : /\ v.target = t /\ v.digest = content'[t]
                                    /\ v.decision = "Reject"

EditsInheritNoDecision == [][InheritNothingStep]_reviewVars
=============================================================================
