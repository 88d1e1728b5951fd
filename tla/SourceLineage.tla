---------------------------- MODULE SourceLineage ----------------------------
(***************************************************************************)
(* The committed source revisions of a corpus and what guards them         *)
(* (corpus/source): the supersession lineage of every document, the gate   *)
(* between two committed states, the lock derived from the heads, and the  *)
(* verification of the vendored payload.                                   *)
(*                                                                         *)
(* People commit states the gate accepts, regenerate or edit the lock, and *)
(* change the files below sources/, in any order.  Of a revision the       *)
(* document key, the material and the supersedes edge are kept; its title, *)
(* id, media type and location behave like the digest of the material.     *)
(***************************************************************************)
EXTENDS Integers, FiniteSets

CONSTANTS
    Sources,        \* src_ uids
    Documents,      \* document keys
    Modes,          \* of capture, those exercised
    Digests,        \* SHA-256 of the bytes of a document
    None            \* no supersedes edge, no head, no bytes

ASSUME NoneIsNoSource == None \notin Sources
ASSUME ModesAreKnown == Modes \subseteq {"vendored", "hash_only", "external_controlled", "unavailable"}

VARIABLES
    records,        \* the committed revisions, by uid
    sourcesLock,    \* sources.lock as committed
    payload,        \* what the vendored path of a document leads to
    pastHeads       \* every revision that was the head of a document at some commit

sourceVars == <<records, sourcesLock, payload, pastHeads>>

\* SourceMaterial and SourceCapture.
Materials ==
    [mode : Modes \ {"unavailable"}, sha256 : Digests]
    \cup [mode : Modes \cap {"unavailable"}, sha256 : {None}]

\* SourceRevisionNode; SourceRevisionProjection compares all of it.
SourceRevision == [document : Documents, material : Materials, supersedes : Sources \cup {None}]

\* What lies at a path: nothing, a directory, a symbolic link on the way to it, or a file.
Payloads == [kind : {"file", "symlink"}, bytes : Digests] \cup [kind : {"missing", "directory"}, bytes : {None}]
Missing == [kind |-> "missing", bytes |-> None]

Revisions(G, d) == {s \in DOMAIN G : G[s].document = d}

-----------------------------------------------------------------------------
(* validate_source_lineage.                                                *)

\* Corpus validation resolves the edge; then the one edge of a revision leads to
\* another revision of the same document.
EdgesLegal(G) ==
    \A s \in DOMAIN G :
        LET target == G[s].supersedes
        IN target # None => target \in DOMAIN G \ {s} /\ G[target].document = G[s].document

NoForks(G) ==
    \A s, t \in DOMAIN G : G[s].supersedes = G[t].supersedes /\ G[s].supersedes # None => s = t

\* No set of revisions has all its successors inside itself.
LineageAcyclic(G) ==
    \A S \in SUBSET DOMAIN G : S # {} => \E s \in S : G[s].supersedes \notin S

Superseded(G) == {G[s].supersedes : s \in DOMAIN G}

OneRoot(G) ==
    \A d \in Documents : Cardinality({s \in Revisions(G, d) : G[s].supersedes = None}) <= 1

OneHead(G) == \A d \in Documents : Cardinality(Revisions(G, d) \ Superseded(G)) <= 1

LineageValid(G) ==
    EdgesLegal(G) /\ NoForks(G) /\ LineageAcyclic(G) /\ OneRoot(G) /\ OneHead(G)

\* effective_source_heads: of every document that has one, in a valid graph.
HeadOf(G, d) ==
    IF Revisions(G, d) \subseteq Superseded(G) THEN None
    ELSE CHOOSE s \in Revisions(G, d) : s \notin Superseded(G)

WithHead(G) == {d \in Documents : HeadOf(G, d) # None}

-----------------------------------------------------------------------------
(* validate_source_transition.                                             *)

\* Faulty variant: a known revision must still be there.
NothingRewritten_Presence(prior, proposed) == DOMAIN prior \subseteq DOMAIN proposed

\* Every prior revision is there and its projection is what it was.
NothingRewritten(prior, proposed) ==
    \A s \in DOMAIN prior : s \in DOMAIN proposed /\ proposed[s] = prior[s]

\* A new revision of a document that has a head supersedes that head.
NewSupersedesHead(prior, proposed) ==
    \A s \in DOMAIN proposed \ DOMAIN prior :
        proposed[s].document \in WithHead(prior) =>
            proposed[s].supersedes = HeadOf(prior, proposed[s].document)

MayFollow(prior, proposed) ==
    /\ LineageValid(prior)
    /\ NothingRewritten(prior, proposed)
    /\ NewSupersedesHead(prior, proposed)
    /\ LineageValid(proposed)

-----------------------------------------------------------------------------
(* The lock.                                                               *)

\* entry_from_revision: path, reason, title and the rest are not in the lock.
EntryOf(G, d) == [source |-> HeadOf(G, d), material |-> G[HeadOf(G, d)].material]

\* derive_lock; render_lock_canonical of it is canonical.
DeriveLock(G) == [canonical |-> TRUE, entries |-> [d \in WithHead(G) |-> EntryOf(G, d)]]

\* Faulty variant: only the documents are compared, not what is pinned for them.
FirstDifference_KeysOnly(derived, committed) ==
    IF DOMAIN derived # DOMAIN committed THEN "missing" ELSE "none"

\* diff_inventories: missing, extra, changed.
FirstDifference(derived, committed) ==
    IF ~(DOMAIN derived \subseteq DOMAIN committed) THEN "missing"
    ELSE IF ~(DOMAIN committed \subseteq DOMAIN derived) THEN "extra"
    ELSE IF \E d \in DOMAIN derived : committed[d] # derived[d] THEN "changed"
    ELSE "none"

\* validate_committed_lock, behind parse_lock: a file that is not the canonical
\* rendering of what it parses to is refused.
LockAccepted(G, L) ==
    /\ LineageValid(G)
    /\ L.canonical
    /\ FirstDifference(DeriveLock(G).entries, L.entries) = "none"

-----------------------------------------------------------------------------
(* verify_effective_sources.                                               *)

\* resolve_vendored_path: what stands in the way of hashing the file, if anything.
\* The wire path was checked as the record was loaded.
Obstacle(at) ==
    CASE at.kind = "missing" -> "MissingPayload"
      [] at.kind = "directory" -> "NotAFile"
      [] at.kind = "symlink" -> "SymlinkComponent"
      [] OTHER -> "none"

\* verify_vendored_head.
VerifyVendored(revision, entry, at) ==
    IF entry.material.mode = "unavailable" THEN "LockDisagreement"
    ELSE IF entry.material.mode # "vendored" THEN "LockDisagreement"
    ELSE IF entry.material.sha256 # revision.material.sha256 THEN "LockDisagreement"
    ELSE IF Obstacle(at) # "none" THEN Obstacle(at)
    ELSE IF at.bytes # revision.material.sha256 THEN "DigestMismatch"
    ELSE "verified_bytes"

\* verify_head.
VerifyHead(G, L, d, at) ==
    LET revision == G[HeadOf(G, d)]
    IN CASE revision.material.mode = "unavailable" -> "unavailable"
         [] revision.material.mode = "hash_only" -> "digest_declared"
         [] revision.material.mode = "external_controlled" -> "externally_controlled"
         [] revision.material.mode = "vendored" -> VerifyVendored(revision, L.entries[d], at)

\* Nothing is reported of any document when the lock is refused.
Verification(G, L, D) ==
    IF ~LockAccepted(G, L) THEN [d \in {} |-> "none"]
    ELSE [d \in WithHead(G) |-> VerifyHead(G, L, d, D[d])]

-----------------------------------------------------------------------------
(* The behaviours.                                                         *)

NoRecords == [s \in {} |-> None]

SourcesInit ==
    /\ records = NoRecords
    /\ sourcesLock = DeriveLock(NoRecords)
    /\ payload = [d \in Documents |-> Missing]
    /\ pastHeads = {}

SourcesIdle ==
    records = NoRecords /\ sourcesLock = DeriveLock(NoRecords) /\ payload = <<>> /\ pastHeads = {}

\* A state of the records is proposed and the gate accepts it.
CommitRecords(proposed) ==
    /\ proposed # records
    /\ MayFollow(records, proposed)
    /\ records' = proposed
    /\ pastHeads' = pastHeads \cup {<<HeadOf(proposed, d), proposed[HeadOf(proposed, d)]>> :
                                       d \in WithHead(proposed)}
    /\ UNCHANGED <<sourcesLock, payload>>

\* One revision is written, rewritten or deleted, or two are written at once.
Put(G, s, revision) == [t \in DOMAIN G \cup {s} |-> IF t = s THEN revision ELSE G[t]]

CommitEdit ==
    \/ \E s \in Sources, r \in SourceRevision : CommitRecords(Put(records, s, r))
    \/ \E s \in Sources \ DOMAIN records, t \in Sources \ DOMAIN records :
        \E r, q \in {r \in SourceRevision : r.material.mode = "unavailable"} :
            CommitRecords(Put(Put(records, s, r), t, q))
    \/ \E s \in DOMAIN records :
        CommitRecords([t \in DOMAIN records \ {s} |-> records[t]])

RegenerateLock ==
    /\ sourcesLock' = DeriveLock(records)
    /\ UNCHANGED <<records, payload, pastHeads>>

\* The lock is edited by hand: an entry follows another revision, or the layout is touched.
EditLock ==
    /\ LockAccepted(records, sourcesLock)       \* bound: one edit at a time
    /\ \/ sourcesLock' = [sourcesLock EXCEPT !.canonical = FALSE]
       \/ \E d \in DOMAIN sourcesLock.entries, s \in DOMAIN records :
            sourcesLock' = [sourcesLock EXCEPT
                !.entries[d] = [source |-> s, material |-> records[s].material]]
    /\ UNCHANGED <<records, payload, pastHeads>>

ChangePayload ==
    /\ \E d \in Documents, at \in Payloads :
        /\ \A e \in Documents \ {d} : payload[e] = Missing    \* bound: one file at a time
        /\ payload' = [payload EXCEPT ![d] = at]
    /\ UNCHANGED <<records, sourcesLock, pastHeads>>

SourcesNext == CommitEdit \/ RegenerateLock \/ EditLock \/ ChangePayload

SourcesSpec == SourcesInit /\ [][SourcesNext]_sourceVars

-----------------------------------------------------------------------------
(* Properties.                                                             *)

\* What a revision supersedes, directly or not, itself among them.
Ancestry(G, s) ==
    {t \in DOMAIN G : \A S \in SUBSET DOMAIN G :
        s \in S /\ (\A u \in S : G[u].supersedes \in DOMAIN G => G[u].supersedes \in S) => t \in S}

\* Through any sequence of commits the gate lets pass, a revision that was once
\* the head of its document is still there as it was, and the present head leads
\* back to it: a document never goes back and never changes branches
\* (validate_source_transition over validate_source_lineage).
HeadsOnlyAdvance ==
    \A past \in pastHeads :
        /\ past[1] \in DOMAIN records /\ records[past[1]] = past[2]
        /\ past[1] \in Ancestry(records, HeadOf(records, past[2].document))

\* A document reported as verified has the very bytes its present head pins, read
\* from a plain file below sources/, and its lock entry names that head: a lock or
\* a file left over from an earlier head never verifies (verify_effective_sources).
VerifiedIsThePresentHead ==
    LET report == Verification(records, sourcesLock, payload)
    IN \A d \in DOMAIN report :
        /\ sourcesLock.entries[d].source \in Revisions(records, d) \ Superseded(records)
        /\ report[d] = "verified_bytes" =>
            payload[d] = [kind |-> "file", bytes |-> sourcesLock.entries[d].material.sha256]
=============================================================================
