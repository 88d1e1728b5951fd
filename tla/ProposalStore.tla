---------------------------- MODULE ProposalStore ----------------------------
(***************************************************************************)
(* The append-only proposal store (corpus/proposal.rs), composed with the  *)
(* corpus it reads: agents load a copy of the corpus graph, are guarded by *)
(* that copy, and write proposal files next to each other, while people    *)
(* go on editing the committed records.                                    *)
(*                                                                         *)
(* A file is created empty (create_new), receives a prefix of the bytes    *)
(* and then the rest.  What a prefix parses to matters: after the required *)
(* fields (title, layer) every content field has a serde default, so a     *)
(* prefix that ends at a line there is itself a well-formed proposal.      *)
(***************************************************************************)
EXTENDS ReviewCorpus

CONSTANTS
    Agents,
    ProposalUids,   \* prop_ uids a UUIDv4 draw may return
    CandidateUids   \* req_ uids minted for create proposals

\* How much of a proposal's bytes the file holds.
Extents == {"empty", "required", "whole"}

\* What an agent proposes: a new candidate, or a revision of base at expected.
CreateActions == [kind : {"create"}, candidate : CandidateUids]
ReviseActions == [kind : {"revise"}, base : Requirements, expected : Digests]
Actions == CreateActions \cup ReviseActions

VARIABLES
    agent,      \* what every agent is doing
    snap,       \* the graph copy every agent has loaded
    files,      \* the proposal root: uid -> no file, or extent and action
    outcomes,   \* <<uid, action>> of every AppendOutcome returned
    candidate   \* history: <<t, d>> that some corpus state had as Candidate

storeVars == <<agent, snap, files, outcomes>>
allVars == <<content, reviews, claims, agent, snap, files, outcomes, candidate>>

NoFile == [extent |-> "none"]
File(extent, action) == [extent |-> extent, action |-> action]
Idle == [pc |-> "idle"]
Busy(pc, uid, action) == [pc |-> pc, uid |-> uid, action |-> action]

\* The corpus as an agent loaded it.
Loaded(a) == INSTANCE ReviewCorpus WITH content <- snap[a].content,
                                        reviews <- snap[a].reviews,
                                        claims <- snap[a].claims

StoreInit ==
    /\ ReviewInit
    /\ agent = [a \in Agents |-> Idle]
    /\ snap = [a \in Agents |-> [content |-> content, reviews |-> {}, claims |-> {}]]
    /\ files = [u \in ProposalUids |-> NoFile]
    /\ outcomes = {}
    /\ candidate = {}

-----------------------------------------------------------------------------
(* The guards of append_revise_candidate_blocking, on the loaded copy.     *)

\* Faulty variant: the expected digest is not compared.
MayRevise_AnyDigest(a, base, expected) ==
    /\ snap[a].content[base] # Absent
    /\ Loaded(a)!Evaluate(base) = "Candidate"

MayRevise(a, base, expected) ==
    /\ snap[a].content[base] # Absent
    /\ Loaded(a)!Evaluate(base) = "Candidate"
    /\ snap[a].content[base] = expected

Guarded(a, action) ==
    action.kind = "revise" => MayRevise(a, action.base, action.expected)

-----------------------------------------------------------------------------
(* The steps of an agent.                                                  *)

\* The agent loads the corpus (CorpusGraph is a value; it does not follow the
\* records on disk).
LoadGraph(a) ==
    /\ agent[a] = Idle
    /\ snap' = [snap EXCEPT ![a] = [content |-> content, reviews |-> reviews, claims |-> claims]]
    /\ UNCHANGED <<agent, files, outcomes>>

\* Faulty variant: create instead of create_new.
OpenProposal_Truncates(a, uid, action) ==
    /\ agent[a] = Idle
    /\ Guarded(a, action)
    /\ files' = [files EXCEPT ![uid] = File("empty", action)]
    /\ agent' = [agent EXCEPT ![a] = Busy("write", uid, action)]
    /\ UNCHANGED <<snap, outcomes>>

\* append_*: guards and content validation, then a uid is minted and the file
\* is opened with create_new; a file that is there already ends the call with
\* ProposalExists.
OpenProposal(a, uid, action) ==
    /\ agent[a] = Idle
    /\ Guarded(a, action)
    /\ files[uid] = NoFile
    /\ files' = [files EXCEPT ![uid] = File("empty", action)]
    /\ agent' = [agent EXCEPT ![a] = Busy("write", uid, action)]
    /\ UNCHANGED <<snap, outcomes>>

\* write_all passes a prefix to the file that ends inside the content table.
WriteSome(a) ==
    /\ agent[a].pc = "write"
    /\ files[agent[a].uid].extent = "empty"
    /\ files' = [files EXCEPT ![agent[a].uid].extent = "required"]
    /\ UNCHANGED <<agent, snap, outcomes>>

\* write_all returns Ok: the whole file is there, for every reader to see ...
WriteRest(a) ==
    /\ agent[a].pc = "write"
    /\ files' = [files EXCEPT ![agent[a].uid].extent = "whole"]
    /\ agent' = [agent EXCEPT ![a].pc = "return"]
    /\ UNCHANGED <<snap, outcomes>>

\* ... and append_blocking returns the outcome.
Return(a) ==
    /\ agent[a].pc = "return"
    /\ outcomes' = outcomes \cup {<<agent[a].uid, agent[a].action>>}
    /\ agent' = [agent EXCEPT ![a] = Idle]
    /\ UNCHANGED <<snap, files>>

\* Faulty variant: whatever goes wrong after the write (a flush, the digest of the
\* outcome) is cleaned up as well, by removing a file that readers have seen whole.
WriteFails_AfterTheWrite(a) ==
    /\ agent[a].pc \in {"write", "return"}
    /\ \/ files' = [files EXCEPT ![agent[a].uid] = NoFile]
       \/ UNCHANGED files
    /\ agent' = [agent EXCEPT ![a] = Idle]
    /\ UNCHANGED <<snap, outcomes>>

\* write_all fails after a prefix: the file is removed, unless the removal
\* fails as well; either way the call ends with ProposalWrite.
WriteFails(a) ==
    /\ agent[a].pc = "write"
    /\ \/ files' = [files EXCEPT ![agent[a].uid] = NoFile]
       \/ UNCHANGED files
    /\ agent' = [agent EXCEPT ![a] = Idle]
    /\ UNCHANGED <<snap, outcomes>>

\* The process dies; whatever is in the file stays.
Crash(a) ==
    /\ agent[a] # Idle
    /\ agent' = [agent EXCEPT ![a] = Idle]
    /\ UNCHANGED <<snap, files, outcomes>>

AgentStep(a) ==
    \/ LoadGraph(a)
    \/ \E uid \in ProposalUids, action \in Actions : OpenProposal(a, uid, action)
    \/ WriteSome(a)
    \/ WriteRest(a)
    \/ Return(a)
    \/ WriteFails(a)
    \/ Crash(a)

\* History: what people could have seen as a candidate.
CandidatesNow == {<<t, content[t]>> : t \in {r \in Requirements : Evaluate(r) = "Candidate"}}
Remember == candidate' = candidate \cup CandidatesNow

StoreNext ==
    /\ Remember
    /\ \/ ReviewNext /\ UNCHANGED storeVars
       \/ \E a \in Agents : AgentStep(a) /\ UNCHANGED reviewVars

StoreSpec == StoreInit /\ [][StoreNext]_allVars

-----------------------------------------------------------------------------
(* read_proposal_blocking: what a file reads back as.                      *)

Parses(f) == f.extent \in {"required", "whole"}
ReadsWhole(f) == f.extent = "whole"

\* A proposal whose append returned is on disk, whole, under its own action,
\* for ever: no later append, failure clean-up or crash of any agent touches
\* it (create_new, and clean-up removes only the file this call created).
ReturnedIsDurable ==
    \A o \in outcomes : files[o[1]] = File("whole", o[2])

\* A recorded revision is aimed at content that really was an undecided
\* candidate at the digest it names, in some state the corpus went through:
\* never at approved, rejected or stale content or at a digest nobody
\* committed, however old the agent's copy of the graph is.
RevisionsTargetCandidates ==
    \A u \in ProposalUids :
        files[u] # NoFile /\ files[u].action.kind = "revise" =>
            <<files[u].action.base, files[u].action.expected>> \in candidate

\* "A malformed or partially written proposal fails closed when read through
\* read_proposal_blocking": what parses is whole.
PartialFailsClosed ==
    \A u \in ProposalUids : Parses(files[u]) => ReadsWhole(files[u])

\* Seen by submitters and readers together, the store is a file of write-once
\* registers: what a reader has once read whole stays and stays the same, also when
\* the append that wrote it is never acknowledged, only drafts are taken back, and
\* only what is there whole is acknowledged.
Register(f) ==
    IF f = NoFile THEN [kind |-> "free"]
    ELSE [kind |-> IF ReadsWhole(f) THEN "final" ELSE "draft", value |-> f.action]

Promise == INSTANCE WriteOnce WITH Uids <- ProposalUids, Values <- Actions,
                                   registers <- [u \in ProposalUids |-> Register(files[u])],
                                   acknowledged <- outcomes

ImplementsWriteOnce == Promise!Spec
=============================================================================
