------------------------------ MODULE PdfRunner ------------------------------
(***************************************************************************)
(* The bounded extractor runner (corpus/ingest/pdf/runner.rs): a child in  *)
(* an isolated directory, two threads that drain its pipes, a loop that    *)
(* polls for its exit and kills it when the time is up.  The version probe *)
(* of the tool lock runs the same loop and threads without a directory.    *)
(***************************************************************************)
EXTENDS ChildProcess

CONSTANTS
    Cap,        \* lines of a stream an extraction accepts
    ProbeCap    \* lines of a stream the version probe keeps

ASSUME CapsAreNumbers == Cap \in Nat /\ ProbeCap \in Nat

VARIABLES
    step,       \* what the runner is doing
    job,        \* "extract" or "probe"
    late,       \* the wall-time bound has passed
    kept,       \* what the drain threads keep: [out |-> lines, err |-> number]
    drained,    \* pipes whose thread has ended
    reaped,     \* the child has been waited for
    products,   \* the entries of the directory: none, the output, too big, too many, other
    dir,        \* the isolated directory exists
    outcome     \* what the call returns

runnerVars == <<step, job, late, kept, drained, reaped, products, dir, outcome>>

Products == {"none", "output", "oversized", "two", "misplaced"}

RunnerInit ==
    /\ step = "idle" /\ job = "extract" /\ late = FALSE
    /\ kept = [out |-> <<>>, err |-> 0] /\ drained = {}
    /\ reaped = TRUE /\ products = "none" /\ dir = FALSE /\ outcome = "none"

Limit == IF job = "extract" THEN Cap ELSE ProbeCap

\* The call returns; an extraction removes its directory, or reports that it
\* could not if nothing else went wrong.
Return(result) ==
    /\ step' = "returned"
    /\ \/ dir' = FALSE /\ outcome' = result
       \/ dir /\ UNCHANGED dir /\ outcome' = IF result = "ok" THEN "cleanup" ELSE result

-----------------------------------------------------------------------------

\* reject_bare_name, create_isolated_dir, Command::spawn; a failure of any of
\* them ends the call.
StartJob(j) ==
    /\ step \in {"idle", "returned"}
    /\ job' = j /\ late' = FALSE /\ products' = "none"
    /\ kept' = [out |-> <<>>, err |-> 0] /\ drained' = {}
    /\ \/ /\ Spawn
          /\ step' = "polling" /\ reaped' = FALSE /\ dir' = (j = "extract") /\ outcome' = "none"
       \/ /\ Forget
          /\ step' = "returned" /\ reaped' = TRUE /\ dir' = FALSE /\ outcome' = "not_started"

\* What an extractor leaves in the directory while it runs.
Produce ==
    /\ job = "extract" /\ child = "running" /\ step = "polling" /\ products = "none"
    /\ products' \in Products \ {"none"}
    /\ UNCHANGED <<childVars, step, job, late, kept, drained, reaped, dir, outcome>>

\* Faulty variants: the threads keep no line beyond the bound; only standard
\* output is drained.
Drain_KeepsCap ==
    /\ \/ /\ ReadLine
          /\ kept' = [kept EXCEPT !.out = IF Len(@) < Limit THEN Append(@, Head(out)) ELSE @]
          /\ UNCHANGED drained
       \/ /\ ReadError
          /\ kept' = [kept EXCEPT !.err = IF @ < Limit THEN @ + 1 ELSE @]
          /\ UNCHANGED drained
       \/ /\ \/ drained' = drained \cup {"out"} /\ out = <<>> /\ ReaderSeesEnd
             \/ drained' = drained \cup {"err"} /\ err = 0 /\ ReaderSeesEnd
          /\ UNCHANGED <<kept, childVars>>
    /\ UNCHANGED <<step, job, late, reaped, products, dir, outcome>>
Drain_OutOnly ==
    /\ \/ /\ ReadLine
          /\ kept' = [kept EXCEPT !.out = IF Len(@) < Limit + 1 THEN Append(@, Head(out)) ELSE @]
          /\ UNCHANGED drained
       \/ /\ drained' = {"out", "err"} /\ out = <<>> /\ ReaderSeesEnd
          /\ UNCHANGED <<kept, childVars>>
    /\ UNCHANGED <<step, job, late, reaped, products, dir, outcome>>

\* drain_bounded: the threads read to the end of their pipes, whether or not
\* somebody waits for them, and keep what is within the bound and one more.
Drain ==
    /\ \/ /\ ReadLine
          /\ kept' = [kept EXCEPT !.out = IF Len(@) < Limit + 1 THEN Append(@, Head(out)) ELSE @]
          /\ UNCHANGED drained
       \/ /\ ReadError
          /\ kept' = [kept EXCEPT !.err = IF @ < Limit + 1 THEN @ + 1 ELSE @]
          /\ UNCHANGED drained
       \/ /\ \/ drained' = drained \cup {"out"} /\ out = <<>> /\ ReaderSeesEnd
             \/ drained' = drained \cup {"err"} /\ err = 0 /\ ReaderSeesEnd
          /\ UNCHANGED <<kept, childVars>>
    /\ UNCHANGED <<step, job, late, reaped, products, dir, outcome>>

Poll_NoDeadline ==
    /\ step = "polling" /\ Ended
    /\ reaped' = TRUE /\ step' = "joining"
    /\ UNCHANGED <<childVars, dir, outcome, job, late, kept, drained, products>>

\* wait_with_timeout_io: try_wait finds the child ended (and has waited for
\* it), or the time is up and it is killed and waited for.
Poll ==
    /\ step = "polling"
    /\ \/ Ended /\ reaped' = TRUE /\ step' = "joining" /\ UNCHANGED <<childVars, dir, outcome>>
       \/ ~Ended /\ late /\ Kill /\ reaped' = TRUE /\ Return("timeout")
    /\ UNCHANGED <<job, late, kept, drained, products>>

\* try_wait itself fails; only an extraction kills its child and waits for it.
PollFails ==
    /\ step = "polling"
    /\ \/ job = "extract" /\ Kill /\ reaped' = TRUE
       \/ job = "probe" /\ UNCHANGED <<childVars, reaped>>
    /\ Return("wait_failed")
    /\ UNCHANGED <<job, late, kept, drained, products>>

\* After the threads have been joined: the checks in their order.
Judgement ==
    IF job = "probe" THEN IF child = "ok" THEN "ok" ELSE "exit"
    ELSE IF Len(kept.out) > Cap \/ kept.err > Cap THEN "oversized"
    ELSE IF child # "ok" THEN "exit"
    ELSE IF products = "two" THEN "oversized"
    ELSE IF products \in {"none", "misplaced"} THEN "missing"
    ELSE IF products = "oversized" THEN "oversized"
    ELSE "ok"

Join ==
    /\ step = "joining" /\ drained = {"out", "err"}
    /\ Return(Judgement)
    /\ UNCHANGED <<childVars, job, late, kept, drained, reaped, products>>

TimePasses ==
    /\ step \in {"polling", "joining"} /\ ~late
    /\ late' = TRUE
    /\ UNCHANGED <<childVars, step, job, kept, drained, reaped, products, dir, outcome>>

RunnerNext ==
    \/ \E j \in {"extract", "probe"} : StartJob(j)
    \/ Produce \/ Drain \/ Poll \/ PollFails \/ Join \/ TimePasses
    \/ ChildStep /\ UNCHANGED runnerVars

\* The runner by itself; nothing is assumed of its scheduling.
RunnerSpec == NoChild /\ RunnerInit /\ [][RunnerNext]_<<childVars, runnerVars>>

\* The runner's clock goes on.
DeadlineComes == []<>(late \/ step # "polling")

-----------------------------------------------------------------------------
(* Properties.                                                             *)

\* "the child is always reaped": however an extraction ends, its child has ended
\* and has been waited for.  One that succeeds has all of what the child printed,
\* within the bounds, from a child that exited with 0 and is gone with its directory.
ExtractionIsComplete ==
    step = "returned" /\ job = "extract" =>
        /\ reaped /\ child # "running"
        /\ outcome = "ok" =>
            /\ child = "ok" /\ products = "output"
            /\ kept.out = written /\ Len(written) <= Cap /\ kept.err <= Cap
            /\ out = <<>> /\ err = 0
            /\ ~dir

\* A call returns once its deadline comes, if descendants of the child close the
\* pipes again (the threads are joined after a normal exit).
RunnerReturns == DeadlineComes /\ []<>~heir => (step = "polling" ~> step = "returned")
=============================================================================
