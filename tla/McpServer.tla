------------------------------ MODULE McpServer ------------------------------
(***************************************************************************)
(* The MCP server (crate evidence-mcp): one blocking version probe while   *)
(* it starts, then tool calls, each of which runs `cargo evidence <verb>`  *)
(* under a timeout and turns its exit code and standard output into an     *)
(* answer.  Calls run in tasks of their own and share nothing but the      *)
(* result of the probe, which never changes; one call at a time is enough. *)
(***************************************************************************)
EXTENDS ChildProcess, FiniteSetsExt

CONSTANT PlainText      \* the lines that are no JSON; one of them is the version

ASSUME SomeLinesArePlain == PlainText \subseteq Lines

VARIABLES
    phase,      \* what the server is doing
    expired,    \* the timeout of the probe or the call under way has passed
    got,        \* [out |-> the lines read, err |-> their number on the other pipe]
    ends,       \* pipes read to their end
    skew,       \* VersionSkew, cached by Server::new
    call,       \* the request being served
    answer      \* the response to the last request

serverVars == <<phase, expired, got, ends, skew, call, answer>>

Verbs == {"streaming", "blob"}      \* doctor, check, floors; rules, diff, context
Calls == [verb : Verbs, fallback : BOOLEAN]     \* no workspace_path given
Nobody == [verb |-> "none", fallback |-> FALSE]
NoAnswer == [success |-> FALSE, exit |-> 2, terminal |-> "none", warnings |-> {}]

ServerInit ==
    /\ phase = "new" /\ expired = FALSE
    /\ got = [out |-> <<>>, err |-> 0] /\ ends = {}
    /\ skew = "unknown"
    /\ call = Nobody /\ answer = NoAnswer

\* What the wait starts from, for the probe and for every call.
FreshRead == got' = [out |-> <<>>, err |-> 0] /\ ends' = {} /\ expired' = FALSE

TakeLine == ReadLine /\ got' = [got EXCEPT !.out = Append(@, Head(out))]
TakeError == ReadError /\ got' = [got EXCEPT !.err = @ + 1]
AtEnd(pipe) == ReaderSeesEnd /\ IF pipe = "out" THEN out = <<>> ELSE err = 0

-----------------------------------------------------------------------------
(* probe_cli_version and wait_with_timeout.                                *)

SpawnProbe ==
    /\ phase = "new"
    /\ \/ /\ Spawn /\ FreshRead /\ phase' = "probing" /\ UNCHANGED skew
       \/ /\ Forget /\ UNCHANGED <<got, ends, expired>>
          /\ phase' = "ready" /\ skew' = "probe_failed"
    /\ UNCHANGED <<call, answer>>

\* Faulty variant: the deadline is checked only when the child has ended.
PollProbe_NoKill ==
    /\ phase = "probing"
    /\ Ended /\ phase' = (IF expired THEN "ready" ELSE "reading")
    /\ UNCHANGED <<childVars, skew, expired, got, ends, call, answer>>

\* wait_with_timeout: try_wait until the child has ended or the deadline has
\* passed; the pipes are not looked at while it runs.
PollProbe ==
    /\ phase = "probing"
    /\ \/ Ended /\ phase' = "reading" /\ UNCHANGED <<childVars, skew>>
       \/ ~Ended /\ expired /\ Kill /\ phase' = "ready" /\ skew' = "probe_failed"
    /\ UNCHANGED <<expired, got, ends, call, answer>>

\* try_wait itself fails: the probe ends and leaves the child alone.
PollProbeFails ==
    /\ phase = "probing" /\ phase' = "ready" /\ skew' = "probe_failed"
    /\ UNCHANGED <<childVars, expired, got, ends, call, answer>>

\* read_to_end of one pipe and then of the other, without a bound.
ReadProbe ==
    /\ phase = "reading"
    /\ \/ "out" \notin ends /\ TakeLine /\ UNCHANGED ends
       \/ "out" \notin ends /\ AtEnd("out") /\ ends' = {"out"} /\ UNCHANGED <<got, childVars>>
       \/ "out" \in ends /\ TakeError /\ UNCHANGED ends
       \/ "out" \in ends /\ AtEnd("err") /\ ends' = {"out", "err"} /\ UNCHANGED <<got, childVars>>
    /\ UNCHANGED <<phase, expired, skew, call, answer>>

\* The version is the last word of the first line that is not blank.
JudgeProbe ==
    /\ phase = "reading" /\ ends = {"out", "err"}
    /\ skew' = IF child # "ok" \/ got.out = <<>> THEN "probe_failed"
               ELSE IF Head(got.out) \in PlainText THEN "matched"
               ELSE "skewed"
    /\ phase' = "ready"
    /\ UNCHANGED <<childVars, expired, got, ends, call, answer>>

-----------------------------------------------------------------------------
(* The answer.                                                             *)

SkewWarning == IF skew = "matched" THEN {} ELSE {skew}
Warnings(c) == SkewWarning \cup (IF c.fallback THEN {"workspace_fallback"} ELSE {})

\* parse_jsonl: every line that carries a code, and every line that is no JSON,
\* sets the terminal, and the last one counts.
Terminal(lines) ==
    LET coded == {i \in DOMAIN lines : lines[i] # "uncoded"}
    IN IF lines = <<>> THEN "MCP_NO_OUTPUT"
       ELSE IF coded = {} THEN ""
       ELSE IF lines[Max(coded)] \in PlainText THEN "MCP_MALFORMED_JSONL"
       ELSE lines[Max(coded)]

\* serde_json::from_slice over all of the output: one value and nothing else.
IsOneValue(lines) == Len(lines) = 1 /\ lines[1] \notin PlainText

ExitCode == IF child = "ok" THEN 0 ELSE IF child = "failed" THEN 1 ELSE -1

StreamingAnswer ==
    [success |-> ExitCode = 0 /\ Terminal(got.out) = "VERIFY_OK",
     exit |-> ExitCode, terminal |-> Terminal(got.out), warnings |-> Warnings(call)]

BlobAnswer ==
    IF IsOneValue(got.out)
    THEN [success |-> ExitCode = 0, exit |-> ExitCode, terminal |-> "none",
          warnings |-> Warnings(call)]
    ELSE [success |-> FALSE, exit |-> 2, terminal |-> "MCP_MALFORMED_JSONL",
          warnings |-> Warnings(call)]

ErrorAnswer(c, code) == [success |-> FALSE, exit |-> 2, terminal |-> code, warnings |-> Warnings(c)]

-----------------------------------------------------------------------------
(* A tool call.                                                            *)

\* The request is refused, the child cannot be spawned, or it runs.
StartCall(c) ==
    /\ phase = "ready"
    /\ \/ Spawn /\ FreshRead /\ phase' = "running" /\ call' = c /\ answer' = NoAnswer
       \/ /\ \/ \E code \in {"MCP_CARGO_NOT_FOUND", "MCP_SUBPROCESS_SPAWN_FAILED"} :
                    answer' = ErrorAnswer(c, code)
             \/ answer' = NoAnswer
          /\ Forget /\ UNCHANGED <<phase, got, ends, expired>> /\ call' = Nobody
    /\ UNCHANGED skew

\* Command::output reads both pipes to their ends at the same time.
Collect ==
    /\ phase = "running"
    /\ \/ TakeLine /\ UNCHANGED ends
       \/ TakeError /\ UNCHANGED ends
       \/ \E pipe \in {"out", "err"} \ ends :
            AtEnd(pipe) /\ ends' = ends \cup {pipe} /\ UNCHANGED <<got, childVars>>
    /\ UNCHANGED <<phase, expired, skew, call, answer>>

Finished == Ended /\ ends = {"out", "err"}

\* Faulty variant: the answer does not wait for the ends of the pipes.
Answer_Early ==
    /\ phase = "running" /\ Ended
    /\ answer' = IF call.verb = "streaming" THEN StreamingAnswer ELSE BlobAnswer
    /\ phase' = "ready" /\ call' = Nobody
    /\ UNCHANGED <<childVars, expired, got, ends, skew>>

Answer ==
    /\ phase = "running" /\ Finished
    /\ answer' = IF call.verb = "streaming" THEN StreamingAnswer ELSE BlobAnswer
    /\ phase' = "ready" /\ call' = Nobody
    /\ UNCHANGED <<childVars, expired, got, ends, skew>>

\* Faulty variant: the timeout is given up when something has been read.
TimeOut_OnlyIfSilent ==
    /\ phase = "running" /\ expired /\ ~Finished /\ got.out = <<>>
    /\ answer' = ErrorAnswer(call, "MCP_SUBPROCESS_TIMEOUT")
    /\ Kill
    /\ phase' = "ready" /\ call' = Nobody
    /\ UNCHANGED <<expired, got, ends, skew>>

\* tokio's timeout looks at the future first; dropping it kills the child and
\* discards what has been read.
TimeOut ==
    /\ phase = "running" /\ expired /\ ~Finished
    /\ answer' = ErrorAnswer(call, "MCP_SUBPROCESS_TIMEOUT")
    /\ Kill
    /\ phase' = "ready" /\ call' = Nobody
    /\ UNCHANGED <<expired, got, ends, skew>>

-----------------------------------------------------------------------------

\* Once the timeout has passed it has passed.
Tick ==
    /\ phase \in {"probing", "reading", "running"} /\ ~expired
    /\ expired' = TRUE
    /\ UNCHANGED <<childVars, phase, got, ends, skew, call, answer>>

\* The steps the server takes of itself, when it can.
ServerWorks ==
    \/ SpawnProbe \/ PollProbe \/ ReadProbe \/ JudgeProbe
    \/ Collect \/ Answer \/ TimeOut

ServerNext ==
    \/ ServerWorks \/ PollProbeFails \/ Tick
    \/ \E c \in Calls : StartCall(c)
    \/ ChildStep /\ UNCHANGED serverVars

\* The server by itself; nothing is assumed of its scheduling.
ServerSpec == NoChild /\ ServerInit /\ [][ServerNext]_<<childVars, serverVars>>

\* The timeouts fall due: tokio's timer and the probe's clock go on.
TimeGoesOn == []<>(expired \/ phase \notin {"probing", "reading", "running"})

-----------------------------------------------------------------------------
(* Properties.                                                             *)

\* A streaming call succeeds only on the whole of what its child has written:
\* the child exited with 0, nothing it wrote is missing, and the last coded line
\* is the OK terminal (no success from a stream cut short by the timeout).  What
\* stood before that line is MalformedStaysTerminal's.
SuccessIsOfTheWholeStream ==
    phase = "ready" /\ answer.success /\ answer.terminal = "VERIFY_OK" =>
        /\ child = "ok" /\ todo = [out |-> 0, err |-> 0]
        /\ got.out = written
        /\ \E i \in DOMAIN written :
            /\ written[i] = "VERIFY_OK"
            /\ \A j \in DOMAIN written : j > i => written[j] = "uncoded"

\* What parse_jsonl says of itself: "an un-parseable line is replaced with a
\* synthesized MCP_MALFORMED_JSONL marker and the terminal stays
\* MCP_MALFORMED_JSONL for the rest of the stream" (subprocess.rs:225-228), so that
\* no answer to a streaming call has a terminal of the child's own when a line of
\* its output could not be parsed.
MalformedStaysTerminal ==
    phase = "ready" /\ answer.terminal \in Lines =>
        \A i \in DOMAIN got.out : got.out[i] \notin PlainText

\* Every call is answered once its timeout falls due, whatever the child does: it
\* may hang, fill a pipe, or leave a descendant that keeps the pipes open
\* (run_evidence: timeout around output(), kill_on_drop).
EveryCallIsAnswered == TimeGoesOn => (phase = "running" ~> phase = "ready")

\* The server comes up although nobody reads the pipes of a probe that runs, if
\* descendants of the child close them again: it reads them to their ends
\* without a bound (wait_with_timeout).
ServerComesUp == TimeGoesOn /\ []<>~heir => (phase = "probing" ~> phase = "ready")
=============================================================================
