---------------------------- MODULE Runners_proofs ----------------------------
(***************************************************************************)
(* Neither parent of a child process takes a part of its output for the    *)
(* whole: proofs that an answer of the MCP server that reports success,    *)
(* and a result of the extractor runner, rest on everything the child      *)
(* wrote, for any bound on the lines, the pipes and the caps.              *)
(***************************************************************************)
EXTENDS McpServer, PdfRunner, FiniteSetTheorems, WellFoundedInduction, TLAPS

\* The last of finitely many indices exists (the last coded line of a stream).
LEMMA LastOfFinite ==
  ASSUME NEW S \in SUBSET Nat, IsFiniteSet(S), S # {}
  PROVE  Max(S) \in S /\ \A x \in S : Max(S) >= x
<1> DEFINE HasLast(X) == \E x \in X : \A y \in X : x >= y
           bad == {X \in SUBSET S : X # {} /\ ~HasLast(X)}
<1>1. ASSUME bad # {}
      PROVE  FALSE
  <2>1. bad \subseteq FiniteSubsetsOf(S)
    BY FS_Subset DEF FiniteSubsetsOf
  <2>2. IsWellFoundedOn(StrictSubsetOrdering(S), FiniteSubsetsOf(S))
    BY FS_StrictSubsetOrderingWellFounded
  <2> HIDE DEF bad
  <2>3. PICK X \in bad : \A Y \in bad : <<Y, X>> \notin StrictSubsetOrdering(S)
    BY <1>1, <2>1, <2>2, WFMin
  <2> USE DEF bad
  <2>4. PICK x \in X : TRUE
    OBVIOUS
  <2>5. <<X \ {x}, X>> \in StrictSubsetOrdering(S)
    BY <2>4 DEF StrictSubsetOrdering
  <2>6. X \ {x} \notin bad
    BY <2>3, <2>5
  <2>7. CASE X \ {x} = {}
    <3>1. \A y \in X : x >= y
      BY <2>4, <2>7
    <3>2. QED
      BY <2>4, <3>1
  <2>8. CASE HasLast(X \ {x})
    <3>1. PICK m \in X \ {x} : \A y \in X \ {x} : m >= y
      BY <2>8
    <3>2. m \in Nat /\ x \in Nat
      BY <2>4, <3>1
    <3>3. CASE m >= x
      BY <3>1, <3>3
    <3>4. CASE x >= m
      <4>1. \A y \in X : x >= y
        BY <3>1, <3>2, <3>4
      <4>2. QED
        BY <2>4, <4>1
    <3>5. QED
      BY <3>2, <3>3, <3>4
  <2>9. QED
    BY <2>6, <2>7, <2>8
<1>2. HasLast(S)
  BY <1>1
<1>3. QED
  BY <1>2 DEF Max

-----------------------------------------------------------------------------
(* The child.                                                              *)

\* Nothing is lost in a pipe: `read` is what its reader has taken so far.
Accounted(read) == read \o out = written

ChildInv ==
    /\ child \in {"none", "running", "ok", "failed", "signal"}
    /\ out \in Seq(Lines) /\ written \in Seq(Lines) /\ err \in Nat
    /\ child \in {"ok", "failed"} => todo = [out |-> 0, err |-> 0]

\* Moving the first line from the pipe to its reader.
LEMMA MoveLine ==
  ASSUME NEW s \in Seq(Lines), NEW t \in Seq(Lines), t # <<>>
  PROVE  /\ Append(s, Head(t)) \in Seq(Lines) /\ Tail(t) \in Seq(Lines)
         /\ Append(s, Head(t)) \o Tail(t) = s \o t
         /\ Len(Append(s, Head(t))) = Len(s) + 1
OBVIOUS

LEMMA AddLine ==
  ASSUME NEW s \in Seq(Lines), NEW t \in Seq(Lines), NEW l \in Lines
  PROVE  s \o Append(t, l) = Append(s \o t, l)
OBVIOUS

\* What the child does of itself: a pipe that is empty when the child has ended
\* stays so, and what is accounted for stays accounted for.
LEMMA ChildStepKeeps ==
  ASSUME ChildInv, ChildStep
  PROVE  /\ ChildInv'
         /\ \A read \in Seq(Lines) : Accounted(read) => Accounted(read)'
         /\ Ended => UNCHANGED <<child, todo, out, err, written>>
<1>1. CASE WriteLine
  <2>1. PICK l \in Lines : out' = Append(out, l) /\ written' = Append(written, l)
    BY <1>1 DEF WriteLine
  <2>2. \A read \in Seq(Lines) : Accounted(read) => Accounted(read)'
    BY <2>1, AddLine DEF Accounted, ChildInv
  <2>3. ChildInv'
    BY <1>1, <2>1 DEF ChildInv, WriteLine
  <2>4. ~Ended
    BY <1>1 DEF WriteLine, Ended
  <2>5. QED
    BY <2>2, <2>3, <2>4
<1>2. CASE Complain
  BY <1>2 DEF Complain, ChildInv, Accounted, Ended
<1>3. CASE LeaveHeir \/ HeirCloses
  BY <1>3 DEF LeaveHeir, HeirCloses, ChildInv, Accounted
<1>4. CASE Exit
  BY <1>4 DEF Exit, ChildInv, Accounted, Ended
<1>5. QED
  BY <1>1, <1>2, <1>3, <1>4 DEF ChildStep

LEMMA ParentKeeps ==
  ASSUME ChildInv, ReadLine \/ ReadError \/ Kill \/ Spawn \/ Forget \/ UNCHANGED childVars
  PROVE  ChildInv'
<1>1. CASE ReadLine
  BY <1>1, MoveLine DEF ReadLine, ChildInv
<1>2. CASE ReadError
  BY <1>2 DEF ReadError, ChildInv
<1>3. CASE Kill
  BY <1>3 DEF Kill, ChildInv
<1>4. CASE Spawn \/ Forget
  <2>1. child' \in {"running", "none"} /\ out' = <<>> /\ err' = 0 /\ written' = <<>>
    BY <1>4 DEF Spawn, Forget
  <2>2. QED
    BY <2>1 DEF ChildInv
<1>5. CASE UNCHANGED childVars
  BY <1>5 DEF childVars, ChildInv
<1>6. QED
  BY <1>1, <1>2, <1>3, <1>4, <1>5

-----------------------------------------------------------------------------
(* The server.                                                             *)

\* What has been read and what lies in the pipe is what was written, for as long
\* as a child is waited for; a pipe read to its end stays empty; there is no
\* success without an answer.
ServerInv ==
    /\ ChildInv
    /\ got \in [out : Seq(Lines), err : Nat]
    /\ phase \in {"probing", "reading", "running"} => Accounted(got.out)
    /\ phase = "running" /\ "out" \in ends => out = <<>> /\ Ended
    /\ phase # "ready" => answer.success = FALSE
    /\ SuccessIsOfTheWholeStream

\* parse_jsonl takes the last coded line.
LEMMA TerminalIsLast ==
  ASSUME NEW lines \in Seq(Lines), Terminal(lines) = "VERIFY_OK"
  PROVE  \E i \in DOMAIN lines :
            lines[i] = "VERIFY_OK" /\ \A j \in DOMAIN lines : j > i => lines[j] = "uncoded"
<1> DEFINE coded == {i \in DOMAIN lines : lines[i] # "uncoded"}
           last == Max(coded)
<1>1. coded # {} /\ lines[last] = "VERIFY_OK"
  BY DEF Terminal
<1>2. coded \in SUBSET Nat /\ IsFiniteSet(coded)
  <2>1. Len(lines) \in Nat /\ DOMAIN lines = 1..Len(lines)
    OBVIOUS
  <2>2. IsFiniteSet(1..Len(lines))
    BY <2>1, FS_Interval
  <2>3. QED
    BY <2>1, <2>2, FS_Subset
<1> HIDE DEF coded
<1>3. last \in coded /\ \A x \in coded : last >= x
  BY <1>1, <1>2, LastOfFinite
<1> USE DEF coded
<1>4. \A j \in DOMAIN lines : j > last => lines[j] = "uncoded"
  <2> SUFFICES ASSUME NEW j \in DOMAIN lines, j > last, lines[j] # "uncoded"
               PROVE  FALSE
    OBVIOUS
  <2>1. j \in coded
    OBVIOUS
  <2> HIDE DEF coded
  <2>2. last >= j /\ last \in Nat /\ j \in Nat
    BY <1>2, <1>3, <2>1
  <2> HIDE DEF last
  <2>3. QED
    BY <2>2
<1>5. QED
  BY <1>1, <1>3, <1>4

\* A line taken from the pipe by TakeLine, a number by TakeError.
LEMMA TakeKeeps ==
  ASSUME ChildInv, got \in [out : Seq(Lines), err : Nat], TakeLine \/ TakeError
  PROVE  /\ ChildInv' /\ got' \in [out : Seq(Lines), err : Nat]
         /\ Accounted(got.out) => Accounted(got.out)'
         /\ out = <<>> => out' = <<>>
         /\ UNCHANGED child
<1>1. CASE TakeLine
  <2>1. /\ out # <<>> /\ out' = Tail(out) /\ UNCHANGED <<child, written>>
        /\ got' = [got EXCEPT !.out = Append(got.out, Head(out))]
    BY <1>1 DEF TakeLine, ReadLine
  <2>2. ChildInv'
    BY <1>1, ParentKeeps DEF TakeLine
  <2>3. got'.out = Append(got.out, Head(out)) /\ got' \in [out : Seq(Lines), err : Nat]
    BY <2>1, MoveLine DEF ChildInv
  <2>4. Append(got.out, Head(out)) \o Tail(out) = got.out \o out
    BY <2>1, MoveLine DEF ChildInv
  <2>5. QED
    BY <2>1, <2>2, <2>3, <2>4 DEF Accounted
<1>2. CASE TakeError
  <2>1. ChildInv' /\ UNCHANGED <<child, out, written>> /\ got' = [got EXCEPT !.err = got.err + 1]
    BY <1>2, ParentKeeps DEF TakeError, ReadError
  <2>2. got'.out = got.out /\ got' \in [out : Seq(Lines), err : Nat]
    BY <2>1
  <2>3. QED
    BY <2>1, <2>2 DEF Accounted
<1>3. QED
  BY <1>1, <1>2

\* An answer that says VERIFY_OK rests on all that was written.
LEMMA AnswerIsOfTheWhole ==
  ASSUME ServerInv, Answer, answer'.success, answer'.terminal = "VERIFY_OK"
  PROVE  /\ child = "ok" /\ got.out = written
         /\ \E i \in DOMAIN written :
               written[i] = "VERIFY_OK" /\ \A j \in DOMAIN written : j > i => written[j] = "uncoded"
<1>1. phase = "running" /\ "out" \in ends /\ answer' \in {StreamingAnswer, BlobAnswer}
  BY DEF Answer, Finished
<1>2. BlobAnswer.terminal # "VERIFY_OK"
  BY DEF BlobAnswer
<1>3. answer' = StreamingAnswer
  BY <1>1, <1>2
<1>4. ExitCode = 0 /\ Terminal(got.out) = "VERIFY_OK"
  BY <1>3 DEF StreamingAnswer
<1>5. child = "ok"
  BY <1>4 DEF ExitCode
<1>6. got.out \in Seq(Lines) /\ got.out \o out = written /\ out = <<>>
  BY <1>1 DEF ServerInv, Accounted
<1>7. got.out = written
  BY <1>6
<1>8. QED
  BY <1>4, <1>5, <1>6, <1>7, TerminalIsLast

LEMMA ServerInvNext == ServerInv /\ [ServerNext]_<<childVars, serverVars>> => ServerInv'
<1> SUFFICES ASSUME ServerInv, [ServerNext]_<<childVars, serverVars>>
             PROVE  ServerInv'
  OBVIOUS
<1> USE DEF serverVars, NoAnswer, ErrorAnswer
<1>1. CASE SpawnProbe
  <2>1. ChildInv'
    BY <1>1, ParentKeeps DEF SpawnProbe, ServerInv
  <2>2. UNCHANGED answer /\ answer.success = FALSE
    BY <1>1 DEF SpawnProbe, ServerInv
  <2>3. CASE Spawn /\ FreshRead /\ phase' = "probing"
    BY <2>1, <2>2, <2>3 DEF ServerInv, Spawn, FreshRead, Accounted, SuccessIsOfTheWholeStream
  <2>4. CASE UNCHANGED got /\ phase' = "ready"
    BY <2>1, <2>2, <2>4 DEF ServerInv, SuccessIsOfTheWholeStream
  <2>5. QED
    BY <1>1, <2>3, <2>4 DEF SpawnProbe
<1>2. CASE PollProbe \/ PollProbeFails \/ JudgeProbe
  <2>1. ChildInv'
    BY <1>2, ParentKeeps DEF PollProbe, PollProbeFails, JudgeProbe, ServerInv
  <2>2. /\ UNCHANGED <<got, ends, answer, out, written>> /\ phase' \in {"reading", "ready"}
        /\ phase \in {"probing", "reading"}
    BY <1>2 DEF PollProbe, PollProbeFails, JudgeProbe, childVars, Kill
  <2>3. QED
    BY <2>1, <2>2 DEF ServerInv, Accounted, SuccessIsOfTheWholeStream
<1>3. CASE ReadProbe
  <2>1. UNCHANGED <<phase, answer>> /\ phase = "reading"
    BY <1>3 DEF ReadProbe
  <2>2. ChildInv' /\ got' \in [out : Seq(Lines), err : Nat] /\ Accounted(got.out)'
    <3>1. CASE TakeLine \/ TakeError
      BY <2>1, <3>1, TakeKeeps DEF ServerInv
    <3>2. CASE UNCHANGED <<got, childVars>>
      BY <2>1, <3>2, ParentKeeps DEF ServerInv, childVars, Accounted
    <3>3. QED
      BY <1>3, <3>1, <3>2 DEF ReadProbe
  <2>3. QED
    BY <2>1, <2>2 DEF ServerInv, SuccessIsOfTheWholeStream
<1>4. CASE Collect
  <2>1. UNCHANGED <<phase, answer>> /\ phase = "running"
    BY <1>4 DEF Collect
  <2>2. /\ ChildInv' /\ got' \in [out : Seq(Lines), err : Nat] /\ Accounted(got.out)'
        /\ "out" \in ends' => out' = <<>> /\ Ended'
    <3>1. CASE (TakeLine \/ TakeError) /\ UNCHANGED ends
      BY <2>1, <3>1, TakeKeeps DEF ServerInv, Ended
    <3>2. CASE \E pipe \in {"out", "err"} \ ends :
                 AtEnd(pipe) /\ ends' = ends \cup {pipe} /\ UNCHANGED <<got, childVars>>
      BY <2>1, <3>2, ParentKeeps DEF ServerInv, childVars, Accounted, AtEnd, ReaderSeesEnd, Ended
    <3>3. QED
      BY <1>4, <3>1, <3>2 DEF Collect
  <2>3. QED
    BY <2>1, <2>2 DEF ServerInv, SuccessIsOfTheWholeStream
<1>5. CASE Answer
  <2>1. UNCHANGED <<childVars, got>> /\ phase' = "ready"
    BY <1>5 DEF Answer
  <2>2. SuccessIsOfTheWholeStream'
    BY <1>5, <2>1, AnswerIsOfTheWhole DEF ServerInv, ChildInv, SuccessIsOfTheWholeStream, childVars
  <2>3. QED
    BY <2>1, <2>2, ParentKeeps DEF ServerInv
<1>6. CASE TimeOut
  <2>1. UNCHANGED got /\ phase' = "ready" /\ answer'.success = FALSE /\ ChildInv'
    BY <1>6, ParentKeeps DEF TimeOut, ServerInv
  <2>2. QED
    BY <2>1 DEF ServerInv, SuccessIsOfTheWholeStream
<1>7. CASE Tick
  BY <1>7, ParentKeeps DEF Tick, ServerInv, Accounted, Ended, childVars, SuccessIsOfTheWholeStream
<1>8. ASSUME NEW c \in Calls, StartCall(c)
      PROVE  ServerInv'
  <2>1. answer'.success = FALSE /\ ChildInv'
    BY <1>8, ParentKeeps DEF StartCall, ServerInv
  <2>2. CASE Spawn /\ FreshRead /\ phase' = "running"
    BY <2>1, <2>2 DEF ServerInv, Spawn, FreshRead, Accounted, SuccessIsOfTheWholeStream
  <2>3. CASE UNCHANGED <<phase, got>> /\ phase = "ready"
    BY <2>1, <2>3 DEF ServerInv, SuccessIsOfTheWholeStream
  <2>4. QED
    BY <1>8, <2>2, <2>3 DEF StartCall
<1>9. CASE ChildStep /\ UNCHANGED serverVars
  <2>1. ChildInv' /\ (Accounted(got.out) => Accounted(got.out)')
    BY <1>9, ChildStepKeeps DEF ServerInv, Accounted
  <2>2. Ended => UNCHANGED <<child, todo, out, err, written>>
    BY <1>9, ChildStepKeeps DEF ServerInv
  <2>3. SuccessIsOfTheWholeStream'
    BY <1>9, <2>2 DEF ServerInv, SuccessIsOfTheWholeStream, Ended
  <2>4. QED
    BY <1>9, <2>1, <2>2, <2>3 DEF ServerInv, Ended
<1>10. CASE UNCHANGED <<childVars, serverVars>>
  BY <1>10, ParentKeeps DEF ServerInv, Accounted, Ended, childVars, SuccessIsOfTheWholeStream
<1>11. QED
  BY <1>1, <1>2, <1>3, <1>4, <1>5, <1>6, <1>7, <1>8, <1>9, <1>10 DEF ServerNext, ServerWorks

\* A streaming tool call reports success only on the whole of what its child wrote,
\* ending in the OK terminal, whatever the child, its descendants and the timeout
\* do (run_evidence, parse_jsonl): for any bound on lines and pipes.
THEOREM SuccessIsWhole == ServerSpec => []SuccessIsOfTheWholeStream
<1>1. NoChild /\ ServerInit => ServerInv
  BY DEF NoChild, ServerInit, NoAnswer, ServerInv, ChildInv, SuccessIsOfTheWholeStream
<1>2. ServerInv => SuccessIsOfTheWholeStream
  BY DEF ServerInv
<1>3. QED
  BY <1>1, <1>2, ServerInvNext, PTL DEF ServerSpec

-----------------------------------------------------------------------------
(* The extractor runner.                                                   *)

\* A child that is down stays as it is; only a descendant may still close pipes.
LEMMA ChildStaysDown ==
  ASSUME ChildStep, child # "running"
  PROVE  UNCHANGED <<child, todo, out, err, written>>
BY DEF ChildStep, WriteLine, Complain, LeaveHeir, HeirCloses, Exit

\* Within the bound nothing is dropped; a thread that has ended has read all there
\* will be; whoever joins has waited for the child.
RunnerInv ==
    /\ ChildInv
    /\ kept \in [out : Seq(Lines), err : Nat]
    /\ step \in {"idle", "polling", "joining", "returned"} /\ job \in {"extract", "probe"}
    /\ products \in Products
    /\ Len(kept.out) <= Limit => Accounted(kept.out)
    /\ "out" \in drained => out = <<>> /\ Ended
    /\ "err" \in drained => err = 0 /\ Ended
    /\ step = "joining" => reaped /\ Ended
    /\ ExtractionIsComplete

LEMMA LimitIsNumber == Limit \in Nat
BY CapsAreNumbers DEF Limit

\* A step of a drain thread.
LEMMA DrainKeeps == RunnerInv /\ Drain => RunnerInv'
<1> SUFFICES ASSUME RunnerInv, Drain PROVE RunnerInv'
  OBVIOUS
<1> USE LimitIsNumber
<1>1. UNCHANGED <<step, job, late, reaped, products, dir, outcome, child, written>> /\ Limit' = Limit
  BY DEF Drain, ReadLine, ReadError, childVars, Limit
<1>2. CASE ReadLine /\ UNCHANGED drained
           /\ kept' = [kept EXCEPT !.out = IF Len(kept.out) < Limit + 1
                                           THEN Append(kept.out, Head(out)) ELSE kept.out]
  <2>1. out # <<>> /\ out' = Tail(out) /\ UNCHANGED err /\ ChildInv'
    BY <1>2, ParentKeeps DEF ReadLine, RunnerInv
  <2>2. /\ Append(kept.out, Head(out)) \in Seq(Lines)
        /\ Append(kept.out, Head(out)) \o Tail(out) = kept.out \o out
        /\ Len(Append(kept.out, Head(out))) = Len(kept.out) + 1
    BY <2>1, MoveLine DEF RunnerInv, ChildInv
  <2>3. kept' \in [out : Seq(Lines), err : Nat]
    BY <1>2, <2>2 DEF RunnerInv
  <2>4. Len(kept'.out) <= Limit => kept'.out \o out' = written
    <3>1. SUFFICES ASSUME Len(kept'.out) <= Limit PROVE kept'.out \o out' = written
      OBVIOUS
    <3>2. Len(kept.out) \in Nat
      BY DEF RunnerInv
    <3>3. kept'.out = Append(kept.out, Head(out)) /\ Len(kept.out) <= Limit
      BY <1>2, <2>2, <3>1, <3>2 DEF RunnerInv
    <3>4. QED
      BY <2>1, <2>2, <3>3 DEF RunnerInv, Accounted
  <2>5. "out" \notin drained /\ ~(out = <<>>)
    BY <2>1 DEF RunnerInv
  <2>6. ExtractionIsComplete'
    BY <1>1, <2>1 DEF RunnerInv, ExtractionIsComplete
  <2>7. QED
    BY <1>1, <1>2, <2>1, <2>3, <2>4, <2>5, <2>6 DEF RunnerInv, Accounted, Ended
<1>3. CASE ReadError /\ UNCHANGED drained
           /\ kept' = [kept EXCEPT !.err = IF kept.err < Limit + 1 THEN kept.err + 1 ELSE kept.err]
  <2>1. err # 0 /\ UNCHANGED out /\ ChildInv'
    BY <1>3, ParentKeeps DEF ReadError, RunnerInv
  <2>2. kept' \in [out : Seq(Lines), err : Nat] /\ kept'.out = kept.out
    BY <1>3 DEF RunnerInv
  <2>3. ExtractionIsComplete'
    BY <1>1, <2>1 DEF RunnerInv, ExtractionIsComplete
  <2>4. QED
    BY <1>1, <1>3, <2>1, <2>2, <2>3 DEF RunnerInv, Accounted, Ended
<1>4. CASE /\ \/ drained' = drained \cup {"out"} /\ out = <<>> /\ ReaderSeesEnd
              \/ drained' = drained \cup {"err"} /\ err = 0 /\ ReaderSeesEnd
           /\ UNCHANGED <<kept, childVars>>
  <2>1. ChildInv' /\ UNCHANGED <<out, err>>
    BY <1>4, ParentKeeps DEF RunnerInv, childVars
  <2>2. ExtractionIsComplete'
    BY <1>1, <1>4, <2>1 DEF RunnerInv, ExtractionIsComplete
  <2>3. QED
    BY <1>1, <1>4, <2>1, <2>2 DEF RunnerInv, Accounted, ReaderSeesEnd, Ended
<1>5. QED
  BY <1>2, <1>3, <1>4 DEF Drain

\* The checks after the threads have been joined pass only on all of the output.
LEMMA JoinKeeps == RunnerInv /\ Join => RunnerInv'
<1> SUFFICES ASSUME RunnerInv, Join PROVE RunnerInv'
  OBVIOUS
<1> USE LimitIsNumber, CapsAreNumbers
<1>1. /\ UNCHANGED <<childVars, job, kept, drained, reaped, products>> /\ step' = "returned"
      /\ step = "joining" /\ drained = {"out", "err"}
      /\ outcome' = "ok" => Judgement = "ok" /\ dir' = FALSE
  BY DEF Join, Return
<1>2. reaped /\ Ended /\ out = <<>> /\ err = 0
  BY <1>1 DEF RunnerInv
<1>3. ASSUME job = "extract", Judgement = "ok"
      PROVE  /\ Len(kept.out) <= Cap /\ kept.err <= Cap /\ child = "ok" /\ products = "output"
             /\ kept.out = written
  <2>1. /\ ~(Len(kept.out) > Cap) /\ ~(kept.err > Cap) /\ child = "ok"
        /\ products \notin {"two", "none", "misplaced", "oversized"}
    BY <1>3 DEF Judgement
  <2>p. products = "output"
    BY <2>1 DEF RunnerInv, Products
  <2>2. Len(kept.out) \in Nat /\ kept.err \in Nat
    BY DEF RunnerInv
  <2>3. kept.out \o out = written
    BY <1>3, <2>1, <2>2 DEF RunnerInv, Limit, Accounted
  <2>4. kept.out = written
    BY <1>2, <2>3 DEF RunnerInv
  <2>5. QED
    BY <1>3, <2>1, <2>2, <2>4, <2>p
<1>4. ExtractionIsComplete'
  BY <1>1, <1>2, <1>3 DEF ExtractionIsComplete, Ended, childVars
<1>5. QED
  BY <1>1, <1>2, <1>4, ParentKeeps DEF RunnerInv, Accounted, Limit, Ended, childVars
LEMMA RunnerInvNext == RunnerInv /\ [RunnerNext]_<<childVars, runnerVars>> => RunnerInv'
<1> SUFFICES ASSUME RunnerInv, [RunnerNext]_<<childVars, runnerVars>>
             PROVE  RunnerInv'
  OBVIOUS
<1> USE LimitIsNumber
<1>1. ASSUME NEW j \in {"extract", "probe"}, StartJob(j)
      PROVE  RunnerInv'
  <2>1. /\ ChildInv' /\ kept' = [out |-> <<>>, err |-> 0] /\ drained' = {} /\ job' = j
        /\ products' = "none" /\ out' = <<>> /\ written' = <<>>
    BY <1>1, ParentKeeps DEF StartJob, Spawn, Forget, RunnerInv
  <2>2. ExtractionIsComplete' /\ step' \in {"polling", "returned"}
    BY <1>1 DEF StartJob, Forget, ExtractionIsComplete
  <2>3. QED
    BY <2>1, <2>2 DEF RunnerInv, Accounted, Products
<1>2. CASE Produce
  <2>1. ChildInv' /\ UNCHANGED <<child, out, err, written>>
    BY <1>2, ParentKeeps DEF Produce, RunnerInv, childVars
  <2>2. QED
    BY <1>2, <2>1 DEF Produce, RunnerInv, Accounted, Limit, Ended, ExtractionIsComplete
<1>3. CASE Drain
  BY <1>3, DrainKeeps
<1>4. CASE Poll
  <2>1. ChildInv' /\ UNCHANGED <<out, err, written, job, kept, drained, products>> /\ step = "polling"
    BY <1>4, ParentKeeps DEF Poll, RunnerInv, childVars, Kill
  <2>2. CASE Ended /\ reaped' = TRUE /\ step' = "joining" /\ UNCHANGED childVars
    BY <2>1, <2>2 DEF RunnerInv, Accounted, Limit, Ended, ExtractionIsComplete, childVars
  <2>3. CASE ~Ended /\ Kill /\ reaped' = TRUE /\ Return("timeout")
    <3>1. step' = "returned" /\ outcome' # "ok" /\ child' # "running"
      BY <2>3 DEF Return, Kill
    <3>2. QED
      BY <2>1, <2>3, <3>1 DEF RunnerInv, Accounted, Limit, Ended, ExtractionIsComplete
  <2>4. QED
    BY <1>4, <2>2, <2>3 DEF Poll
<1>5. CASE PollFails
  <2>1. /\ ChildInv' /\ UNCHANGED <<out, err, written, job, kept, drained, products>>
        /\ step' = "returned" /\ outcome' # "ok"
    BY <1>5, ParentKeeps DEF PollFails, RunnerInv, childVars, Kill, Return
  <2>2. Ended => UNCHANGED child
    BY <1>5 DEF PollFails, Kill, Ended, childVars
  <2>3. job = "extract" => reaped' /\ child' # "running"
    BY <1>5 DEF PollFails, Kill
  <2>4. QED
    BY <2>1, <2>2, <2>3 DEF RunnerInv, Accounted, Limit, Ended, ExtractionIsComplete
<1>6. CASE Join
  BY <1>6, JoinKeeps
<1>7. CASE TimePasses \/ UNCHANGED <<childVars, runnerVars>>
  <2>1. ChildInv' /\ UNCHANGED <<childVars, step, job, kept, drained, reaped, products, dir, outcome>>
    BY <1>7, ParentKeeps DEF TimePasses, RunnerInv, childVars, runnerVars
  <2>2. QED
    BY <2>1 DEF RunnerInv, Accounted, Limit, Ended, ExtractionIsComplete, childVars
<1>8. CASE ChildStep /\ UNCHANGED runnerVars
  <2>1. ChildInv' /\ (Accounted(kept.out) => Accounted(kept.out)')
    BY <1>8, ChildStepKeeps DEF RunnerInv, Accounted, runnerVars
  <2>2. child # "running" => UNCHANGED <<child, todo, out, err, written>>
    BY <1>8, ChildStaysDown
  <2>3. UNCHANGED <<step, job, kept, drained, reaped, products, dir, outcome>> /\ Limit' = Limit
    BY <1>8 DEF runnerVars, Limit
  <2>4. ExtractionIsComplete'
    BY <2>2, <2>3 DEF RunnerInv, ExtractionIsComplete
  <2>5. QED
    BY <2>1, <2>2, <2>3, <2>4 DEF RunnerInv, Ended
<1>9. QED
  BY <1>1, <1>2, <1>3, <1>4, <1>5, <1>6, <1>7, <1>8 DEF RunnerNext

\* An extraction that returns has reaped its child, and one that succeeds has all
\* of an output within the cap from a child that exited with 0 and left exactly
\* the expected product (run_in_dir, drain_bounded): for any cap.
THEOREM ExtractionIsWhole == RunnerSpec => []ExtractionIsComplete
<1>1. NoChild /\ RunnerInit => RunnerInv
  BY DEF NoChild, RunnerInit, RunnerInv, ChildInv, Accounted, Products, ExtractionIsComplete
<1>2. RunnerInv => ExtractionIsComplete
  BY DEF RunnerInv
<1>3. QED
  BY <1>1, <1>2, RunnerInvNext, PTL DEF RunnerSpec
==============================================================================
