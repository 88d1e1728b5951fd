----------------------------- MODULE TestCapture -----------------------------
(***************************************************************************)
(* The results of the tests, taken twice: `generate` reads the event       *)
(* stream of cargo-nextest, `check` the text of `cargo test`.  nextest     *)
(* runs the tests of all binaries at the same time, may run the tests of a *)
(* binary in several groups with a suite for each, and may die.            *)
(***************************************************************************)
EXTENDS Naturals, Sequences, FiniteSets, FiniteSetsExt, SequencesExt

CONSTANTS
    Targets,    \* what cargo test runs, in order: package, name, ident and kind
    Tests,      \* their tests: the index of the target and the path of the function
    Groups,     \* the groups the tests of a binary may be run in
    NoCapture   \* there is no summary

\* cargo runs the documentation tests after all others.
ASSUME DocTestsComeLast ==
    /\ DOMAIN Targets \subseteq Nat \ {0} /\ \A b \in DOMAIN Targets : 1..b \subseteq DOMAIN Targets
    /\ \A d, b \in DOMAIN Targets : Targets[d].kind = "doc" /\ d < b => Targets[b].kind = "doc"
ASSUME TestsAreFinite == IsFiniteSet(Tests)
ASSUME NoBinaryIsUnknown == \A b \in DOMAIN Targets : Targets[b].ident # "__unknown_binary__"

VARIABLES
    results,    \* what becomes of each test: "ok", "failed", "ignored" or "filtered"
    group,      \* test -> the group it runs in
    stream,     \* the events nextest has written, but for their order
    nextest     \* "running", "exited" or "killed"

captureVars == <<results, group, stream, nextest>>

Ran(t) == results[t] # "filtered"

\* Documentation tests are run by cargo test only.
Binaries == {b \in DOMAIN Targets : Targets[b].kind # "doc"}
Suites == {<<t.target, group[t]>> : t \in {t \in Tests : t.target \in Binaries}}
Members(b, g) == {t \in Tests : t.target = b /\ group[t] = g}

Count(tests, outcome) == Cardinality({t \in tests : results[t] = outcome})

-----------------------------------------------------------------------------
(* The run.                                                                *)

Started(b, g) == [type |-> "suite", event |-> "started", target |-> b, group |-> g]
Finished(t) == [type |-> "test", event |-> results[t], test |-> t]

\* What a group did not run it counts as filtered out; what is ignored in the
\* binary every group counts.
Summed(b, g) ==
    LET whole == {t \in Tests : t.target = b} IN
    [type |-> "suite", event |-> IF Count(Members(b, g), "failed") = 0 THEN "ok" ELSE "failed",
     target |-> b, group |-> g,
     passed |-> Count(Members(b, g), "ok"), failed |-> Count(Members(b, g), "failed"),
     ignored |-> Count(whole, "ignored"),
     filtered |-> Count(whole, "filtered")
                  + Cardinality({t \in whole \ Members(b, g) : results[t] \in {"ok", "failed"}})]

Emit(event) ==
    /\ nextest = "running" /\ event \notin stream
    /\ stream' = stream \cup {event}
    /\ UNCHANGED <<results, group, nextest>>

StartSuite(b, g) == <<b, g>> \in Suites /\ Emit(Started(b, g))

FinishTest(t) ==
    /\ t.target \in Binaries /\ Ran(t)
    /\ Started(t.target, group[t]) \in stream
    /\ Emit(Finished(t))

FinishSuite(b, g) ==
    /\ <<b, g>> \in Suites /\ Started(b, g) \in stream
    /\ \A t \in Members(b, g) : Ran(t) => Finished(t) \in stream
    /\ Emit(Summed(b, g))

EndRun ==
    /\ nextest = "running"
    /\ nextest' = IF \A s \in Suites : Summed(s[1], s[2]) \in stream THEN "exited" ELSE "killed"
    /\ UNCHANGED <<results, group, stream>>

CaptureStep ==
    \/ \E s \in Suites : StartSuite(s[1], s[2]) \/ FinishSuite(s[1], s[2])
    \/ \E t \in Tests : FinishTest(t)
    \/ EndRun

-----------------------------------------------------------------------------
(* parse_nextest_libtest_json                                              *)

Worst(outcomes) ==
    IF "failed" \in outcomes THEN "failed" ELSE IF "ok" \in outcomes THEN "ok" ELSE "ignored"

\* parse_identity: the binary by its identifier, as the module path of a record.
RecordKey(t) == <<Targets[t.target].ident, t.fn>>

Records == [t \in {e.test : e \in {e \in stream : e.type = "test"}} |->
    [key |-> RecordKey(t), outcome |-> results[t]]]

Summaries == {e \in stream : e.type = "suite" /\ e.event # "started"}
SummariesOf(b) == {e \in Summaries : e.target = b}

\* The sum of finitely many counts.
Total(count) == Cardinality(UNION {{x} \X (1..count[x]) : x \in DOMAIN count})

\* Faulty variant: the ignored tests of the groups are added up.
Tally_Sums(b) ==
    [passed |-> Total([e \in SummariesOf(b) |-> e.passed]),
     failed |-> Total([e \in SummariesOf(b) |-> e.failed]),
     ignored |-> Total([e \in SummariesOf(b) |-> e.ignored]),
     filtered |-> Min({e.filtered : e \in SummariesOf(b)})]

\* SuiteTally
Tally(b) ==
    [passed |-> Total([e \in SummariesOf(b) |-> e.passed]),
     failed |-> Total([e \in SummariesOf(b) |-> e.failed]),
     ignored |-> Max({e.ignored : e \in SummariesOf(b)}),
     filtered |-> Min({e.filtered : e \in SummariesOf(b)})]

\* summarize_suites
StreamSummary ==
    LET seen == {e.target : e \in Summaries} IN
    [passed |-> Total([b \in seen |-> Tally(b).passed]),
     failed |-> Total([b \in seen |-> Tally(b).failed]),
     ignored |-> Total([b \in seen |-> Tally(b).ignored]),
     filtered |-> Total([b \in seen |-> Tally(b).filtered])]

\* reconcile
Discrepancies ==
    LET recorded == [passed |-> "ok", failed |-> "failed", ignored |-> "ignored"] IN
    {d \in DOMAIN recorded :
        StreamSummary[d] # Cardinality({t \in DOMAIN Records : Records[t].outcome = recorded[d]})}

\* run_tests_and_capture: a strict run stops at a discrepancy.  nextest fails when it is
\* killed, when nothing is built, and when a test fails.
CommandFails == nextest = "killed" \/ Summaries = {} \/ \E e \in Summaries : e.event = "failed"
CaptureRefused(strict) == strict /\ Discrepancies # {}

\* check_test_summary picks the parser by the output: without a suite it looks for the
\* text of cargo test.
Reparsed == IF \E e \in stream : e.type = "suite" THEN StreamSummary ELSE NoCapture

-----------------------------------------------------------------------------
(* parse_cargo_test_output_with_outcomes, over what the same tests print    *)
(* under `cargo test --no-fail-fast`: the headers of the binaries on        *)
(* stderr, which comes after all of stdout, and on stdout a section for     *)
(* each target with the results of its tests.                               *)

\* What the i-th header names.
Header(i) ==
    LET at == {b \in Binaries : Cardinality({c \in Binaries : c <= b}) = i} IN
    IF at = {} THEN "__unknown_binary__" ELSE Targets[CHOOSE b \in at : TRUE].ident

\* Faulty variant: a target all of whose tests are filtered out opens no section.
BinaryOf_SkipsEmpty(i) == Header(Cardinality({j \in 1..i : \E t \in Tests : t.target = j /\ Ran(t)}))

\* The i-th section belongs to the i-th header.
BinaryOf(i) == Header(i)

TextKey(t) == <<BinaryOf(t.target), t.fn>>

\* Tests of one name in binaries of one name share a key: the worst result stands.
TextOutcomes ==
    [k \in {TextKey(t) : t \in {t \in Tests : Ran(t)}} |->
        Worst({results[t] : t \in {t \in Tests : Ran(t) /\ TextKey(t) = k}})]

-----------------------------------------------------------------------------
\* A stream that came to its end reconciles however nextest has grouped and interleaved
\* the tests (or a strict `generate` would refuse an honest run), with the counts of the
\* tests that ran, and the command has failed exactly if one of them has.  A stream that
\* was cut short is either noticed, or holds with each test that was executed the summary
\* of its suite.
LossIsNoticed ==
    /\ nextest = "exited" =>
        /\ ~CaptureRefused(TRUE)
        /\ \A d \in {<<"passed", "ok">>, <<"failed", "failed">>, <<"ignored", "ignored">>} :
              StreamSummary[d[1]] = Count({t \in Tests : t.target \in Binaries}, d[2])
        /\ Suites # {} => Reparsed = StreamSummary
        /\ CommandFails <=> Suites = {} \/ Count({t \in Tests : t.target \in Binaries}, "failed") > 0
    /\ nextest = "killed" =>
        \/ CaptureRefused(TRUE)
        \/ \A t \in DOMAIN Records :
              results[t] # "ignored" => Summed(t.target, group[t]) \in stream

\* `check` and `verify` resolve one selector alike (parse_identity): of a run of the same
\* tests with the same results the text gives every test nextest runs under the key of
\* its record, and with its result unless binaries of one name have a test in common, in
\* which case the worst of the records; so no failure is lost between the two.
CapturesAgree ==
    nextest = "exited" =>
        \A t \in DOMAIN Records :
            LET key == Records[t].key IN
            /\ key \in DOMAIN TextOutcomes
            /\ TextOutcomes[key] = Worst({Records[u].outcome : u \in {u \in DOMAIN Records : Records[u].key = key}})
=============================================================================
