----------------------------- MODULE MCAssessment -----------------------------
(***************************************************************************)
(* The making and the judging of evidence, on small instances: a behaviour *)
(* is one of the runs that generate bundles, of a signed bundle and the    *)
(* keys, of the trace files and their backfill, of one captured run of the *)
(* tests, or of two bundles that are compared.                             *)
(***************************************************************************)
EXTENDS Bundle, VerifyCommand, TraceReport, BundleDiff, TestCapture

VARIABLES part, edits

\* Keys are drawn, compared and written, never ordered, and so are commits.
Symmetric == Permutations(Keys) \cup Permutations(Commits)

all == <<bundleVars, keyVars, custodyVars, traceVars, ran, bundles, captureVars, part, edits>>

-----------------------------------------------------------------------------
(* The trace: one chain from a system requirement down to a test; the same *)
(* with a second branch; and one as the templates leave it, with           *)
(* placeholders for uids.                                                  *)

CONSTANTS s1, h1, l1, l2, t1, t2, p1, p2

TwoRoots == <<"r1", "r2">>
TestFns == {<<"a", "m", "t">>, <<"b", "m", "t">>}

Entry(id, uid, links) ==
    [id |-> id, uid |-> uid, owner |-> "a", links |-> links, selectors |-> {}, given |-> {"test"}, surfaces |-> {}]
Verifying(entry) == [entry EXCEPT !.selectors = {<<"a", "m", "t">>}]

Chain ==
    [SYS |-> <<Entry("S", s1, <<>>)>>,
     HLR |-> <<[Entry("H", h1, <<s1>>) EXCEPT !.surfaces = {"verify"}]>>,
     LLR |-> <<Entry("L", l1, <<h1>>)>>,
     TEST |-> <<Verifying(Entry("T", t1, <<l1>>))>>,
     DERIVED |-> <<>>]
Branched ==
    [Chain EXCEPT !.LLR = Append(@, Entry("L2", l2, <<h1>>)),
                  !.TEST = Append(@, Verifying(Entry("T2", t2, <<l2>>)))]
Template ==
    [SYS |-> <<Entry("S", p1, <<>>)>>, HLR |-> <<Entry("H", h1, <<p1>>)>>,
     LLR |-> <<Entry("L", p2, <<h1>>)>>, TEST |-> <<Entry("T", NoValue, <<p2>>)>>, DERIVED |-> <<>>]
Bare == [l \in LayerSet |-> <<>>]
CrossRoot ==
    [Bare EXCEPT !.LLR = <<Entry("L2", p1, <<h1>>)>>,
                 !.TEST = <<[Entry("T2", p2, <<p1>>) EXCEPT !.selectors = {<<"t">>}]>>]

Traces2 ==
    {[r1 |-> Chain, r2 |-> x] : x \in {NoValue, Unreadable, Bare, CrossRoot}}
    \cup {[r1 |-> f, r2 |-> x] : f \in {Branched, Template}, x \in {NoValue, Template}}

\* Every field of an entry is changed to something else.
Changed(e) ==
    {[e EXCEPT !.uid = v] : v \in {l1, t1, p1, p2, NoValue}}
    \cup {[e EXCEPT !.id = v] : v \in {"L", "T"}}
    \cup {[e EXCEPT !.owner = v] : v \in {NoValue, "b", "soi"}}
    \cup {[e EXCEPT !.links = v] : v \in {<<>>, <<l1>>, <<p1>>, <<h1, p1>>, <<p2, p1>>, <<l1, l1>>, <<s1>>}}
    \cup {[e EXCEPT !.selectors = v] :
            v \in {{}, {<<"t">>}, TestFns, {<<"c", "m", "u">>}, {<<"a">>}}}
    \cup {[e EXCEPT !.given = v] : v \in {{}, {"rationale", "safety_impact", "disposition", "reviewed"}}}
    \cup {[e EXCEPT !.surfaces = v] : v \in {{}, {"unknown"}}}
Added ==
    {Entry("N", p1, <<l1>>), [Entry("M", p2, <<p1>>) EXCEPT !.selectors = {<<"b", "m", "t">>}]}
Edited(f) ==
    UNION {UNION {{[f EXCEPT ![l][i] = c] : c \in Changed(f[l][i])} : i \in DOMAIN f[l]} : l \in LayerSet}
    \cup {[f EXCEPT ![l] = Append(@, e)] : l \in {"TEST", "LLR"}, e \in Added}
    \cup {[f EXCEPT !.DERIVED = <<Entry("D", p2, <<>>)>>], Bare}

NothingRan == [f \in Fns |-> NoValue]
Untouched == fill = NoFill /\ begun = disk /\ ~died /\ ran = NothingRan

TraceIdle ==
    /\ disk = [r \in {"r1", "r2"} |-> NoValue] /\ begun = disk
    /\ fill = NoFill /\ died = FALSE /\ draws = 0 /\ ran = NothingRan
TraceInit == disk \in Traces2 /\ begun = disk /\ fill = NoFill /\ died = FALSE /\ draws = 0 /\ ran = NothingRan

BackfillStep ==
    /\ ran = NothingRan
    /\ BeginBackfill \/ WriteFile \/ NextRoot \/ BackfillDies
    /\ UNCHANGED <<ran, edits>>
EditTrace ==
    /\ Untouched /\ edits < 1 /\ Readable("r1")
    /\ \E f \in Edited(disk["r1"]) : Edit("r1", f)
    /\ edits' = edits + 1 /\ UNCHANGED ran
RunTheTests ==
    /\ Untouched /\ disk["r2"] = NoValue
    /\ ran' \in [Fns -> {"ok", "FAILED", "ignored"}]
    /\ UNCHANGED <<traceVars, edits>>

TraceNext == BackfillStep \/ EditTrace \/ RunTheTests

-----------------------------------------------------------------------------
(* The run of the tests: a binary whose two tests may be in two groups,    *)
(* one without a test, two integration binaries of one name, and a         *)
(* documentation test.                                                     *)

FiveTargets ==
    <<[package |-> "p", name |-> "my-cli", ident |-> "my_cli", kind |-> "bin"],
      [package |-> "p", name |-> "helper", ident |-> "helper", kind |-> "bin"],
      [package |-> "p", name |-> "it", ident |-> "it", kind |-> "test"],
      [package |-> "q", name |-> "it", ident |-> "it", kind |-> "test"],
      [package |-> "p", name |-> "p", ident |-> "p", kind |-> "doc"]>>
FiveTests ==
    {[target |-> 1, fn |-> "a"], [target |-> 1, fn |-> "b"], [target |-> 3, fn |-> "a"],
     [target |-> 4, fn |-> "a"], [target |-> 5, fn |-> "d"]}

CaptureIdle ==
    /\ results = [t \in Tests |-> "filtered"] /\ group = [t \in Tests |-> 1]
    /\ stream = {} /\ nextest = "running"
CaptureInit ==
    /\ results \in [Tests -> {"ok", "failed", "ignored", "filtered"}]
    /\ group \in [Tests -> Groups]
    /\ \A t \in Tests :
        /\ t.target = 5 => results[t] = "ok"
        /\ t.target = 4 => results[t] \in {"ok", "failed"}
        /\ t = [target |-> 1, fn |-> "b"] => results[t] # "filtered"
        /\ t # [target |-> 1, fn |-> "b"] => group[t] = 1
    /\ stream = {} /\ nextest = "running"

-----------------------------------------------------------------------------
(* The bundles: an empty one of the dev profile, one of a cert run over    *)
(* each of two inputs, and one of a dev run whose tests failed.            *)

OnCommit(profile) == [profile |-> profile, git |-> "c1", tools |-> "1.85", prerelease |-> FALSE]
Minimal ==
    ("env.json" :> OnCommit("dev")) @@ ("inputs_hashes.json" :> <<>>)
    @@ ("outputs_hashes.json" :> <<>>) @@ ("commands.json" :> <<>>)
MinimalIndex ==
    [profile |-> "dev", git |-> "c1", engine |-> "release", resolution |-> "locked", complete |-> TRUE,
     failures |-> {}, summary |-> Absent, dals |-> <<>>, rules |-> {}, traceOutputs |-> {},
     states |-> "legacy"]

Row == [argv |-> "test", exit |-> 0, stdout |-> "tests/cargo_test_stdout.txt"]
Full(profile, input, verdict) ==
    ("env.json" :> OnCommit(profile)) @@ ("inputs_hashes.json" :> ("src" :> input))
    @@ ("outputs_hashes.json" :> ("bin" :> input)) @@ ("commands.json" :> <<Row>>)
    @@ ("cargo_metadata.json" :> [graph |-> "g", build_rs |-> {}, proc_macros |-> {"other"}])
    @@ ("tests/test_outcomes.jsonl" :> ("t1" :> [verdict |-> verdict, known |-> TRUE, uids |-> {"u1"}]))
    @@ ("tests/cargo_test_stdout.txt" :> verdict)
    @@ ("trace/llr.toml" :> (("u1" :> "test") @@ ("u2" :> "review"))) @@ ("trace/matrix.md" :> "m")
    @@ ("coverage/coverage_summary.json" :> "c1") @@ ("coverage/lcov.info" :> "l")
    @@ ("app" :> [dal |-> "B", pack |-> "p1", statuses |-> verdict])
FullIndex(profile, verdict) ==
    [MinimalIndex EXCEPT !.profile = profile, !.engine = "git", !.summary = verdict,
                         !.dals = ("app" :> "B"), !.rules = {"build_rs", "proc_macros"},
                         !.traceOutputs = {"trace/matrix.md"}]
CertOver(input) == [files |-> Full("cert", input, "passed"), index |-> FullIndex("cert", "passed")]
Builds ==
    {[files |-> Minimal, index |-> MinimalIndex], CertOver("d1"), CertOver("d2"),
     [files |-> Full("dev", "d1", "failed"),
      index |-> [FullIndex("dev", "failed") EXCEPT !.complete = FALSE,
                                                   !.failures = {"cargo nextest run --workspace"}]]}

\* What a file may be edited to, besides being removed or damaged.
Values ==
    [p \in Planes |->
        {<<>>, ("src" :> Malformed), ("bin" :> Malformed), ("src" :> "d2"), ("src" :> "d1") @@ ("x" :> "d1")}]
    @@ ("env.json" :>
        {OnCommit("cert"), [OnCommit("dev") EXCEPT !.tools = "1.86"],
         [OnCommit("cert") EXCEPT !.git = "c2"], [OnCommit("cert") EXCEPT !.prerelease = TRUE]})
    @@ ("commands.json" :> {<<Row, Row>>, <<[Row EXCEPT !.exit = 1]>>})
    @@ ("cargo_metadata.json" :>
        {[graph |-> "h", build_rs |-> {}, proc_macros |-> {}],
         [graph |-> "g", build_rs |-> {"app"}, proc_macros |-> {}]})
    @@ ("tests/test_outcomes.jsonl" :>
        {<<>>, ("t1" :> [verdict |-> "failed", known |-> FALSE, uids |-> {}])})
    @@ ("trace/llr.toml" :> {<<>>, ("u2" :> "test")})
    @@ [p \in {"deterministic-manifest.json", "SHA256SUMS", "index.json"} |-> {}]
    @@ [p \in TraceNames |-> {"u9" :> "review"}]
    @@ [p \in Crates |-> {[dal |-> "A", pack |-> "p2", statuses |-> "passed"]}]
    @@ [p \in Logs \cup {"BUNDLE.sig", "trace/matrix.md", "coverage/coverage_summary.json",
                         "coverage/lcov.info"} |-> {"other"}]

IndexEdits(bundle1) ==
    LET ix == bundle1["index.json"] IN
    {[ix EXCEPT !.complete = ~@], [ix EXCEPT !.failures = {"cargo test --workspace"}],
     [ix EXCEPT !.summary = Absent], [ix EXCEPT !.summary = "other"], [ix EXCEPT !.dals = <<>>],
     [ix EXCEPT !.dals = ("lib" :> "A")], [ix EXCEPT !.profile = "dev"], [ix EXCEPT !.profile = "cert"],
     [ix EXCEPT !.git = "unknown"], [ix EXCEPT !.engine = "release"], [ix EXCEPT !.resolution = "online"],
     [ix EXCEPT !.rules = {}], [ix EXCEPT !.rules = {"build_rs"}],
     [ix EXCEPT !.traceOutputs = {"../env.json"}], [ix EXCEPT !.traceOutputs = {"trace/hlr.toml"}],
     [ix EXCEPT !.states = "full"], [ix EXCEPT !.recipeHash = Garbled], [ix EXCEPT !.contentHash = Garbled]}
    \cup (IF Has(bundle1, "SHA256SUMS") THEN {[ix EXCEPT !.contentHash = bundle1["SHA256SUMS"]]} ELSE {})
SumsEdits(bundle1) ==
    LET sums == bundle1["SHA256SUMS"] IN
    {Restrict(sums, DOMAIN sums \ {"app"}), sums @@ ("../env.json" :> Garbled),
     sums @@ ("index.json" :> Garbled), ("env.json" :> Garbled) @@ sums}

Contents(bundle1, path) ==
    {Absent, Garbled} \cup Values[path]
    \cup (IF path = "index.json" /\ Parsed(bundle1, path) THEN IndexEdits(bundle1) ELSE {})
    \cup (IF path = "SHA256SUMS" /\ Parsed(bundle1, path) THEN SumsEdits(bundle1) ELSE {})

\* Two bundles of one cert build are edited twice, others once.
BundlesIdle == bundles = [A |-> <<>>, B |-> <<>>]
BundlesInit ==
    \E x, y \in Builds :
        /\ bundles = [A |-> Finalized(x.files, x.index), B |-> Finalized(y.files, y.index)]
        /\ edits = IF x = y /\ x.index.profile = "cert" THEN 0 ELSE 1

BundlesNext ==
    /\ edits < 2 /\ edits' = edits + 1
    /\ \E slot \in {"A", "B"} :
        \/ GenerateInto(slot, Builds)
        \/ \E p \in DOMAIN Values : EditFile(slot, p, Contents(bundles[slot], p))

-----------------------------------------------------------------------------
(* The runs that generate: one bundle, and later runs that find it there.  *)
(* The clock is read once in a run, so it goes on between runs; and the    *)
(* repository stands still while a later run finds the directory.          *)

BetweenRuns == \A g \in Generators : run[g].pc = "idle"
LaterRun ==
    /\ \E n \in Names : dirs[n].made
    /\ \E g \in Generators : run[g].pc \in {"preflight", "snapshot", "status", "fresh", "create"}

GenerateNext ==
    /\ BundleNext
    /\ clock' # clock => BetweenRuns
    /\ <<head, tree>>' # <<head, tree>> => ~LaterRun

-----------------------------------------------------------------------------
Init ==
    /\ part \in {"generate", "custody", "trace", "capture", "bundles"}
    /\ BundleInit
    /\ part # "generate" => ~prerelease
    /\ CustodyInit
    /\ IF part = "trace" THEN TraceInit ELSE TraceIdle
    /\ IF part = "capture" THEN CaptureInit ELSE CaptureIdle
    /\ IF part = "bundles" THEN BundlesInit ELSE BundlesIdle /\ edits = 0

Only(p) ==
    /\ part = p /\ UNCHANGED part
    /\ p # "generate" => UNCHANGED bundleVars
    /\ p # "custody" => UNCHANGED keyringVars
    /\ p # "trace" => UNCHANGED <<traceVars, ran>>
    /\ p # "capture" => UNCHANGED captureVars
    /\ p # "bundles" => UNCHANGED bundles
    /\ p \in {"generate", "custody", "capture"} => UNCHANGED edits

Next ==
    \/ Only("generate") /\ GenerateNext
    \/ Only("custody") /\ CustodyNext
    \/ Only("trace") /\ TraceNext
    \/ Only("capture") /\ CaptureStep
    \/ Only("bundles") /\ BundlesNext

Spec == Init /\ [][Next]_all
=============================================================================
