----------------------------- MODULE BundleDiff -----------------------------
(***************************************************************************)
(* Two bundles compared: the categories of `cargo evidence diff`, the      *)
(* legacy sections of its JSON, and the reproduction comparison of the     *)
(* library.  Both bundles may have been edited since they were generated.  *)
(***************************************************************************)
EXTENDS BundleChecks

CONSTANT Malformed      \* a recorded digest that is no SHA-256

VARIABLE bundles        \* "A" and "B" -> a bundle

A == bundles["A"]
B == bundles["B"]

-----------------------------------------------------------------------------
(* compare_reproduction                                                    *)

\* Faulty variant: what only the candidate has is no difference.
PlaneDiff_BaselineOnly(base, cand) ==
    [unverifiable |-> {p \in DOMAIN base : base[p] = Malformed},
     missing |-> DOMAIN base \ DOMAIN cand, extra |-> {},
     changed |-> {p \in DOMAIN base \cap DOMAIN cand : base[p] # cand[p]}]

\* diff_digest_planes
PlaneDiff(base, cand) ==
    LET good == {p \in DOMAIN base : base[p] # Malformed}
        differ == {p \in good \cap DOMAIN cand : base[p] # cand[p]}
        bad == {p \in differ : cand[p] = Malformed} IN
    [unverifiable |-> (DOMAIN base \ good) \cup bad,
     missing |-> good \ DOMAIN cand,
     extra |-> DOMAIN cand \ DOMAIN base,
     changed |-> differ \ bad]

Tag(kind, paths) == {<<kind, p>> : p \in paths}

\* compare_inputs and compare_outputs
PlaneFindings(a, b, plane) ==
    IF ~(Parsed(a, plane) /\ Parsed(b, plane)) THEN Tag("Unverifiable", {plane})
    ELSE LET diff == PlaneDiff(a[plane], b[plane]) IN
         UNION {Tag(kind, diff[kind]) : kind \in DOMAIN diff}

RecipeFields == {"profile", "tools", "graph", "commands", "inputs", "resolution"}
RecipeChanges(a, b) ==
    {f \in RecipeFields : a["deterministic-manifest.json"][f] # b["deterministic-manifest.json"][f]}

\* compare_recipe
RecipeDifferences(a, b) ==
    IF ~(Parsed(a, "deterministic-manifest.json") /\ Parsed(b, "deterministic-manifest.json"))
    THEN {<<"RecipeUnavailable", "">>}
    ELSE Tag("RecipeFieldChanged", RecipeChanges(a, b))

Reproduction(a, b) ==
    (UNION {PlaneFindings(a, b, p) : p \in Planes}) \cup RecipeDifferences(a, b)

-----------------------------------------------------------------------------
(* compare_bundles, category by category                                   *)

\* status_of
Status(changed, unexaminable) ==
    IF changed THEN "Changed" ELSE IF unexaminable THEN "Unverifiable" ELSE "Equal"

DifferIn(x, y, fields) == \E f \in fields : x[f] # y[f]

\* require_indexes
IndexDiff(a, b, fields) ==
    IF Parsed(a, "index.json") /\ Parsed(b, "index.json")
    THEN Status(DifferIn(a["index.json"], b["index.json"], fields), FALSE) ELSE "Unverifiable"

Scope(a, b) == IndexDiff(a, b, {"profile", "git", "resolution", "dals", "rules"})
Anomalies(a, b) == IndexDiff(a, b, {"failures"})
CompletenessStates(a, b) == IndexDiff(a, b, {"states"})
ContentHashes(a, b) == IndexDiff(a, b, {"contentHash"})

DiffedTraces == TraceNames \ {"trace/sys.toml"}

HasTraceDir(bundle) == (TraceNames \cup {"trace/matrix.md"}) \cap DOMAIN bundle # {}
OneGarbled(a, b, path) == Garbled \in {Read(a, path), Read(b, path)}

TraceGraph(a, b) ==
    IF ~(HasTraceDir(a) /\ HasTraceDir(b)) THEN "Unverifiable"
    ELSE Status(
        \/ \E p \in DiffedTraces : ~OneGarbled(a, b, p) /\ Read(a, p) # Read(b, p)
        \/ Has(a, "trace/matrix.md") # Has(b, "trace/matrix.md"),
        \E p \in DiffedTraces : OneGarbled(a, b, p))

Logs == {"tests/cargo_test_stdout.txt", "tests/cargo_test_stderr.txt"}
Summary(bundle) == IF Parsed(bundle, "index.json") THEN bundle["index.json"].summary ELSE Absent

\* TestSide::has_data
HasTestData(bundle) ==
    \/ Summary(bundle) # Absent
    \/ Outcomes(bundle) # <<>> /\ DOMAIN Outcomes(bundle) # {}
    \/ Logs \cap DOMAIN bundle # {}

\* Of an outcome only its verdict is compared.
Verdicts(bundle) ==
    IF Parsed(bundle, "tests/test_outcomes.jsonl")
    THEN [t \in DOMAIN Outcomes(bundle) |-> Outcomes(bundle)[t].verdict] ELSE Absent

TestDiff(a, b) ==
    IF HasTestData(a) # HasTestData(b) THEN (IF HasTestData(b) THEN "Added" ELSE "Removed")
    ELSE Status(
        \/ Summary(a) # Summary(b)
        \/ ~OneGarbled(a, b, "tests/test_outcomes.jsonl") /\ Verdicts(a) # Verdicts(b)
        \/ Logs \cap DOMAIN a # Logs \cap DOMAIN b,
        HasTestData(a) /\ OneGarbled(a, b, "tests/test_outcomes.jsonl"))

CoverageSummary == "coverage/coverage_summary.json"

\* What cannot be compared outweighs what has changed.
CoverageDiff(a, b) ==
    IF OneGarbled(a, b, CoverageSummary) \/ Has(a, CoverageSummary) # Has(b, CoverageSummary)
    THEN "Unverifiable"
    ELSE Status(Read(a, CoverageSummary) # Read(b, CoverageSummary)
                    \/ Has(a, "coverage/lcov.info") # Has(b, "coverage/lcov.info"), FALSE)

\* Row by row; of a captured output only that it is there.
CapturedAs(bundle, row) == row.stdout # Absent /\ Has(bundle, row.stdout)
CommandDiff(a, b) ==
    IF ~(Parsed(a, "commands.json") /\ Parsed(b, "commands.json")) THEN "Unverifiable"
    ELSE LET x == a["commands.json"] y == b["commands.json"] IN
         Status(\/ Len(x) # Len(y)
                \/ \E i \in DOMAIN x \cap DOMAIN y :
                      \/ x[i].argv # y[i].argv \/ x[i].exit # y[i].exit
                      \/ CapturedAs(a, x[i]) # CapturedAs(b, y[i]), FALSE)

RecipeDiff(a, b) ==
    IF RecipeDifferences(a, b) = {<<"RecipeUnavailable", "">>} THEN "Unverifiable"
    ELSE Status(RecipeDifferences(a, b) # {}, FALSE)

\* digest_plane
PlaneStatus(a, b, plane) ==
    IF ~(Parsed(a, plane) /\ Parsed(b, plane)) THEN "Unverifiable"
    ELSE Status(PlaneFindings(a, b, plane) # {}, FALSE)

Reports(bundle) == Crates \cap DOMAIN bundle
NoDals(bundle) == Parsed(bundle, "index.json") /\ DOMAIN bundle["index.json"].dals = {}

ObjectiveMappings(a, b) ==
    IF {} \in {Reports(a), Reports(b)}
    THEN IF Reports(a) \cup Reports(b) = {} /\ NoDals(a) /\ NoDals(b) THEN "Equal" ELSE "Unverifiable"
    ELSE Status(
        \E c \in Reports(a) \cup Reports(b) : ~OneGarbled(a, b, c) /\ Read(a, c) # Read(b, c),
        \E c \in Reports(a) \cup Reports(b) : OneGarbled(a, b, c))

Packs(bundle) == {bundle[c].pack : c \in {c \in Reports(bundle) : Parsed(bundle, c)}}

ToolIdentity(a, b) ==
    IF ~(Parsed(a, "index.json") /\ Parsed(b, "index.json")) THEN "Unverifiable"
    ELSE LET readable == Parsed(a, "env.json") /\ Parsed(b, "env.json") IN
         Status(\/ a["index.json"].engine # b["index.json"].engine
                \/ readable /\ DifferIn(a["env.json"], b["env.json"], {"tools", "prerelease"})
                \/ Packs(a) # Packs(b), ~readable)

IntegrityDiff(a, b) ==
    Status(\E p \in {"BUNDLE.sig", "SHA256SUMS"} : Has(a, p) # Has(b, p), FALSE)

Compare(a, b) ==
    [scope |-> Scope(a, b), trace_graph |-> TraceGraph(a, b), tests |-> TestDiff(a, b),
     coverage |-> CoverageDiff(a, b), commands |-> CommandDiff(a, b), recipe |-> RecipeDiff(a, b),
     inputs |-> PlaneStatus(a, b, "inputs_hashes.json"),
     outputs |-> PlaneStatus(a, b, "outputs_hashes.json"),
     objective_mappings |-> ObjectiveMappings(a, b), reviews_approvals |-> "Unverifiable",
     anomalies |-> Anomalies(a, b), tool_identity |-> ToolIdentity(a, b),
     integrity |-> IntegrityDiff(a, b), completeness_states |-> CompletenessStates(a, b),
     content_hash |-> ContentHashes(a, b)]

\* legacy_hash_diff: a plane that cannot be read is an empty one.
LegacyPlane(bundle, plane) == IF Parsed(bundle, plane) THEN bundle[plane] ELSE <<>>
LegacyHashDiff(a, b, plane) ==
    LET x == LegacyPlane(a, plane) y == LegacyPlane(b, plane) IN
    [removed |-> DOMAIN x \ DOMAIN y, added |-> DOMAIN y \ DOMAIN x,
     changed |-> {p \in DOMAIN x \cap DOMAIN y : x[p] # y[p]}]

-----------------------------------------------------------------------------
(* The two bundles and what happens to them.                               *)

\* `generate` writes a bundle for one of `builds`, each a pair of the files of the
\* earlier phases and the index.
GenerateInto(slot, builds) ==
    \E b \in builds : bundles' = [bundles EXCEPT ![slot] = Finalized(b.files, b.index)]

\* A file is edited, cut off, removed or added by hand.
EditFile(slot, path, contents) ==
    \E c \in contents :
        bundles' = [bundles EXCEPT ![slot] =
            IF c = Absent THEN Restrict(@, DOMAIN @ \ {path})
            ELSE [p \in DOMAIN @ \cup {path} |-> IF p = path THEN c ELSE @[p]]]

-----------------------------------------------------------------------------
Mirror(status) == CASE status = "Added" -> "Removed" [] status = "Removed" -> "Added" [] OTHER -> status
Nothing == [removed |-> {}, added |-> {}, changed |-> {}]

\* Comparison does not depend on which bundle is named first, and the two ways to compare
\* agree: `diff` calls inputs, recipe and outputs all equal exactly when the reproduction
\* comparison finds nothing, and then its legacy sections are empty too.
ComparisonsAgree ==
    LET forth == Compare(A, B)
        back == Compare(B, A)
        equal == \A c \in {"inputs", "recipe", "outputs"} : forth[c] = "Equal" IN
    /\ \A c \in DOMAIN forth : back[c] = Mirror(forth[c])
    /\ equal <=> Reproduction(A, B) = {}
    /\ equal => \A p \in Planes : LegacyHashDiff(A, B, p) = Nothing

\* Two bundles that verify and have one content_hash are the same evidence: every file
\* but index.json and the signature is the same, and so are the fields of the index that
\* some file backs, though index.json is not in SHA256SUMS; and `diff` reports no change
\* in a category made of files.  A plane is equal, unless it holds a malformed digest or is
\* an output manifest that does not parse, which no check of `verify` reads.
ContentHashSettles ==
    Verifies(A) /\ Verifies(B) /\ A["index.json"].contentHash = B["index.json"].contentHash =>
        LET x == A["index.json"] y == B["index.json"] diff == Compare(A, B) IN
        /\ DOMAIN A \ KnownMeta = DOMAIN B \ KnownMeta
        /\ \A p \in DOMAIN A \ {"index.json", "BUNDLE.sig"} : A[p] = B[p]
        /\ ~DifferIn(x, y, {"profile", "git", "recipeHash", "resolution", "dals"})
        /\ Parsed(A, "tests/cargo_test_stdout.txt") /\ Absent \notin {x.summary, y.summary}
            => x.summary = y.summary
        /\ \A c \in {"trace_graph", "coverage", "commands", "recipe", "objective_mappings"} :
              diff[c] \in {"Equal", "Unverifiable"}
        /\ \A p \in Planes :
            \/ PlaneStatus(A, B, p) = "Equal"
            \/ p = "outputs_hashes.json" /\ A[p] = Garbled
            \/ \E f \in DOMAIN A[p] : A[p][f] = Malformed
=============================================================================
