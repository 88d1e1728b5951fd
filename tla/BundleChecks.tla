---------------------------- MODULE BundleChecks ----------------------------
(***************************************************************************)
(* The content of a bundle, file by file: what `generate` writes, and what *)
(* the checks of verify_bundle make of it when files have been edited or   *)
(* damaged since.                                                          *)
(*                                                                         *)
(* A bundle is a function from the paths of its files to their content, a  *)
(* digest is the content it digests (SHA-256 as an injection).  The        *)
(* compliance report of a crate is filed under the name of the crate.      *)
(***************************************************************************)
EXTENDS Naturals, Sequences, FiniteSets, Functions, TLC

CONSTANTS
    Crates,     \* the crates a bundle may have a compliance report of
    Absent,     \* a value or a file that is not there
    Garbled     \* the content of a file that does not parse

Required == {"index.json", "inputs_hashes.json", "outputs_hashes.json", "commands.json",
             "env.json", "deterministic-manifest.json", "SHA256SUMS"}
KnownMeta == {"index.json", "SHA256SUMS", "BUNDLE.sig"}
Outside == {"../env.json"}      \* paths that leave the bundle
TraceNames == {"trace/sys.toml", "trace/hlr.toml", "trace/llr.toml", "trace/tests.toml", "trace/derived.toml"}
Planes == {"inputs_hashes.json", "outputs_hashes.json"}

\* The reports lie in a directory of their own.
ASSUME ReportsAreNoMeta == Crates \cap KnownMeta = {}

CertGrade(profile) == profile \in {"cert", "record"}
Has(bundle, path) == path \in DOMAIN bundle
Read(bundle, path) == IF Has(bundle, path) THEN bundle[path] ELSE Absent
Parsed(bundle, path) == Read(bundle, path) \notin {Absent, Garbled}

-----------------------------------------------------------------------------
(* What generate writes.                                                   *)

\* RecipeInputs and recipe_manifest, from the files they are read from.
Recipe(files, resolution) ==
    LET env == files["env.json"] IN
    [profile |-> env.profile, git |-> env.git, tools |-> env.tools, resolution |-> resolution,
     commands |-> files["commands.json"], inputs |-> files["inputs_hashes.json"],
     graph |-> IF Has(files, "cargo_metadata.json") THEN files["cargo_metadata.json"].graph ELSE Absent]

\* finalize: the manifest, SHA256SUMS over what is there, then index.json.  A build
\* has the files the earlier phases write and the fields of the index.
Finalized(files, index) ==
    LET manifest == "deterministic-manifest.json" :> Recipe(files, index.resolution)
        sums == files @@ manifest IN
    sums @@ ("SHA256SUMS" :> sums)
         @@ ("index.json" :> (index @@ [contentHash |-> sums, recipeHash |-> manifest["deterministic-manifest.json"]]))

-----------------------------------------------------------------------------
(* The checks of verify_bundle_with_key, as the findings each may report.  *)

Findings(checks) == {f \in DOMAIN checks : checks[f]}

\* check_bundle_completeness
CompletenessFindings(index) == Findings(
    [BundleIncompletelyClaimed |-> index.complete /\ index.failures # {},
     ToolCommandsFailedSilently |-> ~index.complete /\ CertGrade(index.profile),
     TestSummaryAbsentOnFailedRun |->
        "cargo test --workspace" \in index.failures /\ index.summary = Absent])

Outcomes(bundle) ==
    IF Parsed(bundle, "tests/test_outcomes.jsonl") THEN bundle["tests/test_outcomes.jsonl"] ELSE <<>>

\* check_llr_test_selectors, check_test_identity
OutcomeFindings(bundle) ==
    LET claimed == UNION {Outcomes(bundle)[t].uids : t \in DOMAIN Outcomes(bundle)} IN
    Findings(
    [LlrTestSelectorUnresolved |->
        /\ Parsed(bundle, "tests/test_outcomes.jsonl") /\ Parsed(bundle, "trace/llr.toml")
        /\ \E u \in DOMAIN bundle["trace/llr.toml"] \ claimed : bundle["trace/llr.toml"][u] = "test",
     TestIdentityUnknown |-> \E t \in DOMAIN Outcomes(bundle) : ~Outcomes(bundle)[t].known])

IsEmptyMap(bundle, path) == Parsed(bundle, path) /\ DOMAIN bundle[path] = {}

\* check_source_baseline, check_output_manifest, check_trace_evidence,
\* check_resolution_policy
EvidenceFindings(bundle, index) ==
    LET traces == TraceNames \cap DOMAIN bundle IN
    Findings(
    [SourceBaselineEmpty |-> DOMAIN index.dals # {} /\ IsEmptyMap(bundle, "inputs_hashes.json"),
     OutputManifestEmpty |-> index.summary # Absent /\ IsEmptyMap(bundle, "outputs_hashes.json"),
     TraceEvidenceNotAdopted |-> CertGrade(index.profile) /\ traces = {},
     TraceEvidenceEmpty |-> CertGrade(index.profile) /\ traces # {}
        /\ \A p \in traces : bundle[p] = Garbled \/ DOMAIN bundle[p] = {},
     OnlineResolutionBundle |-> CertGrade(index.profile) /\ index.resolution = "online"])

\* validate_index_fields and check_engine_source, check_env_vs_index,
\* check_prerelease_tool
FieldFindings(bundle, index) ==
    LET env == Read(bundle, "env.json") IN
    Findings(
    [FormatError |->
        \/ CertGrade(index.profile) /\ index.git = "unknown"
        \/ index.engine \notin {"git", "release", "unknown"}
        \/ CertGrade(index.profile) /\ index.engine # "git"
        \/ Garbled \in {index.contentHash, index.recipeHash},
     CrossFileInconsistency |->
        env # Garbled /\ (env.profile # index.profile \/ env.git # index.git),
     PrereleaseToolDetected |-> env # Garbled /\ env.prerelease])

\* hash_sha256sums_entries
Listed(sums) == DOMAIN sums \ Outside
ListingFindings(bundle) ==
    LET sums == bundle["SHA256SUMS"] IN
    Findings(
    [UnsafePath |-> DOMAIN sums \cap Outside # {},
     MissingHashedFile |-> \E p \in Listed(sums) : ~Has(bundle, p),
     HashMismatch |-> \E p \in Listed(sums) \cap DOMAIN bundle : bundle[p] # sums[p],
     UnexpectedFile |->
        \/ "index.json" \in Listed(sums)
        \/ DOMAIN bundle \ (Listed(sums) \cup KnownMeta) # {}])

\* The trace outputs the index names, and its two digests.
IndexFindings(bundle, index) ==
    Findings(
    [UnsafePath |-> index.traceOutputs \cap Outside # {},
     MissingHashedFile |-> ~(index.traceOutputs \ Outside \subseteq DOMAIN bundle),
     TraceOutputNotHashed |-> ~(index.traceOutputs \subseteq Listed(bundle["SHA256SUMS"])),
     ContentHashMismatch |-> index.contentHash # bundle["SHA256SUMS"],
     DeterministicHashMismatch |-> index.recipeHash # bundle["deterministic-manifest.json"]])

\* check_recipe_manifest, past the digest
RecipeFindings(bundle, index) ==
    LET sources == {"env.json", "inputs_hashes.json", "commands.json"}
                   \cup ({"cargo_metadata.json"} \cap DOMAIN bundle) IN
    Findings([ManifestProjectionDrift |->
        \/ \E p \in sources : bundle[p] = Garbled
        \/ bundle["deterministic-manifest.json"] # Recipe(bundle, index.resolution)])

\* check_test_summary: what the captured output parses to.
SummaryFindings(bundle, index) ==
    Findings([TestSummaryMismatch |->
        /\ index.summary # Absent /\ Parsed(bundle, "tests/cargo_test_stdout.txt")
        /\ bundle["tests/cargo_test_stdout.txt"] # index.summary])

\* Faulty variant: a report no crate of the index has is left alone.
DalFindings_OneWay(bundle, index) ==
    LET dals == index.dals IN
    Findings([DalMapOrphan |-> \E c \in DOMAIN dals : ~Parsed(bundle, c),
              DalMapMismatch |-> \E c \in DOMAIN dals : Parsed(bundle, c) /\ bundle[c].dal # dals[c]])

\* check_dal_map
DalFindings(bundle, index) ==
    LET dals == index.dals IN
    Findings(
    [DalMapOrphan |->
        (\E c \in DOMAIN dals : ~Parsed(bundle, c)) \/ ~(Crates \cap DOMAIN bundle \subseteq DOMAIN dals),
     DalMapMismatch |-> \E c \in DOMAIN dals : Parsed(bundle, c) /\ bundle[c].dal # dals[c]])

\* check_boundary_recheck over the crates in scope
BoundaryFindings(bundle, index) ==
    LET rules == index.rules \cap {"build_rs", "proc_macros"}
        metadata == Read(bundle, "cargo_metadata.json") IN
    IF rules = {} \/ DOMAIN index.dals = {} THEN {}
    ELSE IF ~Parsed(bundle, "cargo_metadata.json") THEN {"BoundaryVerifyMetadataMissing"}
    ELSE {r \in rules : metadata[r] \cap DOMAIN index.dals # {}}

Missing(bundle) == Required \ DOMAIN bundle
CannotRun(bundle) ==
    Missing(bundle) = {} /\ Garbled \in {bundle["index.json"], bundle["SHA256SUMS"]}

\* verify_bundle without a key, once index.json parses.
ContentFindings(bundle) ==
    LET index == bundle["index.json"] IN
    CompletenessFindings(index) \cup OutcomeFindings(bundle) \cup EvidenceFindings(bundle, index)
    \cup FieldFindings(bundle, index) \cup ListingFindings(bundle) \cup IndexFindings(bundle, index)
    \cup RecipeFindings(bundle, index) \cup SummaryFindings(bundle, index)
    \cup DalFindings(bundle, index) \cup BoundaryFindings(bundle, index)

Verifies(bundle) == Missing(bundle) = {} /\ ~CannotRun(bundle) /\ ContentFindings(bundle) = {}
=============================================================================
