# A TLA+ model of the evidence tool

This directory specifies the parts of the repository (the `evidence-core`,
`cargo-evidence` and `evidence-mcp` crates) in which the *order* of things
decides whether the result can be trusted: records that people edit
independently, files that concurrent agents create, a bundle that is written in
a dozen steps any of which may be the last, keys that are rotated while bundles
they signed live on, children that hang behind full pipes, and facts that are
computed twice by two implementations that should agree. TLC checks the modules
on small instances; TLAPS proves the central properties for every value of the
constants.

Paths below are relative to `src/crates/`; `core` is `evidence-core/src`, `cli`
is `cargo-evidence/src/cli`, `mcp` is `evidence-mcp/src`.

1. [Inventory](#1-inventory)
2. [Modules and the code they model](#2-modules-and-the-code-they-model)
3. [Runs](#3-runs)
4. [Proofs](#4-proofs)
5. [Disagreements between code and documentation](#5-disagreements-between-code-and-documentation)
6. [What is not modelled](#6-what-is-not-modelled)
7. [Plan](#7-plan)

## 1. Inventory

| Component | State it keeps | Operations | Interacts with |
|---|---|---|---|
| Review plane (`core/corpus/graph*`, `lifecycle.rs`, `patch_lifecycle.rs`) | committed records: requirements, patches, reviews, tests | none of its own; people edit records, `CorpusGraph::validate`, `evaluate_lifecycle`, `evaluate_patch_lifecycle` judge them | proposals and the approval boundary read its verdict |
| Approval boundary (`core/corpus/approval_boundary*`) | none | `validate_approval_boundary` | review plane, trace claims, curated patches |
| Proposal store (`core/corpus/proposal*`) | one file per proposal uid | `append_create_candidate`, `append_revise_candidate`, `read_proposal` | guarded by a loaded `CorpusGraph` |
| Curated patches (`core/corpus/source_patch`, `source_graph`) | parser graph, patch records | `apply_patch`, `validate_graph_standalone` | effective graph, approval boundary |
| Effective graph (`core/corpus/effective_graph.rs`) | none | applies every approved patch in uid order | source patches, review plane |
| Sources, lock, lineage (`core/corpus/source*`) | source records, `sources.lock`, vendored payloads | lineage and transition gates, lock derivation, payload verification | ingesters |
| Drift comparison (`core/corpus/drift*`) | none | `compare_reingestion` | parser graph, effective graph |
| Ingesters (`core/corpus/ingest`) | frames, sections, ordinals, anchors while a document is read | one event or element after the other, then assembly | structural graph; the PDF one calls the extractor runner |
| PDF extractor runner (`ingest/pdf/runner.rs`) | child, two drain threads, isolated directory | spawn, poll, time out, kill, join | external `pdftotext` |
| Bundle generation (`cli/generate*`, `core/bundle/builder*`, `signing.rs`) | bundle directory, process state | preflight, snapshot, directory creation, capture, hashing, manifest, sums, index, self-verification, signature, anchor, closure | git, key files, test runner, verifier |
| Verifier (`core/verify*`) | none | `verify_bundle`, `verify_bundle_signature` and the checks of each file | a bundle directory |
| Verify command (`cli/verify*`) | none | key resolution, human, JSON and JSONL forms, exit codes | verifier, committed public key |
| Key generation (`cli/keygen.rs`) | private key, public key, rotation log | create, rotate | `sign_bundle`, the public-key anchor |
| Trace, requirement reports (`core/trace*`, `cli/trace.rs`, `check*`, `doctor*`) | trace files of each root | link validation, evidence state, UUID backfill, reports, back-links | generate, verify, check, doctor |
| Test capture (`core/bundle/nextest.rs`, `test_summary.rs`, `cli/generate/test_capture.rs`) | event stream, recorded outcomes | two parsers, reconciliation | `cargo nextest`, `cargo test` |
| Bundle diff (`core/diff*`, `cli/diff.rs`) | none | categories, legacy sections, reproduction comparison | two bundle directories |
| MCP server (`mcp`) | cached result of the version probe, children, pipes | probe, spawn, read, parse JSONL, time out, kill | the command line tool |
| Coverage, compliance, floors, boundary check, input scope, context, index, rules, init | none | pure functions of files, reports, templates | bundle, commands |

`PROJECT.json` lists every component with its status, and under `hazards` the
places where this code can go wrong in a way a test would hardly reach. The
hard behaviours, and what has to be true of them:

* **Review plane.** A chain of corrections is reached one committed record at a
  time and may close on itself. No reviewer's decision may disappear by
  supersession; a rejection is lifted by its author only; an old decision never
  counts for new content; what the boundary passes nobody objects to.
* **Proposal store.** Agents share nothing but the directory, hold copies of the
  corpus that go stale, and die in the middle of a write. What was acknowledged
  stays; a revision is aimed at something that really was a candidate.
* **Generation.** The working tree, HEAD, the clock and the keys move while the
  run looks at them one after another, some of them twice, and the run may stop
  after each step with its directory left behind. No bundle, finished or not,
  may claim a verification that does not hold; `GENERATE_OK` on cert and record
  means a releasable bundle; an acknowledged bundle is never written again.
* **Keys.** Three files written one after the other by a process that may die.
  Key files that do not match are explained by a run that failed; a public key
  gives way to another only in a rotation that is logged; what was vouched for
  verifies with its key for ever and with no other.
* **Subprocesses.** A child may stall on a full pipe, leave a grandchild that
  holds the pipes open, or write its last line as the timeout fires. Success is
  reported only of the whole output, and every call returns.
* **Source records.** Records, lock and payload change one at a time; a revision
  that was superseded may be edited afterwards. The head of a document never
  goes back, and nothing verifies but the present head.
* **Graphs.** A patch operates on a working copy with loops and gaps; an adapter
  takes an ordinal as a block opens and emits the node as it closes; a drift
  comparison pairs moved nodes first come first served. What is accepted has one
  reading order, no text is lost or doubled, and equality means identity.
* **Judging evidence.** A selector is resolved three ways, results are parsed
  twice, a verdict is rendered three times, two bundles are compared by three
  procedures. None may call good what another calls bad, beyond the known cases
  that the properties name.

## 2. Modules and the code they model

| Module | Models | Composition |
|---|---|---|
| `ReviewCorpus` | record set, its validation, lifecycle, requirement claims of the approval boundary | base |
| `ProposalStore` | the store with its agents, over an evolving corpus | extends `ReviewCorpus`, instantiates it once more per agent on the loaded copy, instantiates `WriteOnce` |
| `WriteOnce` | what submitters and readers of proposals are promised | abstract specification |
| `SourcePatch` | the patch language on one source graph | base |
| `MCCorpus` | instances of the above | extends `ProposalStore` and `SourcePatch` |
| `FileMarks` | what a path without a whole file holds | constants shared by `Bundle` and `Keygen` |
| `Bundle`, `MCBundle` | `cargo evidence generate`, the verifier it calls, and the surroundings; symmetry | base |
| `ChildProcess` | a spawned process behind bounded pipes | base |
| `McpServer`, `PdfRunner` | its two parents | extend `ChildProcess` |
| `MCRunners` | fairness, and which parent a behaviour is of | extends both |
| `SourceLineage` | source records, gates, lock, payloads | base |
| `Reingestion` | patches on a committed graph, and drift against a second ingestion | instantiates `SourcePatch` |
| `Adapter` | sections, ordinals, anchors, assembly | instantiates `SourcePatch` for the validation |
| `MarkdownIngest`, `HtmlIngest`, `PdfIngest` | the three adapters | extend `Adapter` |
| `MCSourcePlane` | instances of the five above | extends them |
| `Keygen` | key files and log | base |
| `VerifyCommand` | a signed bundle, signing, and the verify command | extends `Keygen` |
| `TraceFiles` | trace files, validation, evidence state, backfill | base |
| `TraceReport` | requirement report, gates, back-links | extends `TraceFiles` |
| `BundleChecks` | the files of a bundle and the content checks | base |
| `BundleDiff` | the comparisons | extends `BundleChecks` |
| `TestCapture` | nextest stream and `cargo test` text | base |
| `MCAssessment` | instances of `Bundle` and of the key, trace, bundle-comparison and test-capture modules above | extends them |
| `*_proofs` | theorems (section 4) | extend the modules they are about |

A definition whose name has the form `Action_Fault` is a deliberately broken
variant of `Action`, kept beside it: each property of section 3 is refuted when
one such variant takes the place of the definition it varies (`mutants` in
`PROJECT.json`).

### ReviewCorpus

`content`, `reviews` and `claims` are the committed records: the current review
digest of every requirement and patch, the review nodes, and the pairs of an
artifact and the requirement it claims. A review carries its target and its
optional predecessor instead of derived edges. The actions are edits of record
files, as unconstrained as the loader is: a review may name a missing
predecessor, another reviewer's review, or itself. `insert` rejects a duplicate
uid, so `RecordReview` does.

`GraphValid` is the review part of `CorpusGraph::validate`, `Heads` the effective
heads, `DeriveState` the truth table shared by both lifecycles, `Evaluate` the
whole evaluation with its two refusals, `Boundary` the strict approval boundary
for requirement claims. `NoCycles` is stated as well-foundedness (every non-empty
set of reviews has a member that none of the set supersedes), which is what
proofs can use. `Walk` and `ComesBack` are the walk of `reject_cycles` with its
path, and `WalkFindsTheCycles` says that the two agree. Abstracted: field syntax, timestamps, rationale text, the digest
function (injective).

### ProposalStore, WriteOnce

An agent loads a copy of the graph (`LoadGraph`), passes the revision guards on
that copy (`MayRevise`), mints a uid and opens the file with `create_new`
(`OpenProposal`), writes in two parts, and fails or dies anywhere.
`ProposalUids` is the set a draw may return, so a collision is possible. `files`
holds how much of the bytes is there, since the serde defaults make a prefix
behind the required fields parse; the write that makes a file whole and the
return of the append (`Return`) are two steps, so a process may die between them.
`outcomes` records every `AppendOutcome` returned; `candidate` is a history
variable: pairs of a target and a digest that were a `Candidate` in some corpus
state. The corpus goes on changing by the actions of `ReviewCorpus`.

`WriteOnce` is a file of write-once registers as submitters and readers see it
together: free, a draft of a value, or final. A draft may be withdrawn, a final
value never changes or goes away, *acknowledged or not*, and only a final value
is acknowledged. The refinement maps a file that parses whole to a final register
(`Register`), any other file to a draft. That is more than durability of what was
returned: a clean-up that runs after the write was complete takes back what a
lister may have read, although nobody was told that it is stored
(`WriteFails_AfterTheWrite` refutes the refinement and not `ReturnedIsDurable`).

### Bundle

One action per step at which a run touches the repository, the key files or the
directory; `After` is the order of `cmd_generate` and `finalize_and_sign`.

| Action | Code |
|---|---|
| `Preflight` | the dirty check in `generate/phases.rs` |
| `SnapshotHead`, `SnapshotStatus` | `GitSnapshot::capture_with`, which asks git for the commit and last for the dirt, and the check of `EvidenceBuilder::new` (the branch is recorded and compared with nothing) |
| `CheckFresh`, `CreateDirectories` | `exists()`, then `create_dir_all` in `builder/naming.rs` |
| `FingerprintHead`, `CaptureEnv` | the fingerprint, which asks git both questions again |
| `HashInputs`, `RunTests`, `Assess` | hashing of inputs, captured tests, coverage, trace and compliance phases |
| `ResolveKey` | which signing key is planned; strict profiles need one |
| `RecheckSha`, `WriteManifest`, `WriteSums`, `WriteIndex` | `EvidenceBuilder::finalize` |
| `SelfVerify`, `RecordVerification`, `Sign`, `CheckPubkeyAnchor` | `finalize_and_sign` |
| `Closure` | `generator_closure` and the exit: a bundle is `acked` when `GENERATE_OK` is printed |
| `Stop` | every error return and every crash, at any step, with the file of that step cut off or not |

`dirs` maps the name of a bundle (profile, second, commit) to its files; a digest
is what it digests, so `SHA256SUMS` is the tuple it lists and the index holds the
sums and the manifest it was made from. `VerifyResult` keeps the order of the
verifier's checks; its content checks are the single verdict `report` here and
are modelled one by one in `BundleChecks`. `RecheckSha` goes on when git does not
answer, as the code does. `EditTree`, `Checkout` and `Tick` may happen between any
two steps; whichever key lies in the key file is read only in `Sign`.

### SourcePatch, Reingestion

In `SourcePatch`, `base` is any graph the loader accepts. A behaviour builds a
patch and applies it at once to `working`, operation by operation; an operation
that is not enabled is one `apply_patch` rejects. `Valid` is
`validate_graph_standalone`; `PromoteChildren` and `Subtree` are the two
dispositions of `remove`. Left out: content digests, fingerprints, locators (the
stored content digest is not updated between the operations of a patch,
`apply.rs:359`, so a later operation of the same patch has to quote the old one).

`Reingestion` starts from a committed graph. `CuratePatch` adds patches in every
state of review; `Effective` chains the approved ones as `effective_source_graph`
does, `BoundaryPasses` applies each alone as the approval boundary does. Then the
document is ingested again: `Reingest`, `SwapSiblings`, `ChangeRecipe`,
`ChangeExtractor` (the text extracted from a PDF, a plane that is skipped when the
baseline has none) and `RedoPatch` are what may differ, and `Reconciled`, `RePaired` and the findings
are the pairing passes of `compare_reingestion`, which never looks at uids. What
the model shows on the way, without a property of its own: nodes that got new
uids and nothing else always count as a changed effective graph; a moved
diagnostic locator counts as drift although it is documented as non-semantic; an
identical plane is reported as unequal when the committed graph has an ambiguous
key or a rejected or stale patch (`EqualMeansIdentical` is the direction that
holds); content pairing pairs roots, although roots are said to pair on exact
fingerprints only.

### ChildProcess, McpServer, PdfRunner

`ChildProcess` is a program nobody controls: it writes lines to two pipes of
bounded capacity, blocks while one is full, may leave a descendant (`heir`) that
keeps both pipes open, and exits, hangs or is killed. `McpServer` is the version
probe (`SpawnProbe`, `PollProbe`, `ReadProbe`, `JudgeProbe`), which does not read
while it polls, and the tool calls (`StartCall`, `Collect`, `TimeOut`, `Answer`),
which do; `Terminal` is the scan of `parse_jsonl`, where a line that cannot be
parsed is overwritten by a later coded one (section 5). `PdfRunner` is `run_in_dir`: `Drain` are
the two threads, `Poll` the loop with the deadline, `Join` the unbounded join and
the checks after it in their order, `Produce` what the extractor leaves in its
directory. `probe_version_blocking` is the same loop with `job = "probe"`. Calls of the
server share only the cached result of the probe, so one at a time is enough.

### SourceLineage

`records` are the committed revisions, `sourcesLock` and `payload` the two files
that follow them, `pastHeads` a history variable. `MayFollow` is
`validate_source_transition` over two accepted lineages, `DeriveLock` the lock
the tool writes, `Verification` the report of `verify_effective_sources`. People
commit any state the gate accepts, edit the lock and the files. The gate has no
caller in the command line tool; the model states what it is worth to one.

### Adapter and the three ingesters

The parser of each format is the environment: it opens and closes blocks in the
orders a document may have them and gives every run of text a number of its own.
The adapter's state is the code's: frames, open sections, `candidates`,
`ordinals`, anchors in use. `Slug` and `ClaimAnchor` are the anchors, `GraphIsValid`
is the validation after assembly, with the `Valid` of `SourcePatch`.
`MarkdownIngest` has an action per event (`adapter.rs`, `close.rs`), `HtmlIngest`
one per element opened, text given and element closed, because the two-pass walk
never looks ahead; `PdfIngest` begins pages and projects blocks in reading order.

What follows from the code and the model keeps: a repeated footnote definition
takes an ordinal and emits nothing, so the document is refused unless it is the
last child; a heading inside a quote or an item moves the content after it below
the heading; a PDF that repeats a section number is refused; in HTML, text in a
block nested in a child of `li` or `td` that is no block itself, or in a
heading, is dropped without a report (`unread`). `EveryTextIsKeptOnce` accounts
for that text, and `NothingIsDroppedSilently`, which says that there is none, is
refuted (section 5). Left out: locators, heading paths, normalisation
of text (a run is a number, so no two read the same, and documents refused for
two headings of the same words do not occur), note and caption selectors, printed
page labels.

### Keygen, VerifyCommand

`Keygen` writes the private key, the public key, the mode and the log in that
order, and `AbandonKeygen` ends it at any of them, the file of the step cut off
or not. After a create that died between the two keys, both modes refuse.
`VerifyCommand` adds one bundle: `Generate`, `SignBundle`, `CheckAnchor`,
`FinishUnsigned` are what a run of `generate` does with the keys as they are at
that moment, `EditEnvelope` and `DamageSignature` what happens later.
`ResolvedKey` is the key resolution, `HumanVerdict` and `Terminal` are the two
implementations of the verdict, with their exit codes. On a runtime error the
human and JSON forms exit with 2 and JSONL with 1; `FormatsAgree` names that as
the only difference. `--strict` passes when there is a signature and no key was
resolved for it. `VerifyResult::Skipped`, which both forms match, is constructed
by nothing but unit tests; its arms cannot be reached and have no counterpart.

### TraceFiles, TraceReport

`disk` maps each root to its five files; an entry has the fields the checks tell
apart. `Registered` and `LinksFail` are the validation, `EvidenceState` the
priority order over roots, `ValidatePasses`, `PhasePasses` and `DoctorPasses` the
gates, each with its own way to go over roots. The backfill reads a root whole,
renames in memory and writes the layers one after the other; `BackfillDies` stops
it between two files. Its renaming of placeholders is lost then, for good: the
next run draws other uids. `draws` counts the edits and deaths, and a uid
(`Fresh`) carries the count at which it was drawn, so that uids of runs that a
death or an edit lies between are never the same. Runs without one between them
draw again only for what the earlier one did not touch.
`TraceReport` resolves selectors three times as the code does: by suffix
(`Resolves`), by prefix (`Backlinks`), and by the end of the recorded name
(`Selected`), and cascades gaps to the rows of the report.

### BundleChecks, BundleDiff, TestCapture

A bundle is a function from paths to contents, a digest is the content.
`Finalized` is what `generate` writes, `ContentFindings` what `verify_bundle` says of it,
`Compare` the categories of `diff`, `Reproduction` the library's comparison.
People edit, remove, add and damage files. `TestCapture` runs the tests under
nextest, which interleaves binaries, splits one into several suites and may be
killed; `StreamSummary` and `Discrepancies` are the stream parser and its
reconciliation, `TextOutcomes` the pairing by position of the `cargo test`
parser. Binaries without a libtest harness would shift that pairing and are left
out, as is `parse_cargo_test_output_detailed`, which nothing outside the library
uses.

## 3. Runs

Four runs find no error, eight refute a sentence of the documentation
(section 5). Each of the four checks several behaviours that share no state: a
variable that never changes (`part`, `parent`) picks the one a behaviour is of,
and the actions of the others are disabled. Nothing is lost by that, since those
components meet in files that each of them models; the proposal store and the
review records, which do share state, are composed in the part `store`.

| Run | Part | Shows | Bounds |
|---|---|---|---|
| `Corpus` (1.1 million states) | `reviews` | type; `DecisionsNeverVanish`, `OnlyTheObjectorLiftsARejection`, `PassedBoundaryIsUncontested`, `WalkFindsTheCycles`; steps: `ReviewsAreLocal`, `EditsInheritNoDecision` | one requirement, one patch, 3 reviews by 2 people, 2 digests, 1 claim |
| | `store` | `ReturnedIsDurable`, `RevisionsTargetCandidates`, refinement `ImplementsWriteOnce` | 2 agents drawing the same uid, 1 requirement, 2 digests, 1 review that comes and goes (`OneReview`) |
| | `patch` | `ResultReadsInOneOrder`, `NoImplicitCascade` | every valid graph of at most 3 nodes, with a label on one node of at most two (`FewLabels`), patches of at most 2 operations, 2 kinds of which one may parent |
| `Assessment` (667 thousand) | `generate` | `VerificationStateIsTrue`, `SignaturesCoverWhatIsThere`, `AcknowledgedIsReleasable`, `AcknowledgedIsFinal`, `AcknowledgedVerdictIsHonest` | runs one after another on dev and cert, 2 commits (the second also serves as a dirty tree on top of the first), 2 keys of which one is the anchor, 2 seconds, 1 directory |
| | `custody` | `MismatchMeansAFailedKeygen`, `GeneratedVerifies`, `FormatsAgree`, step `ChainOfCustody` | 3 keys, 1 bundle edited once |
| | `trace` | `LinksSurviveBackfill`, `PassIsEarned`, `GatesAgree` | 2 trace roots, at most 3 edits and deaths of a backfill (`MaxDraws`) |
| | `capture` | `LossIsNoticed`, `CapturesAgree` | 5 tests of 5 targets in 2 groups |
| | `bundles` | `ComparisonsAgree`, `ContentHashSettles` | 2 bundles of 4 builds with at most 2 edits |
| `Runners` (301 thousand) | server, runner | `SuccessIsOfTheWholeStream`, `ExtractionIsComplete`; liveness: `EveryCallIsAnswered`, `ServerComesUp`, `RunnerReturns`, `NobodyIsStuckOnAPipe` | children of at most 2 lines per stream behind pipes of 1, extraction cap 1, probe cap 2, one of each kind of line |
| `SourcePlane` (928 thousand) | sources | `HeadsOnlyAdvance`, `VerifiedIsThePresentHead` | 3 revisions of 2 documents, 2 digests |
| | drift | `EqualMeansIdentical`, `EffectiveIsOnePatch` | graphs of at most 2 nodes with 2 changes or patches (extracted text changes for graphs of at most one node) |
| | three adapters | `EveryTextIsKeptOnce`, `IngestedGraphsAreValid` | documents of 3 blocks, 2 rows, 2 pages of 2 blocks |
| `ProposalStore_partial`, `Bundle_collision`, `Bundle_inputs`, `Bundle_unsigned`, `SourcePatch_labels`, `Server_malformed`, `SourcePlane_html`, `SourcePlane_patches` | | one violation each | the smallest in which it happens |

Why the bounds are enough for the interesting cases:

* Three reviews make every shape of supersession that a pairwise check would
  miss: a three-cycle, a chain whose middle is withdrawn, a fork, and a
  correction across reviewers or targets. Two reviewers are what an objection
  needs; two digests let content move and move back.
* Two agents with one uid collide at every pair of steps; with two digests and a
  review the loaded copy can be stale in every way the guard distinguishes.
* The part `generate` lets a run stop at each step, torn or not, and a retry start
  in the same second or the next one, at the same or another commit; while the
  first run is under way, HEAD and the tree move between any two of its steps.
  Three bounds are `MCAssessment`'s own: the clock moves between runs only
  (`BetweenRuns`; a run reads it once), HEAD and the tree stand still while a later
  run gets as far as finding the directory there (`LaterRun`), and the directory is
  the only one (`MaxBundles`), because a bundle's files depend on no other.
  `record` behaves as `cert` (`Strict`), so one of the two is enough. The other
  parts leave the bundle variables at one of their initial values.
* Beside the store there is one review, since what the revision guards read of the
  records is the state of one requirement; supersession is the part `reviews`.
* Three nodes give a removed node both a parent and a child, or a child and a
  sibling; labels matter where one is refused, which two nodes show; two operations let one run on what the other has disturbed.
* Two lines through a pipe of one make the child block; a cap of one against
  two lines makes an output that is over it; the four kinds of line are those
  `parse_jsonl` tells apart; a heir may come and go at every step. Two lines of
  coded output are what an overwritten terminal needs.
* Three revisions make a chain, a fork and a detour over another document.
  The capture modes `vendored` and `unavailable` are the two that differ in
  whether there is material; the other two behave as one of them in what is
  checked. Of a lock and its payloads, one file at a time is out of date.
* Two nodes are what pairing by text can swap; two changes can undo each other.
  Three blocks nest a container in a container around a leaf, or follow a
  heading by two siblings, and with a slug written by hand and one given.
* The trace instances are a chain from a system requirement to a test, the same
  with a second branch, one as the templates leave it with placeholders, beside
  a second root that is missing, unreadable, empty, or cites the first. An edit
  changes any field of any entry, and adds or removes one. Three edits and deaths
  let a run die twice and its remains be edited, or die, be edited and die again.
* The test targets are a binary with tests in two groups, one without a test,
  two integration binaries of one name, and a documentation test, with every
  combination of outcomes that the parsers tell apart.
* The builds are an empty dev bundle, cert bundles over two inputs, and a dev
  bundle of failed tests; an edit removes, damages, replaces or adds each file
  the verifier reads, and each field of `index.json` on its own.

Symmetry is used for values that no action, property or definition tells apart:
reviews, reviewers, commits and edits, sources, documents and digests, keys. No
run with symmetry checks liveness.

Deadlock is checked in every run but `Assessment`, where the edits and the number
of bundles are bounded and a captured test run comes to its end. In `SourcePlane` a document that was
ingested stays as it is (`Rest`), and so do records nobody edits; an adapter that
could not go on in the middle of a document would be a deadlock.

**Fairness** is stated in `MCRunners` only; nothing else owes anybody a reply.
Weak fairness of `ServerWorks`, `Drain`, `Poll` and `Join`: the tasks and threads
of the two parents are scheduled by tokio and the operating system, and each of
these steps stays enabled until it is taken. Nothing is assumed of the children,
which may hang for ever, nor of the heirs. Clocks are premises of the
properties: `TimeGoesOn` and `DeadlineComes` say that a deadline falls due or is
no longer waited for. Two properties carry one more, `[]<>~heir`: the probe of
the server and the join of the runner have no bound once the child is gone, so
they return only if descendants let go of the pipes again. `EveryCallIsAnswered`
needs no such premise, since the timeout of a tool call covers the reading too.
`NobodyIsStuckOnAPipe` speaks of executions in which no deadline ever comes: what
unblocks the child there is the reader and not the kill.

## 4. Proofs

All theorems are of the form `Spec => []Inv`, `Spec => [][A]_vars` or a
refinement, from the named assumptions on constants in the modules and nothing
else. (`ComparisonsAgree` and `GatesAgree` hold of every state and need no
specification; `PassIsEarned` asks of it only what the tests may report.) Each
states a property that a run checks.

**`ProposalStore_proofs`**, first part (the review plane; any sets of targets,
reviewers, digests and review uids): `TypeCorrect`, `VoicesKept`,
`ObjectorsRule`, `BoundarySound`, `Locality`, `EditsDecideNothing`,
`WalkIsComplete`. The type invariant, with the
uniqueness of uids in it, is inductive. The others are consequences of a valid
graph, not of a history. `VoiceHasHead` is the argument: take the reviews that
share reviewer, target and digest with a given one; by acyclicity one of them is
superseded by none of the set; a correction of it would have to match in all
three and would be in the set; so it is a head. `ObjectionStands` instantiates it
for a rejection, `HeadsAreLocal` shows that the heads of a target depend only on
the reviews of that target.

All of this rests on acyclicity in the form of `NoCycles`, and `WalkIsComplete`
is the proof that the walk of `reject_cycles` finds no cycle exactly when that
holds. If the walk comes back to a uid, the reviews between the two visits are
each superseded by one of them (`ComesBackInACycle`). If a set of reviews has no
member that the set leaves alone, every member has a corrector in the set; a
function that picks one is followed (`IterationExists`) for one step more than
there are reviews, two steps meet (`FS_PigeonHole`), and the walk from the later
of them runs back to it (`CycleIsWalked`). What makes the count finite is an
invariant, `FinitelyManyReviews`: records are committed one at a time. The
iteration is a function over numbers that is shown to exist through its finite
pieces and well-founded minimality, since the induction theorem of the library
cannot be instantiated here.

Second part (the store; any number of agents, any sets):
`AcknowledgedIsDurable`, `StoreRefinesWriteOnce`, `RevisionsAimAtCandidates`. The
inductive invariant `StoreInv` says who may still touch a file: a busy agent's file is not whole and
carries its action, no two busy agents share a uid, and what has been returned is
whole. Durability alone is not inductive: without the exclusion another agent's
clean-up could remove the file. For the refinement every step of an agent is one of
`WriteOnce` or a stutter: opening claims, clean-up withdraws a draft and never a
final value, because an agent that may still clean up has not written its file
whole. The third theorem adds `RevisionInv`: what a
loaded copy takes for a candidate was a candidate in the corpus when the copy was
made (`CopiesRemember`), and a file keeps the action it was opened with.

**`Bundle_proofs`** (any generators, commits, edits and
keys, any number of bundles and seconds, assuming `SerialRuns`):
`SerialRunsNeverOverwrite`, `IndexTellsTheTruth`, `SignatureIsOfTheBundle`,
`OkMeansReleasable`, `OkTellsTheVerdict`. The first rests on the invariant
`Final`: at most one run is not idle; an acknowledged directory has been made; a
run past the `exists()` test is at work on a name that is not acknowledged. It is
the test between `fresh` and `create` that establishes the last part, and exactly
this part two overlapping runs break (`Bundle_collision`), so the assumption
cannot be dropped. The other four rest on `VerdictInv`, which adds to `Final`

* `Track`, what the run at work knows at each of its steps of the files it has
  written so far and of the answers git gave it: without it nothing ties the
  index to the manifest and the sums beside it;
* honesty of every directory: an index that says `verified` has a verifier that
  agrees, and a signature is over the sums and the index that are there;
* that what was acknowledged on a strict profile is releasable.

A step of the run changes one file of one directory, and `Final` says that no
acknowledged directory is the one; `Stop` leaves the file of its step torn, and
a torn index says nothing.

**`Assessment_proofs`**, first part (any keys, any number of keygens and losses;
over `CustodySpec`, which is one part of `Assessment`): `MismatchExplained`,
`CustodyIsAChain`, `VouchedVerifies`, `FormatsAlwaysAgree`. `KeyringInv` follows
keygen step by step: the files of the steps taken hold the drawn key or are gone,
the drawn key is one no keygen has announced, and what was announced by rotation
is in the log; a public key in use that no line of the log names was announced by
create or is that of a keygen that was given up (`UnloggedIsExplained`). `BundleInv` says what a bundle that was vouched for, or is about
to be, carries. Without the freshness of drawn keys the private file of an
announced key could be written again with the mode of the umask.

**`SourcePlane_proofs`**, first part (any sources, documents and digests, over
`SourcesSpec`, one part of the run `SourcePlane`): `HeadsNeverGoBack`,
`VerifiedIsPresent`. A lineage the gate accepts is finite, so a document with
revisions has a head (a finite set in which every revision is superseded by
another contains a cycle), and the head reaches every revision of its document;
since nothing that was committed is rewritten, former heads stay reachable.

Second part (`RevisionSpec`: any committed graph, a second ingestion that presents
any graph and any records, operations of any effect; two uids of patches and at
most two records for each, as in `Reingestion`): `OnePatchIsEffective`,
`EqualIsIdentical`. What the run does to small graphs are steps of it
(`ReingestionIsARevision`). Inductive is `ReingestionInv`: a committed patch is
bound to the committed graph. A patch then applies to no other graph
(`AppliedToOne`), so of two approved patches the second fails unless the first
changed nothing, so an effective graph is the work of one patch at most, which is
`EffectiveIsOnePatch` (`ChainedIsAlone`). What the theorem does not say, and the
repository does, is that there is an effective graph once the boundary has passed;
that is refuted (`ApprovedContentIsSettled`, section 5).
The same fact settles equality: an approved patch that is still the same would
have been reported unappliable on any graph but the committed one, so it ties the
candidate graph to it; and without approved patches the two effective graphs,
which are compared as wholes, are the two graphs (`SameGraph`). The findings
about nodes are not needed: for a report without findings to mean identity, the
pairing of nodes by structure and text need not be right. The folds over the
approved patches are unfolded twice (`EffectiveInTwo`, `CandidateInTwo`), which is
why the number of patches stays fixed.

**`Runners_proofs`** (any bounds on lines, pipes and caps; over `ServerSpec` and
`RunnerSpec`, without fairness): `SuccessIsWhole`, `ExtractionIsWhole`. The
invariants `ServerInv` and `RunnerInv` say that what the parent has read, followed
by what lies in the pipe, is what the child wrote (`Accounted`), for as long as
the parent reads or, in the runner, for as long as the bound was not exceeded;
and that a stream read to its end stays at its end, because a child that is down
writes no more. That the runner keeps one line beyond the cap is what lets an
output of exactly the cap pass as whole and one more be noticed: keeping the cap
only would satisfy the check with a part of the output.

**`SourcePatch_proofs`** (any uids, patches of any length):
`AcceptedPatchesReadInOneOrder`, `RemovalNeverCascades`. For the first, all that the operations have to preserve is
`Shape`: finitely many nodes, with numbers for ordinals. The rest is what the
validation is worth, and rests on lemmas about subtrees. In an acyclic graph two
subtrees are nested or apart (`SubtreesAreNestedOrApart`), so no node is below two
siblings, and the two siblings that decide the order of two nodes are unique
(`SameSiblings`); climbing from both nodes finds them (`OneComesFirst`); and
siblings whose ordinals are 0..n-1 have n different ones (`SiblingsDiffer`, a
surjection between sets of one size). Acyclicity, resolved parents and contiguous
ordinals are each needed; the legality of kinds is not.

The second is about each operation, `promote_children` above all. As long as the
patch has moved or inserted nothing, the working copy is a graph in order whose
nodes come one after the other as in the base (`CascadeInv`); `NoImplicitCascade`
alone is not inductive, since a removal can only keep an order that is there.
Taking a subtree away keeps it at once. In a promotion the siblings and the
children of the removed node are numbered by rank in two groups, which is the
order of the children in the place of their parent (`PromotionOfSiblings`);
nodes further apart are decided by the siblings they are below, which are the
same before and after, or children that were promoted (`PromotionKeepsOrder`).

**`TextIngest_proofs`** and **`Ingest_proofs`** (documents of any length and
nesting, any layouts, spans and heading levels, over `Spec` of `MCSourcePlane`;
the bounds `MaxBlocks`, `MaxTexts`, `MaxRows`, `MaxCells` and `MaxPages` guard
the parser's steps and are not used): `GraphsIngestValid`, `TextsIngestOnce`.
Neither property is inductive, since each speaks of the nodes that have been
emitted and the adapters hand out ids and ordinals before. The invariants
`PdfInv`, `MarkdownInv` and `HtmlInv` share two halves.

* `Planted` is about the tree with the places that are taken but not filled yet
  (open frames in Markdown, open notes in HTML): ids and pairs of parent and
  ordinal are used once, every place has a parent of a smaller id that may bear
  its kind, and below each parent exactly the ordinals counted so far are taken.
  Taking the next ordinal keeps that (`PlantOne`; `PlantMany` for the padding of a
  table row). When the document ends no open place is left, so the places are the
  nodes, and `AssembledIsValid` gets the four checks of the validation from it;
  acyclicity by the greatest id of a set. A repeated footnote is the case where a
  place is taken and dropped, which is why `MarkdownInv` speaks of documents
  without one.
* `KeptOnce` is about the runs of text: each that was given and not reported lost
  is at one index of one node, frame, note or the buffer, and nothing else is
  there. One lemma for each way text moves: given (`KeptAsGiven`), joined to other
  text (`KeptAsJoined`), gone with its record (`KeptButOne`), put in a new one
  (`KeptInANew`). That labels are unique follows from it, as a heading is named
  after its text and no two share a run; notes differ by the id of the footnote.

What else an invariant has to remember is the nesting that the adapter relies on
without looking: the kinds of the open blocks are those of the frames
(`MarkdownStack`), no section has opened since an open paragraph did (so the one
a paragraph goes below, which is decided as it closes, has a smaller id), an HTML
element adds to a node that is there and of the right kind (`Rooted`), and there
are as many open notes as open quotes (`Nested`), so that a quote that closes takes its own note. Two
assumptions on constants are used: `SpansAreCounts` (the parser of attributes
yields positive spans) and `LinesAreSequences`.

**`Assessment_proofs`**, second part (bundles of any content, traces of any number
of roots and entries, any tests). Each theorem is over what its part of the `Assessment` run
does, with any initial files and any edits in the place of the instances:

* `ComparisonsAlwaysAgree` (any two bundles). `Compare` seen from the other side
  is `Compare` with missing and extra exchanged (`CompareMirrors`), and no
  finding of a digest plane means equal maps without malformed digests.
* `OneHashOneEvidence` (`PairSpec`, any edits). A bundle that verifies has the
  sums of its files (`VerifiedIsSealed`), so two with one content hash have one
  set of sums and read alike in all that is covered by them; the fields of
  `index.json` that `BackedFieldsAgree` names are read back from those files. A
  damaged `outputs_hashes.json` is the exception stated in the property: `verify`
  never parses it, so two bundles can verify, have one hash, and still be
  unverifiable to `diff`. It rests on `ReportsAreNoMeta`: no crate's report has
  the name of one of the files the sums do not cover.
* `PassIsAlwaysEarned` (any verdicts). By the layers from the tests up: a row says
  pass only if it has a child that does and none that is worse
  (`EarnedByTheChildren`, `UnderByTheChildren`). An entry whose link is refused is
  nobody's child, so its failing tests do not reach the row it meant to cite; the
  property speaks of the links the graph has, as the report does. It rests on
  `FnsAreFinite`, for the failures are counted.
* `GatesAlwaysAgree` (any disk). Roots that pass one by one pass together, unless
  what different roots register clashes: a link that resolves within its root
  resolves among all of them (`RegisteredGrows`, `EntriesFailLessTogether`,
  `ValidApartValidTogether`). That a back-link resolves
  whatever `Resolves` accepts holds of selectors that are the full name of a test
  that ran, which is what the property says.
* `CapturesAlwaysAgree` (`CaptureSpec`, any finitely many tests in any groups).
  Inductive is `StreamIsInOrder`: a line about a test is about one that ran, a
  summary is that of a suite, it comes after the tests of the suite, and nextest
  exits after all suites. From a stream that ended the records are the outcomes,
  and so are those of the text, if the headers come in the order of the targets
  with the documentation tests last (`DocTestsComeLast`) and no binary has the
  parser's name for none (`NoBinaryIsUnknown`).
* `LossIsAlwaysNoticed` (`CaptureSpec`). A sum of counts is the number of all that
  was counted if the parts are apart (`TotalOfParts`, by a bijection; no
  induction). So what `summarize_suites` finds passed or failed is the number of
  the tests with that outcome in the suites that were summed up, however they were
  grouped (`TallyCounts`, `StreamCounts`); what a binary ignores each suite counts
  in full, and the most of equal counts is that count (`IgnoredCounts`). The tests
  of the suites summed up are among those recorded; if the two numbers are the
  same, the two sets are (`CutsAreNoticed`), and a test that was executed and
  recorded has its suite's summary. Of ignored tests this is not true. The
  counters of the code stop at 2^32 - 1 tests, those of the model do not.
* `LinksAlwaysSurvive` (`BackfillSpec`: any roots, any number of runs, deaths and
  edits, and no bound on `draws` is used). `BackfillInv` has two halves. Whatever
  happened, a file has the entries it began with, each with its uid or, where it
  had none, one drawn since (`Grown`): uids drawn differ from each other and from
  whatever people wrote (`DrawnIsNoPlaceholder`; an edit may not write a uid that
  a later run will draw). As long as no run has died since the last edit, a link
  moreover names the entry it named (`Matched`), in what is on disk and in what is
  about to be written; half-written, the root at work is neither. Survival in the
  files alone is not inductive: the step to the next layer needs what the run
  remembers of those already written.

Stating these for every size corrected the model where the instances had been
too kind: the exceptions named above for damaged outputs, for children with a bad
link and for partial selectors are in the properties since, and uids drawn after
a death used to be those drawn before it.

Checked by TLC only:

* The four liveness properties of `Runners` (`EveryCallIsAnswered`,
  `ServerComesUp`, `RunnerReturns`, `NobodyIsStuckOnAPipe`), since fairness and
  ENABLED are out of the prover's reach. They are what is left: every other
  property of a passing run is a theorem.
* The eight refutations of section 5.

## 5. Disagreements between code and documentation

Each is a run that TLC refutes; details and quotations are in `PROJECT.json`.

1. `ProposalStore_partial`: "a malformed or partially written proposal fails
   closed when read" (`core/corpus/proposal.rs`). A file cut off in the content
   table is a well-formed shorter proposal. Nothing in the record (length,
   digest) would tell.
2. `Bundle_collision`: "Existing bundle directories are never overwritten"
   (`src/README.md`). Two runs of one profile, second and commit both pass
   `exists()`, and `create_dir_all` accepts the directory the other made.
3. `Bundle_inputs`: "a mid-run repo mutation is caught" (`core/bundle/builder.rs`).
   The recheck compares HEAD; an edit between snapshot and hashing is recorded
   as the input of a clean commit.
4. `Bundle_unsigned`: the integrity bit "never attests a signature on a bundle
   generate reported as failed" (`core/bundle/builder/completeness.rs`). The
   index announces the signature before the key is read.
5. `SourcePatch_labels`: labels are "unique within one kind and revision"
   (`core/corpus/source_graph.rs`). `replace_content` and `reclassify` change
   them without the check that `insert` makes, and validation does not look.
6. `Server_malformed`: after a line that cannot be parsed "the terminal stays
   `MCP_MALFORMED_JSONL` for the rest of the stream" (`mcp/subprocess.rs:225-228`).
   A later coded line overwrites it: a damaged stream that ends in `VERIFY_OK` is
   answered as one.
7. `SourcePlane_html`: "Silent dropping is forbidden; every configured exclusion
   and every element the projection cannot represent produces a diagnostic"
   (`core/corpus/ingest/html.rs:70-73`). A block nested in a heading, in a
   paragraph or in an inline element is skipped by `collect_text`, as one that has
   a node of its own, and never walked.
8. `SourcePlane_patches`: "any effective curated content is proven approved and
   producible" (`core/corpus/approval_boundary.rs:398-399`) and "two approved
   patches on one revision cannot both apply" (`core/corpus/effective_graph.rs:22-23`).
   The boundary applies approved patches one by one and passes two that cannot be
   chained; one that leaves the graph as it was lets the other apply after it.

The following deviations need no run, because they can be read off the code;
the modules model the code. None is counted as a finding.

* `ingest/pdf/runner.rs:297` does not join the threads after a timeout, because
  grandchildren may hold the pipes and would defeat the bound; after a normal exit
  it joins them all the same. `RunnerReturns` therefore has its second premise.
* `core/bundle/completeness.rs` looks for a failed `cargo test --workspace`, the
  capture records `cargo nextest run --workspace`: the finding
  `TestSummaryAbsentOnFailedRun` does not fire for generated bundles.
* A dev bundle whose test build failed has a summary of zeros and no suite in its
  output; `verify` reports that as a mismatch, though incompleteness on dev is
  documented as a warning.
* `cli/check.rs:273` leaves an invalid trace to the report, which "surfaces the
  structural problems as REQ_GAP diagnostics". Not all of them have a row there,
  and only the first root is read: `check` may say OK on a trace that
  `trace --validate` rejects. `GatesAgree` therefore claims less.
* `core/trace/test_backlinks.rs:28` says that its rule mirrors the resolver's; it
  goes by prefix, the resolver by path suffix (`GatesAgree` has the case they share).
* The "(no changes)" line of `cargo evidence diff` cannot be reached, since
  reviews and approvals are always `Unverifiable`.

## 6. What is not modelled

External in the map are the things the code relies on: the record edits people
make, the tree and HEAD as git reports them, the clock, the scheduling and death
of processes, the parsers of Markdown, HTML and PDF layout, and what `nextest`
and `cargo test` print.

Not modelled, and why:

* **Coverage, compliance reports, floors.** Arithmetic and tables over one set of
  records read at once; no state, no order, nothing two actors do. `Bundle` has
  their verdict as `sound` or `unsound`, `BundleChecks` and `BundleDiff` the files
  they leave in a bundle.
* **Boundary check, input scope and source baseline.** One pass over
  `cargo metadata` or a file list. The recheck of the recorded rules by the
  verifier is in `BundleChecks` (`BoundaryFindings`).
* **Corpus index and context.** Rendering of loaded records and look-up in them;
  what is loaded is judged in `ReviewCorpus`. The legacy loader's register of
  entries is in `TraceFiles`.
* **Rules, schema, init.** Read-only reports and templates. Of `doctor` and
  `check` only the gates are modelled, in `TraceFiles` and `TraceReport`.
* **Hashing, errors, diagnostics wording.** SHA-256 is taken as injective,
  Ed25519 as unforgeable; wording is left out.

Simplifications inside what is modelled:

* Torn writes cut a file off; they do not corrupt it otherwise, and the loss of
  data that had been written (no `fsync`) is not considered.
* One keygen runs at a time; two at once could interleave their writes. The
  backfill too has the trace files to itself.
* `verify` does not check the digests inside `inputs_hashes.json` and
  `outputs_hashes.json` against files, and fields of `index.json` that no file
  backs are covered by the signature only; `ContentHashSettles` is limited to
  the fields that some file does back.
* The text of failure messages and of logs is compared by nobody and left out.
* Errors of reading a file that is there are modelled where the code goes on
  after them, and end the operation elsewhere.

## 7. Plan

The modules were written in the order review plane, proposals, bundle, patches;
then subprocesses, the source plane, and what judges evidence; the theorems
followed each. What is left, in order of what it would add:

1. Two keygens at once, and a keygen beside a run of `generate`, in one
   composition of `Keygen` and `Bundle` (now `VerifyCommand` has the part of
   `Bundle` that touches keys).
2. Coverage and the compliance tables as operators, against a reference
   definition.
