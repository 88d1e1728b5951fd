-------------------------------- MODULE Bundle --------------------------------
(***************************************************************************)
(* `cargo evidence generate`: the run that turns a working tree into an    *)
(* evidence bundle, from the git preflight to GENERATE_OK, step by step at *)
(* the grain at which it touches the repository, the key files and the     *)
(* bundle directory.  Between two steps people commit, edit and rotate     *)
(* keys, the clock moves, and the run may stop: every error return and     *)
(* every crash ends the run where it is and leaves the directory behind.   *)
(*                                                                         *)
(* Digests are modelled as what they digest (SHA-256 as an injection), a   *)
(* source tree as an opaque version, trace, coverage and compliance data   *)
(* as "sound" or "unsound" for the content checks of the verifier.  Git is *)
(* there and answers; only finalize goes on when it does not.              *)
(***************************************************************************)
EXTENDS Naturals, FiniteSets, FileMarks

CONSTANTS
    Generators,     \* processes that run `generate` into one output root
    Commits,        \* commits; a clean working tree is named by its commit
    Edits,          \* versions of the tree that are no commit
    SigningKeys,    \* ed25519 key pairs
    Anchor,         \* the committed public key, or Nil
    Profiles,       \* of "dev", "cert", "record"
    LastSecond,     \* bound on the clock
    MaxBundles,     \* bound on the bundle directories in the output root
    SerialRuns      \* TRUE: nobody starts a run while another is going

ASSUME TreesDisjoint == Commits \cap Edits = {}
ASSUME AnchorIsAKey == Anchor \in SigningKeys \cup {Nil}
ASSUME ProfilesAreKnown == Profiles \subseteq {"dev", "cert", "record"}
ASSUME ClockIsBounded == LastSecond \in Nat
ASSUME FilesAreNotMarks == Nil # Torn /\ {Nil, Torn} \cap (Commits \cup Edits) = {}

\* What the files of a bundle hold; "partial" are inputs with a file left out.
Inputs == Commits \cup Edits \cup {"partial"}
TestOutcomes == {"clean", "failed"}
EnvFiles == [profile : Profiles, sha : Commits, dirty : BOOLEAN]
Projections == EnvFiles \X Inputs \X TestOutcomes
Listings == EnvFiles \X Inputs \X TestOutcomes \X {"sound", "unsound"} \X Projections
IndexFiles ==
    [profile : Profiles, sha : Commits, dirty : BOOLEAN, complete : BOOLEAN,
     contentHash : Listings, recipeHash : Projections,
     verification : {"Complete", "Incomplete", "Unverifiable"},
     integrity : {"Complete", "NotApplicable"}]

ASSUME FilesAreNoFragments == \A m \in {Nil, Torn} : m \notin IndexFiles /\ m \notin EnvFiles

VARIABLES
    head, tree,     \* the commit checked out, the content of the working tree
    clock,          \* seconds
    dirs,           \* the output root: bundle name -> files
    prerelease,     \* TOOL_IS_PRERELEASE of the installed build
    run,            \* what every generator is doing
    acked           \* every bundle reported with GENERATE_OK, as it then was

repoVars == <<head, tree, clock, prerelease>>
bundleVars == <<head, tree, clock, prerelease, dirs, run, acked>>

Strict(profile) == profile \in {"cert", "record"}
Names == Profiles \X (0..LastSecond) \X Commits

NoDir == [made |-> FALSE, env |-> Nil, inputs |-> Nil, commands |-> Nil, report |-> Nil,
          manifest |-> Nil, sums |-> Nil, index |-> Nil, sig |-> Nil]

Idle == [pc |-> "idle", profile |-> "dev", stamp |-> 0, sha |-> Nil, dirty |-> FALSE,
         seen |-> Nil, inputs |-> Nil, commands |-> Nil, planned |-> FALSE, key |-> Nil,
         verdict |-> Nil]

-----------------------------------------------------------------------------
(* verify_bundle.                                                          *)

\* The recipe projection of a bundle, and what SHA256SUMS lists.
Projection(d) == <<d.env, d.inputs, d.commands>>
Listing(d) == <<d.env, d.inputs, d.commands, d.report, d.manifest>>

RequiredMissing(d) ==
    Nil \in {d.env, d.inputs, d.commands, d.manifest, d.sums, d.index}

\* The findings of a bundle that has its files and whose index parses.
BundleFindings(d) ==
    {f \in {"ToolCommandsFailedSilently", "Content", "CrossFileInconsistency", "Prerelease",
            "HashMismatch", "ContentHashMismatch", "DeterministicHashMismatch",
            "ManifestProjectionDrift"} :
        \/ f = "ToolCommandsFailedSilently" /\ Strict(d.index.profile) /\ ~d.index.complete
        \/ f = "Content" /\ d.report # "sound"
        \/ f = "CrossFileInconsistency" /\ d.env # Torn
             /\ d.env # [profile |-> d.index.profile, sha |-> d.index.sha, dirty |-> d.index.dirty]
        \/ f = "Prerelease" /\ d.env # Torn /\ prerelease
        \/ f = "HashMismatch" /\ d.sums # Listing(d)
        \/ f = "ContentHashMismatch" /\ d.index.contentHash # d.sums
        \/ f = "DeterministicHashMismatch" /\ d.index.recipeHash # d.manifest
        \/ f = "ManifestProjectionDrift" /\ d.manifest # Projection(d)}

VerifyResult(d) ==
    IF ~d.made THEN [kind |-> "error", findings |-> {}]
    ELSE IF RequiredMissing(d) THEN [kind |-> "fail", findings |-> {"MissingHashedFile"}]
    ELSE IF d.index = Torn THEN [kind |-> "error", findings |-> {}]
    ELSE IF BundleFindings(d) # {} THEN [kind |-> "fail", findings |-> BundleFindings(d)]
    ELSE [kind |-> "pass", findings |-> {}]

Passes(d) == VerifyResult(d).kind = "pass"

\* verify_bundle_signature: the signature covers these two files as they are.
SignatureValid(d, key) == d.sig = [key |-> key, sums |-> d.sums, index |-> d.index]

-----------------------------------------------------------------------------
(* The order of cmd_generate and finalize_and_sign.                        *)

\* Faulty variants: the verification state is recorded after signing; it is
\* not recorded.
After_RecordsLast ==
    [preflight |-> "snapshot", snapshot |-> "status", status |-> "fresh", fresh |-> "create",
     create |-> "head", head |-> "env", env |-> "inputs", inputs |-> "tests",
     tests |-> "assess", assess |-> "key", key |-> "sha", sha |-> "manifest", manifest |-> "sums", sums |-> "index",
     index |-> "verify", verify |-> "sign", sign |-> "anchor", anchor |-> "record",
     record |-> "closure"]
After_SkipsRecording ==
    [preflight |-> "snapshot", snapshot |-> "status", status |-> "fresh", fresh |-> "create",
     create |-> "head", head |-> "env", env |-> "inputs", inputs |-> "tests",
     tests |-> "assess", assess |-> "key", key |-> "sha", sha |-> "manifest", manifest |-> "sums", sums |-> "index",
     index |-> "verify", verify |-> "sign", sign |-> "anchor", anchor |-> "closure"]

After ==
    [preflight |-> "snapshot", snapshot |-> "status", status |-> "fresh", fresh |-> "create",
     create |-> "head", head |-> "env", env |-> "inputs", inputs |-> "tests",
     tests |-> "assess", assess |-> "key", key |-> "sha", sha |-> "manifest", manifest |-> "sums", sums |-> "index",
     index |-> "verify", verify |-> "record", record |-> "sign", sign |-> "anchor",
     anchor |-> "closure"]

\* The file a step writes, when it writes one that another step reads.
Writes == [env |-> "env", inputs |-> "inputs", tests |-> "commands", manifest |-> "manifest",
           sums |-> "sums", index |-> "index", record |-> "index", sign |-> "sig"]

Name(g) == <<run[g].profile, run[g].stamp, run[g].sha>>
Dir(g) == dirs[Name(g)]
AtStep(g, step) == run[g].pc = step

\* The run goes on, having learnt what `r` holds; it writes the directory.
Proceed(g, r) == run' = [run EXCEPT ![g] = [r EXCEPT !.pc = After[run[g].pc]]]
Put(g, d) == dirs' = [dirs EXCEPT ![Name(g)] = d]

BundleInit ==
    /\ head \in Commits /\ tree = head
    /\ clock = 0
    /\ prerelease \in BOOLEAN
    /\ dirs = [n \in Names |-> NoDir]
    /\ run = [g \in Generators |-> Idle]
    /\ acked = {}

-----------------------------------------------------------------------------
(* The steps of a run.  A guard is what the code requires to go on; when it *)
(* does not hold the call returns an error, which is Stop.                  *)

Start(g, profile) ==
    /\ AtStep(g, "idle")
    /\ SerialRuns => \A h \in Generators : AtStep(h, "idle")
    /\ run' = [run EXCEPT ![g] = [Idle EXCEPT !.pc = "preflight", !.profile = profile]]
    /\ UNCHANGED <<repoVars, dirs, acked>>

Preflight(g) ==
    /\ AtStep(g, "preflight")
    /\ Strict(run[g].profile) => tree = head
    /\ Proceed(g, run[g])
    /\ UNCHANGED <<repoVars, dirs, acked>>

\* EvidenceBuilder::new: the stamp, and the first question of the git snapshot; the
\* name of the directory is settled.
SnapshotHead(g) ==
    /\ AtStep(g, "snapshot")
    /\ Proceed(g, [run[g] EXCEPT !.stamp = clock, !.sha = head])
    /\ UNCHANGED <<repoVars, dirs, acked>>

\* Faulty variant: the builder trusts the preflight's dirty check.
SnapshotStatus_TrustsPreflight(g) ==
    /\ AtStep(g, "status")
    /\ Proceed(g, [run[g] EXCEPT !.dirty = (tree # head)])
    /\ UNCHANGED <<repoVars, dirs, acked>>

\* The last question of the snapshot, is_dirty: git may stand elsewhere by now.
SnapshotStatus(g) ==
    /\ AtStep(g, "status")
    /\ Strict(run[g].profile) => tree = head
    /\ Proceed(g, [run[g] EXCEPT !.dirty = (tree # head)])
    /\ UNCHANGED <<repoVars, dirs, acked>>

\* Faulty variant: an existing directory is used again.
CheckFresh_Reuses(g) ==
    /\ AtStep(g, "fresh")
    /\ Proceed(g, run[g])
    /\ UNCHANGED <<repoVars, dirs, acked>>

\* create_bundle_directories: the exists() test ...
CheckFresh(g) ==
    /\ AtStep(g, "fresh")
    /\ ~Dir(g).made
    /\ Proceed(g, run[g])
    /\ UNCHANGED <<repoVars, dirs, acked>>

\* ... and create_dir_all, which does not mind a directory that is there.
CreateDirectories(g) ==
    /\ AtStep(g, "create")
    /\ ~Dir(g).made => Cardinality({n \in Names : dirs[n].made}) < MaxBundles
    /\ Put(g, [Dir(g) EXCEPT !.made = TRUE])
    /\ Proceed(g, run[g])
    /\ UNCHANGED <<repoVars, acked>>

\* The environment fingerprint asks git again, with two commands as well, ...
FingerprintHead(g) ==
    /\ AtStep(g, "head")
    /\ Proceed(g, [run[g] EXCEPT !.seen = head])
    /\ UNCHANGED <<repoVars, dirs, acked>>

\* ... and env.json is written.
CaptureEnv(g) ==
    /\ AtStep(g, "env")
    /\ Put(g, [Dir(g) EXCEPT !.env = [profile |-> run[g].profile, sha |-> run[g].seen,
                                      dirty |-> (tree # head)]])
    /\ Proceed(g, run[g])
    /\ UNCHANGED <<repoVars, acked>>

\* hash_in_scope_sources and the first write of the hash files; on dev a file
\* that cannot be hashed is only a warning.
HashInputs(g) ==
    /\ AtStep(g, "inputs")
    /\ \E v \in {tree} \cup (IF Strict(run[g].profile) THEN {} ELSE {"partial"}) :
        /\ Put(g, [Dir(g) EXCEPT !.inputs = v, !.commands = "none"])
        /\ Proceed(g, [run[g] EXCEPT !.inputs = v])
    /\ UNCHANGED <<repoVars, acked>>

\* The captured tests, failed or not, then commands.json and outputs_hashes.json.
RunTests(g) ==
    /\ AtStep(g, "tests")
    /\ \E c \in {"clean", "failed"} :
        /\ Put(g, [Dir(g) EXCEPT !.commands = c])
        /\ Proceed(g, [run[g] EXCEPT !.commands = c])
    /\ UNCHANGED <<repoVars, acked>>

\* Coverage, trace validation, test outcomes, trace copies, compliance reports.
\* What the phases themselves reject ends the run; not everything the verifier
\* would find is seen here.
Assess(g) ==
    /\ AtStep(g, "assess")
    /\ \E s \in {"sound", "unsound"} : Put(g, [Dir(g) EXCEPT !.report = s])
    /\ Proceed(g, run[g])
    /\ UNCHANGED <<repoVars, acked>>

\* A flag or the environment names a key, which need not be there; else the
\* default key if it exists; without one only a dev run goes on.
ResolveKey(g) ==
    /\ AtStep(g, "key")
    /\ \E planned \in BOOLEAN :
        /\ Strict(run[g].profile) => planned
        /\ Proceed(g, [run[g] EXCEPT !.planned = planned])
    /\ UNCHANGED <<repoVars, dirs, acked>>

\* finalize goes on unless git answers that HEAD has moved.
RecheckSha(g) ==
    /\ AtStep(g, "sha")
    /\ \E answers \in BOOLEAN : answers => head = run[g].sha
    /\ Proceed(g, run[g])
    /\ UNCHANGED <<repoVars, dirs, acked>>

\* The manifest projects env.json as it is on disk with the run's own record.
WriteManifest(g) ==
    /\ AtStep(g, "manifest")
    /\ Dir(g).env # Nil
    /\ Put(g, [Dir(g) EXCEPT !.manifest = <<Dir(g).env, run[g].inputs, run[g].commands>>])
    /\ Proceed(g, run[g])
    /\ UNCHANGED <<repoVars, acked>>

WriteSums(g) ==
    /\ AtStep(g, "sums")
    /\ Put(g, [Dir(g) EXCEPT !.sums = Listing(Dir(g))])
    /\ Proceed(g, run[g])
    /\ UNCHANGED <<repoVars, acked>>

\* Faulty variant: the verdict is written before there is one.
IndexOf_AssumesVerified(g) ==
    [profile |-> run[g].profile, sha |-> run[g].sha, dirty |-> run[g].dirty,
     complete |-> run[g].commands # "failed",
     contentHash |-> Dir(g).sums, recipeHash |-> Dir(g).manifest,
     verification |-> "Complete",
     integrity |-> IF run[g].planned THEN "Complete" ELSE "NotApplicable"]

IndexOf(g) ==
    [profile |-> run[g].profile, sha |-> run[g].sha, dirty |-> run[g].dirty,
     complete |-> run[g].commands # "failed",
     contentHash |-> Dir(g).sums, recipeHash |-> Dir(g).manifest,
     verification |-> "Unverifiable",
     integrity |-> IF run[g].planned THEN "Complete" ELSE "NotApplicable"]

WriteIndex(g) ==
    /\ AtStep(g, "index")
    /\ Put(g, [Dir(g) EXCEPT !.index = IndexOf(g)])
    /\ Proceed(g, run[g])
    /\ UNCHANGED <<repoVars, acked>>

SelfVerify(g) ==
    /\ AtStep(g, "verify")
    /\ Proceed(g, [run[g] EXCEPT !.verdict = VerifyResult(Dir(g)).kind])
    /\ UNCHANGED <<repoVars, dirs, acked>>

VerificationState ==
    [pass |-> "Complete", fail |-> "Incomplete", error |-> "Unverifiable"]

\* record_verification_state reads, patches and rewrites index.json.
RecordVerification(g) ==
    /\ AtStep(g, "record")
    /\ Dir(g).index \notin {Nil, Torn}
    /\ Put(g, [Dir(g) EXCEPT !.index.verification = VerificationState[run[g].verdict]])
    /\ Proceed(g, run[g])
    /\ UNCHANGED <<repoVars, acked>>

\* The key file is read only now (it may have gone, or hold another key than
\* when it was resolved), and the envelope as it is on disk is signed.
Sign(g) ==
    /\ AtStep(g, "sign")
    /\ IF run[g].planned
       THEN /\ Dir(g).sums # Nil /\ Dir(g).index # Nil
            /\ \E k \in SigningKeys :
                /\ Put(g, [Dir(g) EXCEPT !.sig = [key |-> k, sums |-> Dir(g).sums,
                                                  index |-> Dir(g).index]])
                /\ Proceed(g, [run[g] EXCEPT !.key = k])
       ELSE Proceed(g, run[g]) /\ UNCHANGED dirs
    /\ UNCHANGED <<repoVars, acked>>

\* check_pubkey_anchor: the committed public key, if there is one, must be that
\* of the key that signed.
CheckPubkeyAnchor(g) ==
    /\ AtStep(g, "anchor")
    /\ run[g].planned /\ Anchor # Nil => run[g].key = Anchor
    /\ Proceed(g, run[g])
    /\ UNCHANGED <<repoVars, dirs, acked>>

\* closure_blocking: a pre-release tool is tolerated on dev only.
Blocking(result, profile) ==
    IF result.kind = "error" THEN {"could not run"}
    ELSE result.findings \ (IF Strict(profile) THEN {} ELSE {"Prerelease"})

\* generator_closure verifies the finished bundle; then GENERATE_OK.
Closure(g) ==
    /\ AtStep(g, "closure")
    /\ Blocking(VerifyResult(Dir(g)), run[g].profile) = {}
    /\ ~(Strict(run[g].profile) /\ run[g].commands = "failed")
    /\ acked' = acked \cup {<<Name(g), Dir(g)>>}
    /\ run' = [run EXCEPT ![g] = Idle]
    /\ UNCHANGED <<repoVars, dirs>>

\* The run ends here: an error return, or the process dies, perhaps in the
\* middle of the file the step writes.
Stop(g) ==
    /\ ~AtStep(g, "idle")
    /\ \/ UNCHANGED dirs
       \/ /\ run[g].pc \in DOMAIN Writes
          /\ run[g].pc = "sign" => run[g].planned
          /\ Put(g, [Dir(g) EXCEPT ![Writes[run[g].pc]] = Torn])
    /\ run' = [run EXCEPT ![g] = Idle]
    /\ UNCHANGED <<repoVars, acked>>

-----------------------------------------------------------------------------
(* What happens around the run.                                            *)

EditTree == \E v \in Commits \cup Edits : tree' = v /\ UNCHANGED <<head, clock>>
Checkout == \E c \in Commits : head' = c /\ tree' = c /\ UNCHANGED clock
Tick == clock < LastSecond /\ clock' = clock + 1 /\ UNCHANGED <<head, tree>>

Surroundings ==
    /\ EditTree \/ Checkout \/ Tick
    /\ UNCHANGED <<prerelease, dirs, run, acked>>

Step(g) ==
    \/ \E profile \in Profiles : Start(g, profile)
    \/ Preflight(g) \/ SnapshotHead(g) \/ SnapshotStatus(g) \/ CheckFresh(g)
    \/ CreateDirectories(g) \/ FingerprintHead(g) \/ CaptureEnv(g) \/ HashInputs(g) \/ RunTests(g) \/ Assess(g)
    \/ ResolveKey(g) \/ RecheckSha(g) \/ WriteManifest(g) \/ WriteSums(g) \/ WriteIndex(g)
    \/ SelfVerify(g) \/ RecordVerification(g) \/ Sign(g) \/ CheckPubkeyAnchor(g)
    \/ Closure(g) \/ Stop(g)

BundleNext == Surroundings \/ \E g \in Generators : Step(g)

BundleSpec == BundleInit /\ [][BundleNext]_bundleVars

-----------------------------------------------------------------------------
(* Properties.                                                             *)

\* The index claims a passed verification only of a bundle that passes: in
\* every state, also when the run stopped half way, the verifier run again
\* agrees with the recorded verdict (finalize_and_sign records between the
\* self-verification and the signature; nothing hashed changes afterwards).
VerificationStateIsTrue ==
    \A n \in Names :
        dirs[n].index \notin {Nil, Torn} =>
            (dirs[n].index.verification = "Complete" => Passes(dirs[n]))

\* On a bundle reported with GENERATE_OK the recorded verdict is exactly what
\* the verifier says, in both directions: a dev bundle of a pre-release build
\* is acknowledged although it does not pass, and must not claim that it does.
AcknowledgedVerdictIsHonest ==
    \A e \in acked : e[2].index.verification = "Complete" <=> Passes(e[2])

\* A signature that is on disk is a signature of the envelope that is on disk,
\* whatever happens to the run afterwards (sign_bundle must come after the
\* last write of index.json).
SignaturesCoverWhatIsThere ==
    \A n \in Names :
        dirs[n].sig \notin {Nil, Torn} => SignatureValid(dirs[n], dirs[n].sig.key)

\* GENERATE_OK on cert and record means a releasable bundle: it passes the
\* verifier and says so, every captured command succeeded, git called
\* itself clean at the snapshot and at the fingerprint and named the commit of the
\* directory both times, and it is signed, by the committed key if there is one.
AcknowledgedIsReleasable ==
    \A e \in acked :
        LET n == e[1] d == e[2] IN
        Strict(n[1]) =>
            /\ Passes(d)
            /\ d.index.verification = "Complete" /\ d.index.integrity = "Complete"
            /\ d.commands = "clean" /\ d.report = "sound"
            /\ d.env = [profile |-> n[1], sha |-> n[3], dirty |-> FALSE]
            /\ \E k \in SigningKeys : SignatureValid(d, k) /\ (Anchor # Nil => k = Anchor)

\* A bundle reported with GENERATE_OK stays as it was reported: no later run,
\* retry or crash writes into its directory ("Existing bundle directories are
\* never overwritten", README.md).
AcknowledgedIsFinal ==
    \A e \in acked : dirs[e[1]] = e[2]

\* "with a TOCTOU re-check on `git_sha` so a mid-run repo mutation is caught"
\* (builder.rs): the inputs a strict bundle lists are the content of the commit
\* it names.
AcknowledgedInputsAreTheCommit ==
    \A e \in acked : Strict(e[1][1]) => e[2].inputs = e[1][3]

\* "the bit never attests a signature on a bundle generate reported as failed"
\* (builder/completeness.rs): once no run is at work on a directory, an index
\* that claims integrity lies next to a signature.
IntegrityAttestsASignature ==
    \A n \in Names :
        \/ dirs[n].index \in {Nil, Torn}
        \/ \E g \in Generators : run[g].pc # "idle" /\ Name(g) = n
        \/ dirs[n].index.integrity = "Complete" => dirs[n].sig # Nil
=============================================================================
