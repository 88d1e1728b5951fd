---------------------------- MODULE Bundle_proofs ----------------------------
(***************************************************************************)
(* What `generate` guarantees of finished bundles when nobody starts a run *)
(* while another is going, for every number of commits, keys, profiles and *)
(* seconds, and whatever happens between two steps of a run: they are      *)
(* final, and what they say of themselves is true.                         *)
(*                                                                         *)
(* Final says that a run past the exists() test has its directory to       *)
(* itself.  Track, which rests on it, says what the run has made of the    *)
(* directory once it has come to a step.  It is why the order of the steps *)
(* is right: all that is hashed is written before there is an index, the   *)
(* index is last written between the self-verification and the signature,  *)
(* and nothing the verdict or the signature depends on is touched after.   *)
(***************************************************************************)
EXTENDS Bundle, TLAPS

\* The steps in which a run has passed the exists() test.
Late == {"create", "head", "env", "inputs", "tests", "assess", "key", "sha", "manifest", "sums",
         "index", "verify", "record", "sign", "anchor", "closure"}

Early == {"idle", "preflight", "snapshot", "status", "fresh"}

\* The early steps of a run that knows the name of its directory.
NamedEarly == {"status", "fresh"}

\* The inductive invariant: at most one run is going, an acknowledged bundle is
\* in its directory as it was, and a run past the exists() test works on a
\* directory that no acknowledged bundle has.
Final ==
    /\ head \in Commits /\ clock \in 0..LastSecond
    /\ DOMAIN run = Generators /\ DOMAIN dirs = Names
    /\ \A g \in Generators : DOMAIN run[g] = DOMAIN Idle /\ run[g].pc \in Early \cup Late
    /\ \A g, h \in Generators : g # h => AtStep(g, "idle") \/ AtStep(h, "idle")
    /\ \A e \in acked : e[1] \in Names /\ dirs[e[1]] = e[2] /\ dirs[e[1]].made
    /\ \A g \in Generators : run[g].pc \in {"preflight", "snapshot"} => run[g].profile \in Profiles
    /\ \A g \in Generators : run[g].pc \in Late \cup NamedEarly => Name(g) \in Names
    /\ \A g \in Generators : run[g].pc \in Late => \A e \in acked : e[1] # Name(g)

\* A run past the exists() test goes on under its name, or ends, and writes at
\* most its own directory.
Works(g) ==
    /\ run[g].pc \in Late
    /\ \E r : /\ run' = [run EXCEPT ![g] = r]
              /\ DOMAIN r = DOMAIN Idle
              /\ \/ r.pc = "idle"
                 \/ r.pc \in Late /\ <<r.profile, r.stamp, r.sha>> = Name(g)
    /\ dirs' = dirs \/ \E d : Put(g, d)
    /\ UNCHANGED <<head, clock, acked>>

\* A run goes on in its early steps, or ends, and writes nothing.
Prepares(g) ==
    /\ run[g].pc \in Early \ {"idle"}
    /\ \E r : /\ run' = [run EXCEPT ![g] = r]
              /\ DOMAIN r = DOMAIN Idle
              /\ \/ r.pc = "idle"
                 \/ r.pc = "snapshot" /\ r.profile \in Profiles
                 \/ r.pc \in NamedEarly /\ <<r.profile, r.stamp, r.sha>> \in Names
    /\ UNCHANGED <<head, clock, dirs, acked>>

-----------------------------------------------------------------------------

\* The steps of a run past the exists() test (cmd_generate, from the creation
\* of the directories to the check of the anchor).
LEMMA LateSteps ==
    ASSUME Final, NEW g \in Generators,
           \/ CreateDirectories(g) \/ FingerprintHead(g) \/ CaptureEnv(g) \/ HashInputs(g) \/ RunTests(g)
           \/ Assess(g) \/ ResolveKey(g) \/ RecheckSha(g) \/ WriteManifest(g) \/ WriteSums(g)
           \/ WriteIndex(g) \/ SelfVerify(g) \/ RecordVerification(g) \/ Sign(g)
           \/ CheckPubkeyAnchor(g)
    PROVE  Works(g)
<1>1. DOMAIN run[g] = DOMAIN Idle BY DEF Final
<1>2. DOMAIN Idle = {"pc", "profile", "stamp", "sha", "dirty", "seen", "inputs", "commands", "planned",
                     "key", "verdict"} BY DEF Idle
<1>3. ASSUME NEW r, Proceed(g, r), DOMAIN r = DOMAIN Idle, run[g].pc \in Late \ {"closure"},
             <<r.profile, r.stamp, r.sha>> = Name(g)
      PROVE  \E q : /\ run' = [run EXCEPT ![g] = q]
                    /\ DOMAIN q = DOMAIN Idle
                    /\ q.pc \in Late /\ <<q.profile, q.stamp, q.sha>> = Name(g)
  <2> DEFINE q == [r EXCEPT !.pc = After[run[g].pc]]
  <2>1. DOMAIN q = DOMAIN Idle BY <1>3
  <2>2. q.pc = After[run[g].pc] BY <1>2, <1>3
  <2>3. q.pc \in Late BY <1>3, <2>2 DEF After, Late
  <2>4. <<q.profile, q.stamp, q.sha>> = <<r.profile, r.stamp, r.sha>> BY <1>2, <1>3
  <2> QED BY <1>3, <2>1, <2>3, <2>4 DEF Proceed
<1>4. CASE CreateDirectories(g)
  BY <1>1, <1>3, <1>4 DEF CreateDirectories, Works, AtStep, Late, Name, repoVars
<1>18. CASE FingerprintHead(g)
  <2>1. Proceed(g, [run[g] EXCEPT !.seen = head])
    BY <1>18 DEF FingerprintHead
  <2> QED BY <1>1, <1>2, <1>3, <1>18, <2>1 DEF FingerprintHead, Works, AtStep, Late, Name, repoVars
<1>5. CASE CaptureEnv(g)
  BY <1>1, <1>3, <1>5 DEF CaptureEnv, Works, AtStep, Late, Name, repoVars
<1>6. CASE HashInputs(g)
  <2>1. PICK v : /\ Put(g, [Dir(g) EXCEPT !.inputs = v, !.commands = "none"])
                 /\ Proceed(g, [run[g] EXCEPT !.inputs = v])
    BY <1>6 DEF HashInputs
  <2> QED BY <1>1, <1>2, <1>3, <1>6, <2>1 DEF HashInputs, Works, AtStep, Late, Name, repoVars
<1>7. CASE RunTests(g)
  <2>1. PICK c : /\ Put(g, [Dir(g) EXCEPT !.commands = c])
                 /\ Proceed(g, [run[g] EXCEPT !.commands = c])
    BY <1>7 DEF RunTests
  <2> QED BY <1>1, <1>2, <1>3, <1>7, <2>1 DEF RunTests, Works, AtStep, Late, Name, repoVars
<1>8. CASE Assess(g)
  BY <1>1, <1>3, <1>8 DEF Assess, Works, AtStep, Late, Name, repoVars
<1>9. CASE ResolveKey(g)
  <2>1. PICK planned : Proceed(g, [run[g] EXCEPT !.planned = planned])
    BY <1>9 DEF ResolveKey
  <2> QED BY <1>1, <1>2, <1>3, <1>9, <2>1 DEF ResolveKey, Works, AtStep, Late, Name, repoVars
<1>10. CASE RecheckSha(g)
  BY <1>1, <1>3, <1>10 DEF RecheckSha, Works, AtStep, Late, Name, repoVars
<1>11. CASE WriteManifest(g)
  BY <1>1, <1>3, <1>11 DEF WriteManifest, Works, AtStep, Late, Name, repoVars
<1>12. CASE WriteSums(g)
  BY <1>1, <1>3, <1>12 DEF WriteSums, Works, AtStep, Late, Name, repoVars
<1>13. CASE WriteIndex(g)
  BY <1>1, <1>3, <1>13 DEF WriteIndex, Works, AtStep, Late, Name, repoVars
<1>14. CASE SelfVerify(g)
  BY <1>1, <1>2, <1>3, <1>14 DEF SelfVerify, Works, AtStep, Late, Name, repoVars
<1>15. CASE RecordVerification(g)
  BY <1>1, <1>3, <1>15 DEF RecordVerification, Works, AtStep, Late, Name, repoVars
<1>16. CASE Sign(g)
  <2>1. \/ \E k : Proceed(g, [run[g] EXCEPT !.key = k])
        \/ Proceed(g, run[g])
    BY <1>16 DEF Sign
  <2>2. dirs' = dirs \/ \E d : Put(g, d) BY <1>16 DEF Sign
  <2> QED BY <1>1, <1>2, <1>3, <1>16, <2>1, <2>2 DEF Sign, Works, AtStep, Late, Name, repoVars
<1>17. CASE CheckPubkeyAnchor(g)
  BY <1>1, <1>3, <1>17 DEF CheckPubkeyAnchor, Works, AtStep, Late, Name, repoVars
<1> QED BY <1>4, <1>5, <1>6, <1>7, <1>8, <1>9, <1>10, <1>11, <1>12, <1>13, <1>14, <1>15, <1>16,
           <1>17, <1>18

\* The steps before that test, but for the test itself.
LEMMA EarlySteps ==
    ASSUME Final, NEW g \in Generators,
           Preflight(g) \/ SnapshotHead(g) \/ SnapshotStatus(g)
    PROVE  Prepares(g)
<1>1. DOMAIN run[g] = DOMAIN Idle BY DEF Final
<1>2. DOMAIN Idle = {"pc", "profile", "stamp", "sha", "dirty", "seen", "inputs", "commands", "planned",
                     "key", "verdict"} BY DEF Idle
<1>3. CASE Preflight(g)
  <2> DEFINE q == [run[g] EXCEPT !.pc = "snapshot"]
  <2>1. run' = [run EXCEPT ![g] = q] /\ UNCHANGED <<head, clock, dirs, acked>>
    BY <1>3 DEF Preflight, Proceed, AtStep, After, repoVars
  <2>2. DOMAIN q = DOMAIN Idle /\ q.pc = "snapshot" /\ q.profile = run[g].profile
    BY <1>1, <1>2
  <2> QED BY <1>3, <2>1, <2>2 DEF Final, Preflight, Prepares, AtStep, Early
<1>4. CASE SnapshotHead(g)
  <2> DEFINE r == [run[g] EXCEPT !.stamp = clock, !.sha = head]
             q == [r EXCEPT !.pc = "status"]
  <2>1. run' = [run EXCEPT ![g] = q] /\ UNCHANGED <<head, clock, dirs, acked>>
    BY <1>4 DEF SnapshotHead, Proceed, AtStep, After, repoVars
  <2>2. /\ DOMAIN q = DOMAIN Idle /\ q.pc = "status"
        /\ q.profile = run[g].profile /\ q.stamp = clock /\ q.sha = head
    BY <1>1, <1>2
  <2>3. <<q.profile, q.stamp, q.sha>> \in Names
    BY <1>4, <2>2 DEF Final, SnapshotHead, AtStep, Names
  <2> HIDE DEF q
  <2> QED BY <1>4, <2>1, <2>2, <2>3 DEF SnapshotHead, Prepares, AtStep, Early, NamedEarly
<1>5. CASE SnapshotStatus(g)
  <2> DEFINE r == [run[g] EXCEPT !.dirty = (tree # head)]
             q == [r EXCEPT !.pc = "fresh"]
  <2>1. run' = [run EXCEPT ![g] = q] /\ UNCHANGED <<head, clock, dirs, acked>>
    BY <1>5 DEF SnapshotStatus, Proceed, AtStep, After, repoVars
  <2>2. /\ DOMAIN q = DOMAIN Idle /\ q.pc = "fresh"
        /\ <<q.profile, q.stamp, q.sha>> = Name(g)
    BY <1>1, <1>2 DEF Name
  <2>3. Name(g) \in Names
    BY <1>5 DEF Final, SnapshotStatus, AtStep, NamedEarly
  <2> HIDE DEF q
  <2> QED BY <1>5, <2>1, <2>2, <2>3 DEF SnapshotStatus, Prepares, AtStep, Early, NamedEarly
<1> QED BY <1>3, <1>4, <1>5

\* A run that stops, wherever it is.
LEMMA StopSteps ==
    ASSUME Final, NEW g \in Generators, Stop(g)
    PROVE  Works(g) \/ Prepares(g)
<1>1. run[g].pc \in Early \cup Late /\ run[g].pc # "idle" BY DEF Final, Stop, AtStep
<1>2. run' = [run EXCEPT ![g] = Idle] /\ Idle.pc = "idle" /\ UNCHANGED <<head, clock, acked>>
  BY DEF Stop, Idle, repoVars
<1>3. dirs' = dirs \/ (run[g].pc \in DOMAIN Writes /\ \E d : Put(g, d)) BY DEF Stop
<1>4. run[g].pc \in DOMAIN Writes => run[g].pc \in Late BY DEF Writes, Late
<1>5. CASE run[g].pc \in Late
  BY <1>2, <1>3, <1>5 DEF Works
<1>6. CASE run[g].pc \in Early \ {"idle"} /\ run[g].pc \notin Late
  BY <1>2, <1>3, <1>4, <1>6 DEF Prepares, Early
<1> QED BY <1>1, <1>5, <1>6

\* Both kinds of step keep the invariant.
LEMMA WorksKeepsFinal ==
    ASSUME Final, NEW g \in Generators, Works(g) \/ Prepares(g)
    PROVE  Final'
<1>1. PICK r : /\ run' = [run EXCEPT ![g] = r]
               /\ DOMAIN r = DOMAIN Idle
               /\ r.pc \in Early \cup Late
               /\ r.pc \in {"preflight", "snapshot"} => r.profile \in Profiles
               /\ r.pc \in NamedEarly => <<r.profile, r.stamp, r.sha>> \in Names
               /\ r.pc \in Late => <<r.profile, r.stamp, r.sha>> = Name(g) /\ run[g].pc \in Late
  BY DEF Works, Prepares, Early, Late, NamedEarly
<1>2. run'[g] = r /\ \A h \in Generators \ {g} : run'[h] = run[h]
  BY <1>1 DEF Final
<1>3. UNCHANGED <<head, clock, acked>> BY DEF Works, Prepares
<1>4. run[g].pc # "idle" BY DEF Works, Prepares, Late
<1>5. \A h \in Generators \ {g} : AtStep(h, "idle") BY <1>4 DEF Final, AtStep
<1>6. DOMAIN dirs' = Names /\ \A e \in acked : dirs'[e[1]] = dirs[e[1]]
  <2>1. CASE dirs' = dirs BY <2>1 DEF Final
  <2>2. CASE Works(g) /\ \E d : Put(g, d) BY <2>2 DEF Works, Put, Final
  <2> QED BY <2>1, <2>2 DEF Works, Prepares
<1>7. \A h \in Generators : run'[h].pc \in Late => \A e \in acked : e[1] # Name(h)'
  <2>1. \A h \in Generators \ {g} : run'[h].pc \notin Late BY <1>2, <1>5 DEF AtStep, Late
  <2>2. r.pc \in Late => Name(g)' = Name(g) BY <1>1, <1>2 DEF Name
  <2> QED BY <1>1, <1>2, <2>1, <2>2 DEF Final
<1>8. DOMAIN run' = Generators BY <1>1 DEF Final
<1>9. \A h \in Generators : run'[h].pc \in Late \cup NamedEarly => Name(h)' \in Names
  <2>1. \A h \in Generators \ {g} : run'[h].pc = "idle" BY <1>2, <1>5 DEF AtStep
  <2>2. Name(g)' = <<r.profile, r.stamp, r.sha>> BY <1>2 DEF Name
  <2> QED BY <1>1, <1>2, <2>1, <2>2 DEF Final, Late, NamedEarly
<1>10. \A h \in Generators : run'[h].pc \in {"preflight", "snapshot"} => run'[h].profile \in Profiles
  BY <1>1, <1>2 DEF Final
<1>11. \A h, k \in Generators : h # k => AtStep(h, "idle")' \/ AtStep(k, "idle")'
  BY <1>2, <1>5 DEF AtStep
<1>12. \A h \in Generators : DOMAIN run'[h] = DOMAIN Idle /\ run'[h].pc \in Early \cup Late
  BY <1>1, <1>2 DEF Final
<1> QED BY <1>3, <1>6, <1>7, <1>8, <1>9, <1>10, <1>11, <1>12 DEF Final

\* Every step keeps it: a run starts only when no other is going, and passes
\* the exists() test only for a directory that is not there.
LEMMA NextKeepsFinal ==
    ASSUME SerialRuns, Final, [BundleNext]_bundleVars
    PROVE  Final'
<1>1. ASSUME UNCHANGED <<dirs, run, acked>>, head' \in Commits, clock' \in 0..LastSecond
      PROVE  Final'
  BY <1>1 DEF Final, AtStep, Name
<1>2. ASSUME NEW g \in Generators, NEW profile \in Profiles, Start(g, profile)
      PROVE  Final'
  <2> DEFINE r == [Idle EXCEPT !.pc = "preflight", !.profile = profile]
  <2>1. run' = [run EXCEPT ![g] = r] /\ UNCHANGED <<head, clock, dirs, acked>>
    BY <1>2 DEF Start, repoVars
  <2>2. DOMAIN r = DOMAIN Idle /\ r.pc = "preflight" /\ r.profile = profile BY DEF Idle
  <2>3. \A h \in Generators : AtStep(h, "idle") BY <1>2 DEF Start
  <2>4. run'[g] = r /\ \A h \in Generators \ {g} : run'[h] = run[h] BY <2>1 DEF Final
  <2>5. \A h \in Generators : run'[h].pc \notin Late \cup NamedEarly
    BY <2>2, <2>3, <2>4 DEF AtStep, Late, NamedEarly
  <2> HIDE DEF r
  <2>6. \A h \in Generators : /\ DOMAIN run'[h] = DOMAIN Idle /\ run'[h].pc \in Early \cup Late
                              /\ run'[h].pc \in {"preflight", "snapshot"} => run'[h].profile \in Profiles
    BY <2>2, <2>4 DEF Final, Early
  <2>7. \A h, k \in Generators : h # k => AtStep(h, "idle")' \/ AtStep(k, "idle")'
    BY <2>3, <2>4 DEF AtStep
  <2>8. DOMAIN run' = Generators /\ DOMAIN dirs' = Names BY <2>1 DEF Final
  <2>9. head' \in Commits /\ clock' \in 0..LastSecond BY <2>1 DEF Final
  <2>10. \A e \in acked' : e[1] \in Names /\ dirs'[e[1]] = e[2] /\ dirs'[e[1]].made
    BY <2>1 DEF Final
  <2> QED BY <2>5, <2>6, <2>7, <2>8, <2>9, <2>10 DEF Final
<1>3. ASSUME NEW g \in Generators, CheckFresh(g)
      PROVE  Final'
  <2> DEFINE r == [run[g] EXCEPT !.pc = "create"]
  <2>1. /\ run' = [run EXCEPT ![g] = r] /\ UNCHANGED <<head, clock, dirs, acked>>
        /\ ~dirs[Name(g)].made /\ run[g].pc = "fresh"
    BY <1>3 DEF CheckFresh, Proceed, AtStep, After, Dir, repoVars
  <2>2. DOMAIN r = DOMAIN Idle /\ r.pc = "create" /\ <<r.profile, r.stamp, r.sha>> = Name(g)
    BY DEF Final, Idle, Name
  <2>3. run'[g] = r /\ \A h \in Generators \ {g} : run'[h] = run[h] BY <2>1 DEF Final
  <2>4. \A h \in Generators \ {g} : AtStep(h, "idle") BY <2>1 DEF Final, AtStep
  <2>5. \A e \in acked : e[1] # Name(g) BY <2>1 DEF Final
  <2>6. Name(g)' = Name(g) /\ Name(g) \in Names BY <2>1, <2>2, <2>3 DEF Final, Name, NamedEarly
  <2> HIDE DEF r
  <2>7. \A h \in Generators : /\ run'[h].pc \in Late => \A e \in acked : e[1] # Name(h)'
                              /\ run'[h].pc \in Late \cup NamedEarly => Name(h)' \in Names
    BY <2>3, <2>4, <2>5, <2>6 DEF AtStep, Late, NamedEarly
  <2>8. \A h \in Generators : /\ DOMAIN run'[h] = DOMAIN Idle /\ run'[h].pc \in Early \cup Late
                              /\ run'[h].pc \in {"preflight", "snapshot"} => run'[h].profile \in Profiles
    BY <2>2, <2>3 DEF Final, Late
  <2>9. \A h, k \in Generators : h # k => AtStep(h, "idle")' \/ AtStep(k, "idle")'
    BY <2>3, <2>4 DEF AtStep
  <2>10. DOMAIN run' = Generators /\ DOMAIN dirs' = Names BY <2>1 DEF Final
  <2>11. head' \in Commits /\ clock' \in 0..LastSecond BY <2>1 DEF Final
  <2>12. \A e \in acked' : e[1] \in Names /\ dirs'[e[1]] = e[2] /\ dirs'[e[1]].made
    BY <2>1 DEF Final
  <2> QED BY <2>1, <2>7, <2>8, <2>9, <2>10, <2>11, <2>12 DEF Final
<1>4. ASSUME NEW g \in Generators, Closure(g)
      PROVE  Final'
  <2>1. /\ run' = [run EXCEPT ![g] = Idle] /\ UNCHANGED <<head, clock, dirs>>
        /\ acked' = acked \cup {<<Name(g), Dir(g)>>} /\ run[g].pc = "closure"
    BY <1>4 DEF Closure, AtStep, repoVars
  <2>2. Dir(g).made
    BY <1>4 DEF Closure, Blocking, VerifyResult
  <2>3. run'[g] = Idle /\ \A h \in Generators \ {g} : run'[h] = run[h] BY <2>1 DEF Final
  <2>4. \A h \in Generators \ {g} : AtStep(h, "idle") BY <2>1 DEF Final, AtStep
  <2>5. \A h \in Generators : run'[h].pc = "idle" /\ DOMAIN run'[h] = DOMAIN Idle
    BY <2>3, <2>4 DEF Idle, AtStep, Final
  <2>6. Name(g) \in Names BY <2>1 DEF Final, Late
  <2>7. \A e \in acked' : e[1] \in Names /\ dirs[e[1]] = e[2] /\ dirs[e[1]].made
    BY <2>1, <2>2, <2>6 DEF Final, Dir
  <2> QED BY <2>1, <2>5, <2>7 DEF Final, AtStep, Early, Late, NamedEarly
<1>5. ASSUME NEW g \in Generators, Step(g)
      PROVE  Final'
  BY <1>2, <1>3, <1>4, <1>5, LateSteps, EarlySteps, StopSteps, WorksKeepsFinal DEF Step
<1>6. CASE Surroundings
  <2>1. head' \in Commits /\ clock' \in 0..LastSecond
    BY <1>6, ClockIsBounded DEF Final, Surroundings, EditTree, Checkout, Tick
  <2> QED BY <1>1, <1>6, <2>1 DEF Surroundings
<1>7. CASE UNCHANGED bundleVars BY <1>1, <1>7 DEF bundleVars, Final
<1> QED BY <1>5, <1>6, <1>7 DEF BundleNext

-----------------------------------------------------------------------------

\* A bundle reported with GENERATE_OK is never written into again, by a later
\* run, a retry or a crash, as long as the runs into one output root do not
\* overlap (create_bundle_directories, "Existing bundle directories are never
\* overwritten").
THEOREM SerialRunsNeverOverwrite ==
    ASSUME SerialRuns
    PROVE  BundleSpec => []AcknowledgedIsFinal
<1>1. BundleInit => Final
  BY ClockIsBounded DEF BundleInit, Final, Early, Late, NamedEarly, AtStep, Idle
<1>2. Final /\ [BundleNext]_bundleVars => Final' BY NextKeepsFinal
<1>3. Final => AcknowledgedIsFinal BY DEF Final, AcknowledgedIsFinal
<1> QED BY <1>1, <1>2, <1>3, PTL DEF BundleSpec

-----------------------------------------------------------------------------
(* What a bundle says of itself is true: the verification recorded in      *)
(* index.json, the signature, and GENERATE_OK.                             *)

\* The steps of a run that come after a step.
Signed == {"anchor", "closure"}
Recorded == Signed \cup {"sign"}
PastIndex == Recorded \cup {"verify", "record"}
PastSums == PastIndex \cup {"index"}
PastManifest == PastSums \cup {"sums"}
PastKey == PastManifest \cup {"sha", "manifest"}
PastAssess == PastKey \cup {"key"}
PastTests == PastAssess \cup {"assess"}
PastInputs == PastTests \cup {"tests"}
PastEnv == PastInputs \cup {"inputs"}
PastCreate == PastEnv \cup {"head", "env"}

\* What run r has learnt, and what it has made of directory d.
Learnt(r) ==
    /\ r.profile \in Profiles /\ r.sha \in Commits
    /\ r.dirty \in BOOLEAN /\ (Strict(r.profile) => r.dirty = FALSE)
    /\ r.pc = "env" => r.seen \in Commits
    /\ r.pc \in PastKey => r.planned \in BOOLEAN /\ (Strict(r.profile) => r.planned = TRUE)
    /\ r.pc \in PastInputs => r.inputs \in Inputs
    /\ r.pc \in PastTests => r.commands \in TestOutcomes

Hashed(r, d) ==
    /\ r.pc = "create" => d = NoDir
    /\ DOMAIN d = DOMAIN NoDir
    /\ r.pc \in PastCreate => d.made
    /\ r.pc \in PastEnv => d.env \in EnvFiles
    /\ r.pc \in PastInputs => d.inputs = r.inputs
    /\ r.pc \in PastTests => d.commands = r.commands
    /\ r.pc \in PastAssess => d.report \in {"sound", "unsound"}
    /\ r.pc \in PastManifest => d.manifest = Projection(d)
    /\ r.pc \in PastSums => d.sums = Listing(d)

Described(r, d) ==
    /\ r.pc \in Late \ PastIndex => d.index = Nil
    /\ r.pc \in PastIndex =>
        /\ d.index \in IndexFiles
        /\ d.index.profile = r.profile /\ d.index.sha = r.sha /\ d.index.dirty = r.dirty
        /\ d.index.integrity = IF r.planned THEN "Complete" ELSE "NotApplicable"
    /\ r.pc \in {"verify", "record"} => d.index.verification = "Unverifiable"
    /\ r.pc = "record" => r.verdict = VerifyResult(d).kind
    /\ r.pc \in Recorded => d.index.verification = VerificationState[VerifyResult(d).kind]

Sealed(r, d) ==
    /\ r.pc \in Late \ Signed => d.sig = Nil
    /\ r.pc \in Signed => IF r.planned THEN r.key \in SigningKeys /\ SignatureValid(d, r.key) ELSE d.sig = Nil
    /\ r.pc = "closure" /\ r.planned /\ Anchor # Nil => r.key = Anchor

Track(r, d) == Learnt(r) /\ Hashed(r, d) /\ Described(r, d) /\ Sealed(r, d)

\* What is true of any directory, also one that a run has left behind.
Honest(d) ==
    /\ ~d.made => d = NoDir
    /\ d.index \notin {Nil, Torn} => (d.index.verification = "Complete" => Passes(d))
    /\ d.sig \notin {Nil, Torn} => SignatureValid(d, d.sig.key)

\* What was true of a bundle when it was reported.
Releasable(n, d) ==
    /\ d.index.verification = "Complete" <=> Passes(d)
    /\ Strict(n[1]) =>
        /\ Passes(d)
        /\ d.index.integrity = "Complete"
        /\ d.commands = "clean" /\ d.report = "sound"
        /\ d.env = [profile |-> n[1], sha |-> n[3], dirty |-> FALSE]
        /\ \E k \in SigningKeys : SignatureValid(d, k) /\ (Anchor # Nil => k = Anchor)

VerdictInv ==
    /\ Final
    /\ tree \in Commits \cup Edits
    /\ \A g \in Generators : run[g].pc = "fresh" => Learnt(run[g])
    /\ \A g \in Generators : run[g].pc \in Late => Track(run[g], Dir(g))
    /\ \A n \in Names : Honest(dirs[n])
    /\ \A e \in acked : Releasable(e[1], e[2])

-----------------------------------------------------------------------------
(* The verdict.                                                            *)

LEMMA VerdictKinds == \A d : VerifyResult(d).kind \in {"pass", "fail", "error"}
BY DEF VerifyResult

\* Every verdict is recorded as what it is.
LEMMA StateOfVerdict == \A d :
    /\ VerificationState[VerifyResult(d).kind] \in {"Complete", "Incomplete", "Unverifiable"}
    /\ VerificationState[VerifyResult(d).kind] = "Complete" <=> Passes(d)
BY VerdictKinds DEF VerificationState, Passes

\* The verdict does not depend on the signature ...
LEMMA VerdictIgnoresSignature ==
  ASSUME NEW d, DOMAIN d = DOMAIN NoDir, NEW s
  PROVE  VerifyResult([d EXCEPT !.sig = s]) = VerifyResult(d)
BY DEF VerifyResult, RequiredMissing, BundleFindings, Listing, Projection, NoDir

\* ... nor on the verdict that is recorded.
LEMMA VerdictIgnoresRecord ==
  ASSUME NEW d, DOMAIN d = DOMAIN NoDir, d.index \in IndexFiles,
         NEW v \in {"Complete", "Incomplete", "Unverifiable"}
  PROVE  /\ [d EXCEPT !.index.verification = v].index \in IndexFiles
         /\ VerifyResult([d EXCEPT !.index.verification = v]) = VerifyResult(d)
<1> DEFINE e == [d EXCEPT !.index.verification = v]
<1>1. /\ \A f \in DOMAIN NoDir \ {"index"} : e[f] = d[f]
      /\ e.index = [d.index EXCEPT !.verification = v]
  BY DEF NoDir
<1>2. /\ e.index \in IndexFiles
      /\ \A f \in {"profile", "sha", "dirty", "complete", "contentHash", "recipeHash"} :
            e.index[f] = d.index[f]
  BY <1>1 DEF IndexFiles
<1>3. e.index # Nil /\ d.index # Nil /\ e.index # Torn /\ d.index # Torn
  BY <1>2, FilesAreNoFragments
<1> HIDE DEF e
<1>4. BundleFindings(e) = BundleFindings(d) /\ RequiredMissing(e) = RequiredMissing(d) /\ e.made = d.made
  <2>1. /\ e.made = d.made /\ e.env = d.env /\ e.inputs = d.inputs /\ e.commands = d.commands
        /\ e.report = d.report /\ e.manifest = d.manifest /\ e.sums = d.sums
    BY <1>1 DEF NoDir
  <2>2. /\ e.index.profile = d.index.profile /\ e.index.sha = d.index.sha
        /\ e.index.dirty = d.index.dirty /\ e.index.complete = d.index.complete
        /\ e.index.contentHash = d.index.contentHash /\ e.index.recipeHash = d.index.recipeHash
    BY <1>2
  <2>3. Listing(e) = Listing(d) /\ Projection(e) = Projection(d)
    BY <2>1 DEF Listing, Projection
  <2>4. BundleFindings(e) = BundleFindings(d)
    BY <2>1, <2>2, <2>3 DEF BundleFindings
  <2>5. RequiredMissing(e) = RequiredMissing(d)
    BY <2>1, <1>3 DEF RequiredMissing
  <2>6. QED
    BY <2>1, <2>4, <2>5
<1>5. QED
  BY <1>2, <1>3, <1>4 DEF VerifyResult, e

-----------------------------------------------------------------------------
(* A run that has come to a step.                                          *)

\* Where a run that is past the exists() test works, and that nobody else is going.
LEMMA AtWork ==
  ASSUME VerdictInv, NEW g \in Generators, run[g].pc \in Late
  PROVE  /\ Name(g) \in Names /\ Name(g) = <<run[g].profile, run[g].stamp, run[g].sha>>
         /\ DOMAIN run[g] = DOMAIN Idle /\ DOMAIN dirs = Names /\ DOMAIN run = Generators
         /\ Track(run[g], Dir(g)) /\ Dir(g) = dirs[Name(g)] /\ Honest(Dir(g))
         /\ \A h \in Generators \ {g} : run[h].pc = "idle"
BY DEF VerdictInv, Final, AtStep, Late, Dir, Name

\* A directory a run has on track is honest: its index and its signature come last.
LEMMA TrackIsHonest ==
  ASSUME NEW r, NEW d, r.pc \in Late \ {"create"}, Track(r, d)
  PROVE  Honest(d)
<1>1. d.made
  BY DEF Track, Hashed, Late, PastCreate, PastEnv, PastInputs, PastTests, PastAssess, PastKey,
     PastManifest, PastSums, PastIndex, Recorded, Signed
<1>2. d.index \notin {Nil, Torn} => (d.index.verification = "Complete" => Passes(d))
  <2>1. CASE r.pc \in Late \ PastIndex
    BY <2>1 DEF Track, Described
  <2>2. CASE r.pc \in {"verify", "record"}
    BY <2>2 DEF Track, Described
  <2>3. CASE r.pc \in Recorded
    BY <2>3, StateOfVerdict DEF Track, Described
  <2>4. QED
    BY <2>1, <2>2, <2>3 DEF PastIndex
<1>3. d.sig \notin {Nil, Torn} => SignatureValid(d, d.sig.key)
  <2>1. CASE d.sig # Nil
    <3>1. r.pc \in Signed /\ SignatureValid(d, r.key)
      BY <2>1 DEF Track, Sealed
    <3>2. d.sig.key = r.key
      BY <3>1 DEF SignatureValid
    <3>3. QED
      BY <3>1, <3>2
  <2>2. QED
    BY <2>1
<1>4. QED
  BY <1>1, <1>2, <1>3 DEF Honest

\* The step keeps the run on track, under its name, and writes its directory only.
KeepsTrack(g) ==
    /\ run'[g].pc \in Late \ {"create"}
    /\ <<run'[g].profile, run'[g].stamp, run'[g].sha>> = Name(g)
    /\ Track(run'[g], dirs'[Name(g)])

\* What Proceed leaves of the run.
Follows(q, r) ==
    /\ q.profile = r.profile /\ q.stamp = r.stamp /\ q.sha = r.sha /\ q.dirty = r.dirty
    /\ q.seen = r.seen /\ q.inputs = r.inputs /\ q.commands = r.commands /\ q.planned = r.planned
    /\ q.key = r.key /\ q.verdict = r.verdict

LEMMA ProceedEffect ==
  ASSUME VerdictInv, NEW g \in Generators, run[g].pc \in Late,
         NEW r, DOMAIN r = DOMAIN Idle, Proceed(g, r)
  PROVE  run'[g].pc = After[run[g].pc] /\ Follows(run'[g], r)
<1>1. run'[g] = [r EXCEPT !.pc = After[run[g].pc]]
  BY AtWork DEF Proceed
<1>2. QED
  BY <1>1 DEF Idle, Follows

\* ... and Put of the directory.
LEMMA PutEffect ==
  ASSUME VerdictInv, NEW g \in Generators, run[g].pc \in Late, NEW d, Put(g, d)
  PROVE  dirs'[Name(g)] = d
BY AtWork DEF Put

LEMMA WritesKeepTrack ==
  ASSUME VerdictInv, NEW g \in Generators,
         \/ CreateDirectories(g) \/ FingerprintHead(g) \/ CaptureEnv(g)
         \/ HashInputs(g) \/ RunTests(g) \/ Assess(g)
  PROVE  KeepsTrack(g)
<1> DEFINE r == run[g]
           d == Dir(g)
           q == run'[g]
           e == dirs'[Name(g)]
<1> USE DEF Late, PastCreate, PastEnv, PastInputs, PastTests, PastAssess, PastKey, PastManifest,
            PastSums, PastIndex, Recorded, Signed
<1>1. CASE CreateDirectories(g)
  <2>1. r.pc = "create" /\ Put(g, [d EXCEPT !.made = TRUE]) /\ Proceed(g, r)
    BY <1>1 DEF CreateDirectories, AtStep
  <2>2. r.pc \in Late /\ Track(r, d) /\ DOMAIN r = DOMAIN Idle
    BY <2>1, AtWork
  <2>3. q.pc = "head" /\ Follows(q, r) /\ e = [d EXCEPT !.made = TRUE]
    BY <2>1, <2>2, ProceedEffect, PutEffect DEF After
  <2>4. d = NoDir
    BY <2>1, <2>2 DEF Track, Hashed
  <2>5. Learnt(q)
    BY <2>2, <2>3 DEF Track, Learnt, Follows
  <2>6. Hashed(q, e)
    BY <2>3, <2>4 DEF Hashed, NoDir
  <2>7. Described(q, e) /\ Sealed(q, e)
    BY <2>3, <2>4 DEF Described, Sealed, NoDir
  <2>8. QED
    BY <2>2, <2>3, <2>5, <2>6, <2>7, AtWork DEF KeepsTrack, Track, Follows
<1>2. CASE CaptureEnv(g)
  <2> DEFINE env == [profile |-> r.profile, sha |-> r.seen, dirty |-> (tree # head)]
  <2>1. r.pc = "env" /\ Put(g, [d EXCEPT !.env = env]) /\ Proceed(g, r)
    BY <1>2 DEF CaptureEnv, AtStep
  <2>2. r.pc \in Late /\ Track(r, d) /\ DOMAIN r = DOMAIN Idle
    BY <2>1, AtWork
  <2>3. q.pc = "inputs" /\ Follows(q, r) /\ e = [d EXCEPT !.env = env]
    BY <2>1, <2>2, ProceedEffect, PutEffect DEF After
  <2>4. env \in EnvFiles
    BY <2>1, <2>2 DEF Track, Learnt, EnvFiles
  <2> HIDE DEF env
  <2>5. Learnt(q)
    BY <2>2, <2>3 DEF Track, Learnt, Follows
  <2>6. Hashed(q, e)
    BY <2>1, <2>2, <2>3, <2>4 DEF Track, Hashed, NoDir
  <2>7. Described(q, e) /\ Sealed(q, e)
    BY <2>1, <2>2, <2>3 DEF Track, Hashed, Described, Sealed, NoDir
  <2>8. QED
    BY <2>2, <2>3, <2>5, <2>6, <2>7, AtWork DEF KeepsTrack, Track, Follows
<1>3. CASE HashInputs(g)
  <2>1. PICK v \in Inputs : /\ r.pc = "inputs"
                           /\ Put(g, [d EXCEPT !.inputs = v, !.commands = "none"])
                           /\ Proceed(g, [r EXCEPT !.inputs = v])
    BY <1>3 DEF HashInputs, AtStep, Inputs, VerdictInv
  <2>2. r.pc \in Late /\ Track(r, d) /\ DOMAIN r = DOMAIN Idle
    BY <2>1, AtWork
  <2>3. q.pc = "tests" /\ Follows(q, [r EXCEPT !.inputs = v])
        /\ e = [d EXCEPT !.inputs = v, !.commands = "none"]
    BY <2>1, <2>2, ProceedEffect, PutEffect DEF After
  <2>4. Follows([q EXCEPT !.inputs = r.inputs], r) /\ q.inputs = v
    BY <2>2, <2>3 DEF Follows, Idle
  <2>5. Learnt(q)
    BY <2>1, <2>2, <2>3, <2>4 DEF Track, Learnt, Follows
  <2>6. Hashed(q, e)
    BY <2>1, <2>2, <2>3, <2>4 DEF Track, Hashed, Follows, NoDir
  <2>7. Described(q, e) /\ Sealed(q, e)
    BY <2>1, <2>2, <2>3, <2>4 DEF Track, Hashed, Described, Sealed, Follows, NoDir
  <2>8. QED
    BY <2>2, <2>3, <2>5, <2>6, <2>7, AtWork DEF KeepsTrack, Track, Follows
<1>4. CASE RunTests(g)
  <2>1. PICK c \in TestOutcomes : /\ r.pc = "tests"
                             /\ Put(g, [d EXCEPT !.commands = c])
                             /\ Proceed(g, [r EXCEPT !.commands = c])
    BY <1>4 DEF RunTests, AtStep, TestOutcomes
  <2>2. r.pc \in Late /\ Track(r, d) /\ DOMAIN r = DOMAIN Idle
    BY <2>1, AtWork
  <2>3. q.pc = "assess" /\ Follows(q, [r EXCEPT !.commands = c]) /\ e = [d EXCEPT !.commands = c]
    BY <2>1, <2>2, ProceedEffect, PutEffect DEF After
  <2>4. Learnt(q)
    BY <2>1, <2>2, <2>3 DEF Track, Learnt, Follows
  <2>5. Hashed(q, e)
    BY <2>1, <2>2, <2>3 DEF Track, Hashed, Follows, NoDir
  <2>6. Described(q, e) /\ Sealed(q, e)
    BY <2>1, <2>2, <2>3 DEF Track, Hashed, Described, Sealed, Follows, NoDir
  <2>7. QED
    BY <2>2, <2>3, <2>4, <2>5, <2>6, AtWork DEF KeepsTrack, Track, Follows
<1>5. CASE Assess(g)
  <2>1. PICK v \in {"sound", "unsound"} : /\ r.pc = "assess" /\ Proceed(g, r)
                                         /\ Put(g, [d EXCEPT !.report = v])
    BY <1>5 DEF Assess, AtStep
  <2>2. r.pc \in Late /\ Track(r, d) /\ DOMAIN r = DOMAIN Idle
    BY <2>1, AtWork
  <2>3. q.pc = "key" /\ Follows(q, r) /\ e = [d EXCEPT !.report = v]
    BY <2>1, <2>2, ProceedEffect, PutEffect DEF After
  <2>4. Learnt(q)
    BY <2>1, <2>2, <2>3 DEF Track, Learnt, Follows
  <2>5. Hashed(q, e)
    BY <2>1, <2>2, <2>3 DEF Track, Hashed, Follows, NoDir
  <2>6. Described(q, e) /\ Sealed(q, e)
    BY <2>1, <2>2, <2>3 DEF Track, Hashed, Described, Sealed, Follows, NoDir
  <2>7. QED
    BY <2>2, <2>3, <2>4, <2>5, <2>6, AtWork DEF KeepsTrack, Track, Follows
<1>6. CASE FingerprintHead(g)
  <2>1. r.pc = "head" /\ dirs' = dirs /\ Proceed(g, [r EXCEPT !.seen = head]) /\ head \in Commits
    BY <1>6 DEF FingerprintHead, AtStep, VerdictInv, Final
  <2>2. r.pc \in Late /\ Track(r, d) /\ DOMAIN r = DOMAIN Idle
    BY <2>1, AtWork
  <2>3. q.pc = "env" /\ Follows(q, [r EXCEPT !.seen = head]) /\ e = d
    BY <2>1, <2>2, AtWork, ProceedEffect, PutEffect DEF After
  <2>4. Follows([q EXCEPT !.seen = r.seen], r) /\ q.seen = head
    BY <2>2, <2>3 DEF Follows, Idle
  <2>5. Learnt(q)
    BY <2>1, <2>2, <2>3, <2>4 DEF Track, Learnt, Follows
  <2>6. Hashed(q, e)
    BY <2>1, <2>2, <2>3, <2>4 DEF Track, Hashed, Follows, NoDir
  <2>7. Described(q, e) /\ Sealed(q, e)
    BY <2>1, <2>2, <2>3, <2>4 DEF Track, Hashed, Described, Sealed, Follows, NoDir
  <2>8. QED
    BY <2>2, <2>3, <2>5, <2>6, <2>7, AtWork DEF KeepsTrack, Track, Follows
<1>7. QED
  BY <1>1, <1>2, <1>3, <1>4, <1>5, <1>6

LEMMA FilesKeepTrack ==
  ASSUME VerdictInv, NEW g \in Generators,
         ResolveKey(g) \/ RecheckSha(g) \/ WriteManifest(g) \/ WriteSums(g) \/ WriteIndex(g)
  PROVE  KeepsTrack(g)
<1> DEFINE r == run[g]
           d == Dir(g)
           q == run'[g]
           e == dirs'[Name(g)]
<1> USE DEF Late, PastCreate, PastEnv, PastInputs, PastTests, PastAssess, PastKey, PastManifest,
            PastSums, PastIndex, Recorded, Signed
<1>1. CASE ResolveKey(g)
  <2>1. PICK p \in BOOLEAN : /\ r.pc = "key" /\ dirs' = dirs /\ (Strict(r.profile) => p = TRUE)
                            /\ Proceed(g, [r EXCEPT !.planned = p])
    BY <1>1 DEF ResolveKey, AtStep
  <2>2. r.pc \in Late /\ Track(r, d) /\ DOMAIN r = DOMAIN Idle
    BY <2>1, AtWork
  <2>3. q.pc = "sha" /\ Follows(q, [r EXCEPT !.planned = p]) /\ e = d
    BY <2>1, <2>2, AtWork, ProceedEffect, PutEffect DEF After
  <2>4. Learnt(q)
    BY <2>1, <2>2, <2>3 DEF Track, Learnt, Follows
  <2>5. Hashed(q, e)
    BY <2>1, <2>2, <2>3 DEF Track, Hashed, Follows, NoDir
  <2>6. Described(q, e) /\ Sealed(q, e)
    BY <2>1, <2>2, <2>3 DEF Track, Hashed, Described, Sealed, Follows, NoDir
  <2>7. QED
    BY <2>2, <2>3, <2>4, <2>5, <2>6, AtWork DEF KeepsTrack, Track, Follows
<1>2. CASE RecheckSha(g)
  <2>1. r.pc = "sha" /\ dirs' = dirs /\ Proceed(g, r)
    BY <1>2 DEF RecheckSha, AtStep
  <2>2. r.pc \in Late /\ Track(r, d) /\ DOMAIN r = DOMAIN Idle
    BY <2>1, AtWork
  <2>3. q.pc = "manifest" /\ Follows(q, r) /\ e = d
    BY <2>1, <2>2, AtWork, ProceedEffect, PutEffect DEF After
  <2>4. Learnt(q)
    BY <2>1, <2>2, <2>3 DEF Track, Learnt, Follows
  <2>5. Hashed(q, e)
    BY <2>1, <2>2, <2>3 DEF Track, Hashed, Follows, NoDir
  <2>6. Described(q, e) /\ Sealed(q, e)
    BY <2>1, <2>2, <2>3 DEF Track, Hashed, Described, Sealed, Follows, NoDir
  <2>7. QED
    BY <2>2, <2>3, <2>4, <2>5, <2>6, AtWork DEF KeepsTrack, Track, Follows
<1>3. CASE WriteManifest(g)
  <2>1. /\ r.pc = "manifest" /\ Proceed(g, r)
        /\ Put(g, [d EXCEPT !.manifest = <<d.env, r.inputs, r.commands>>])
    BY <1>3 DEF WriteManifest, AtStep
  <2>2. r.pc \in Late /\ Track(r, d) /\ DOMAIN r = DOMAIN Idle
    BY <2>1, AtWork
  <2>3. q.pc = "sums" /\ Follows(q, r) /\ e = [d EXCEPT !.manifest = <<d.env, r.inputs, r.commands>>]
    BY <2>1, <2>2, AtWork, ProceedEffect, PutEffect DEF After
  <2>4. Learnt(q)
    BY <2>1, <2>2, <2>3 DEF Track, Learnt, Follows
  <2>5. Hashed(q, e)
    BY <2>1, <2>2, <2>3 DEF Track, Hashed, Follows, NoDir, Projection
  <2>6. Described(q, e) /\ Sealed(q, e)
    BY <2>1, <2>2, <2>3 DEF Track, Hashed, Described, Sealed, Follows, NoDir
  <2>7. QED
    BY <2>2, <2>3, <2>4, <2>5, <2>6, AtWork DEF KeepsTrack, Track, Follows
<1>4. CASE WriteSums(g)
  <2>1. r.pc = "sums" /\ Proceed(g, r) /\ Put(g, [d EXCEPT !.sums = Listing(d)])
    BY <1>4 DEF WriteSums, AtStep
  <2>2. r.pc \in Late /\ Track(r, d) /\ DOMAIN r = DOMAIN Idle
    BY <2>1, AtWork
  <2>3. q.pc = "index" /\ Follows(q, r) /\ e = [d EXCEPT !.sums = Listing(d)]
    BY <2>1, <2>2, AtWork, ProceedEffect, PutEffect DEF After
  <2>4. Learnt(q)
    BY <2>1, <2>2, <2>3 DEF Track, Learnt, Follows
  <2>5. Hashed(q, e)
    BY <2>1, <2>2, <2>3 DEF Track, Hashed, Follows, NoDir, Projection, Listing
  <2>6. Described(q, e) /\ Sealed(q, e)
    BY <2>1, <2>2, <2>3 DEF Track, Hashed, Described, Sealed, Follows, NoDir
  <2>7. QED
    BY <2>2, <2>3, <2>4, <2>5, <2>6, AtWork DEF KeepsTrack, Track, Follows
<1>5. CASE WriteIndex(g)
  <2>1. r.pc = "index" /\ Proceed(g, r) /\ Put(g, [d EXCEPT !.index = IndexOf(g)])
    BY <1>5 DEF WriteIndex, AtStep
  <2>2. r.pc \in Late /\ Track(r, d) /\ DOMAIN r = DOMAIN Idle
    BY <2>1, AtWork
  <2>3. q.pc = "verify" /\ Follows(q, r) /\ e = [d EXCEPT !.index = IndexOf(g)]
    BY <2>1, <2>2, AtWork, ProceedEffect, PutEffect DEF After
  <2>4. d.manifest \in Projections /\ d.sums \in Listings
    <3>1. /\ d.env \in EnvFiles /\ d.inputs \in Inputs /\ d.commands \in TestOutcomes
          /\ d.report \in {"sound", "unsound"}
          /\ d.manifest = Projection(d) /\ d.sums = Listing(d)
      BY <2>1, <2>2 DEF Track, Learnt, Hashed
    <3>2. Projection(d) \in Projections
      BY <3>1 DEF Projection, Projections
    <3>3. <<d.env, d.inputs, d.commands, d.report, Projection(d)>> \in Listings
      BY <3>1, <3>2 DEF Listings
    <3>4. QED
      BY <3>1, <3>2, <3>3 DEF Listing
  <2>5. IndexOf(g) \in IndexFiles
    BY <2>1, <2>2, <2>4 DEF Track, Learnt, Hashed, IndexOf, IndexFiles
  <2>6. Learnt(q)
    BY <2>1, <2>2, <2>3 DEF Track, Learnt, Follows
  <2>7. Hashed(q, e)
    BY <2>1, <2>2, <2>3 DEF Track, Hashed, Follows, NoDir, Projection, Listing
  <2>8. Described(q, e) /\ Sealed(q, e)
    BY <2>1, <2>2, <2>3, <2>5 DEF Track, Hashed, Described, Sealed, Follows, NoDir, IndexOf
  <2>9. QED
    BY <2>2, <2>3, <2>6, <2>7, <2>8, AtWork DEF KeepsTrack, Track, Follows
<1>6. QED
  BY <1>1, <1>2, <1>3, <1>4, <1>5


LEMMA VerdictKeepsTrack ==
  ASSUME VerdictInv, NEW g \in Generators,
         SelfVerify(g) \/ RecordVerification(g) \/ Sign(g) \/ CheckPubkeyAnchor(g)
  PROVE  KeepsTrack(g)
<1> DEFINE r == run[g]
           d == Dir(g)
           q == run'[g]
           e == dirs'[Name(g)]
<1> USE DEF Late, PastCreate, PastEnv, PastInputs, PastTests, PastAssess, PastKey, PastManifest,
            PastSums, PastIndex, Recorded, Signed
<1>1. CASE SelfVerify(g)
  <2>1. /\ r.pc = "verify" /\ dirs' = dirs
        /\ Proceed(g, [r EXCEPT !.verdict = VerifyResult(d).kind])
    BY <1>1 DEF SelfVerify, AtStep
  <2>2. r.pc \in Late /\ Track(r, d) /\ DOMAIN r = DOMAIN Idle
    BY <2>1, AtWork
  <2>3. /\ q.pc = "record" /\ Follows(q, [r EXCEPT !.verdict = VerifyResult(d).kind]) /\ e = d
        /\ UNCHANGED prerelease
    BY <1>1, <2>1, <2>2, AtWork, ProceedEffect DEF After, SelfVerify, repoVars
  <2>4. Learnt(q)
    BY <2>1, <2>2, <2>3 DEF Track, Learnt, Follows
  <2>5. Hashed(q, e)
    BY <2>1, <2>2, <2>3 DEF Track, Hashed, Follows, NoDir
  <2>6. Described(q, e) /\ Sealed(q, e)
    BY <2>1, <2>2, <2>3 DEF Track, Hashed, Described, Sealed, Follows, NoDir
  <2>7. QED
    BY <2>2, <2>3, <2>4, <2>5, <2>6, AtWork DEF KeepsTrack, Track, Follows
<1>2. CASE RecordVerification(g)
  <2> DEFINE v == VerificationState[r.verdict]
  <2>1. r.pc = "record" /\ Proceed(g, r) /\ Put(g, [d EXCEPT !.index.verification = v])
    BY <1>2 DEF RecordVerification, AtStep
  <2>2. r.pc \in Late /\ Track(r, d) /\ DOMAIN r = DOMAIN Idle
    BY <2>1, AtWork
  <2>3. q.pc = "sign" /\ Follows(q, r) /\ e = [d EXCEPT !.index.verification = v]
    BY <2>1, <2>2, AtWork, ProceedEffect, PutEffect DEF After
  <2>4. v = VerificationState[VerifyResult(d).kind] /\ d.index \in IndexFiles
    BY <2>1, <2>2 DEF Track, Described
  <2>5. e.index \in IndexFiles /\ VerifyResult(e) = VerifyResult(d)
    <3>1. DOMAIN d = DOMAIN NoDir
      BY <2>2 DEF Track, Hashed
    <3>2. v \in {"Complete", "Incomplete", "Unverifiable"}
      BY <2>4, StateOfVerdict
    <3> HIDE DEF v
    <3>3. QED
      BY <2>3, <2>4, <3>1, <3>2, VerdictIgnoresRecord
  <2>6. Learnt(q)
    BY <2>1, <2>2, <2>3 DEF Track, Learnt, Follows
  <2>7. Hashed(q, e)
    BY <2>1, <2>2, <2>3 DEF Track, Hashed, Follows, NoDir, Projection, Listing
  <2>8. Described(q, e)
    BY <2>1, <2>2, <2>3, <2>4, <2>5 DEF Track, Hashed, Described, Follows, NoDir, IndexFiles
  <2>9. Sealed(q, e)
    BY <2>1, <2>2, <2>3 DEF Track, Hashed, Sealed, Follows, NoDir
  <2>10. QED
    BY <2>2, <2>3, <2>6, <2>7, <2>8, <2>9, AtWork DEF KeepsTrack, Track, Follows
<1>3. CASE Sign(g)
  <2>1. r.pc = "sign"
    BY <1>3 DEF Sign, AtStep
  <2>2. r.pc \in Late /\ Track(r, d) /\ DOMAIN r = DOMAIN Idle
    BY <2>1, AtWork
  <2>3. CASE r.planned
    <3>1. PICK k \in SigningKeys :
            /\ Put(g, [d EXCEPT !.sig = [key |-> k, sums |-> d.sums, index |-> d.index]])
            /\ Proceed(g, [r EXCEPT !.key = k])
      BY <1>3, <2>3 DEF Sign
    <3>2. /\ q.pc = "anchor" /\ Follows(q, [r EXCEPT !.key = k])
          /\ e = [d EXCEPT !.sig = [key |-> k, sums |-> d.sums, index |-> d.index]]
      BY <2>1, <2>2, <3>1, AtWork, ProceedEffect, PutEffect DEF After
    <3>3. VerifyResult(e) = VerifyResult(d)
      BY <2>2, <3>2, VerdictIgnoresSignature DEF Track, Hashed
    <3>4. Learnt(q)
      BY <2>1, <2>2, <3>2 DEF Track, Learnt, Follows
    <3>5. Hashed(q, e)
      BY <2>1, <2>2, <3>2 DEF Track, Hashed, Follows, NoDir, Projection, Listing
    <3>6. Described(q, e)
      BY <2>1, <2>2, <3>2, <3>3 DEF Track, Hashed, Described, Follows, NoDir
    <3>7. Sealed(q, e)
      BY <2>1, <2>2, <2>3, <3>1, <3>2 DEF Track, Hashed, Sealed, Follows, NoDir, SignatureValid
    <3>8. QED
      BY <2>2, <3>2, <3>4, <3>5, <3>6, <3>7, AtWork DEF KeepsTrack, Track, Follows
  <2>4. CASE ~r.planned
    <3>1. dirs' = dirs /\ Proceed(g, r)
      BY <1>3, <2>4 DEF Sign
    <3>2. q.pc = "anchor" /\ Follows(q, r) /\ e = d
      BY <2>1, <2>2, <3>1, AtWork, ProceedEffect DEF After
    <3>3. Learnt(q) /\ Hashed(q, e)
      BY <2>1, <2>2, <3>2 DEF Track, Learnt, Hashed, Follows
    <3>4. Described(q, e) /\ Sealed(q, e)
      BY <2>1, <2>2, <2>4, <3>2 DEF Track, Described, Sealed, Follows
    <3>5. QED
      BY <2>2, <3>2, <3>3, <3>4, AtWork DEF KeepsTrack, Track, Follows
  <2>5. QED
    BY <2>3, <2>4
<1>4. CASE CheckPubkeyAnchor(g)
  <2>1. /\ r.pc = "anchor" /\ dirs' = dirs /\ Proceed(g, r)
        /\ r.planned /\ Anchor # Nil => r.key = Anchor
    BY <1>4 DEF CheckPubkeyAnchor, AtStep
  <2>2. r.pc \in Late /\ Track(r, d) /\ DOMAIN r = DOMAIN Idle
    BY <2>1, AtWork
  <2>3. q.pc = "closure" /\ Follows(q, r) /\ e = d
    BY <2>1, <2>2, AtWork, ProceedEffect, PutEffect DEF After
  <2>4. Learnt(q)
    BY <2>1, <2>2, <2>3 DEF Track, Learnt, Follows
  <2>5. Hashed(q, e)
    BY <2>1, <2>2, <2>3 DEF Track, Hashed, Follows, NoDir
  <2>6. Described(q, e) /\ Sealed(q, e)
    BY <2>1, <2>2, <2>3 DEF Track, Hashed, Described, Sealed, Follows, NoDir
  <2>7. QED
    BY <2>2, <2>3, <2>4, <2>5, <2>6, AtWork DEF KeepsTrack, Track, Follows
<1>5. QED
  BY <1>1, <1>2, <1>3, <1>4

-----------------------------------------------------------------------------
(* The invariant.                                                          *)

\* What a step has to show: where it leaves the runs, the directories it has
\* written and the bundles it reports.
LEMMA Kept ==
  ASSUME VerdictInv, Final', UNCHANGED prerelease, tree' \in Commits \cup Edits,
         \A g \in Generators : run'[g].pc = "fresh" => Learnt(run'[g]),
         \A g \in Generators : run'[g].pc \in Late => Track(run'[g], Dir(g)'),
         \A n \in Names : dirs'[n] = dirs[n] \/ Honest(dirs'[n]),
         \A e \in acked' : e \in acked \/ Releasable(e[1], e[2])
  PROVE  VerdictInv'
<1>1. ASSUME NEW g \in Generators, run'[g].pc = "fresh"
      PROVE  Learnt(run[g])'
  BY <1>1 DEF Learnt
<1>2. ASSUME NEW g \in Generators, run'[g].pc \in Late
      PROVE  Track(run[g], Dir(g))'
  <2>1. Track(run'[g], Dir(g)')
    BY <1>2
  <2>2. VerifyResult(Dir(g)') = VerifyResult(Dir(g))'
    BY DEF VerifyResult, RequiredMissing, BundleFindings, Listing, Projection
  <2>3. Learnt(run[g])' /\ Hashed(run[g], Dir(g))' /\ Sealed(run[g], Dir(g))'
    BY <2>1 DEF Track, Learnt, Hashed, Listing, Projection, Sealed, SignatureValid
  <2>4. Described(run[g], Dir(g))'
    BY <2>1, <2>2 DEF Track, Described
  <2>5. QED
    BY <2>3, <2>4 DEF Track
<1>3. ASSUME NEW n \in Names
      PROVE  Honest(dirs[n])'
  <2>1. Honest(dirs'[n])
    BY <1>3 DEF VerdictInv
  <2>2. VerifyResult(dirs'[n]) = VerifyResult(dirs[n])'
    BY DEF VerifyResult, RequiredMissing, BundleFindings, Listing, Projection
  <2>3. QED
    BY <2>1, <2>2 DEF Honest, Passes, SignatureValid
<1>4. ASSUME NEW e \in acked'
      PROVE  Releasable(e[1], e[2])'
  <2>1. Releasable(e[1], e[2])
    BY <1>4 DEF VerdictInv
  <2>2. VerifyResult(e[2]) = VerifyResult(e[2])'
    BY DEF VerifyResult, RequiredMissing, BundleFindings, Listing, Projection
  <2>3. QED
    BY <2>1, <2>2 DEF Releasable, Passes, SignatureValid
<1>5. QED
  BY <1>1, <1>2, <1>3, <1>4 DEF VerdictInv

\* A run goes on in its directory.
LEMMA WorkKeepsVerdict ==
  ASSUME SerialRuns, VerdictInv, NEW g \in Generators,
         \/ CreateDirectories(g) \/ FingerprintHead(g) \/ CaptureEnv(g) \/ HashInputs(g)
         \/ RunTests(g) \/ Assess(g)
         \/ ResolveKey(g) \/ RecheckSha(g) \/ WriteManifest(g) \/ WriteSums(g) \/ WriteIndex(g)
         \/ SelfVerify(g) \/ RecordVerification(g) \/ Sign(g) \/ CheckPubkeyAnchor(g)
  PROVE  VerdictInv'
<1>1. Works(g)
  BY LateSteps DEF VerdictInv
<1>2. Final'
  BY <1>1, WorksKeepsFinal DEF VerdictInv
<1>3. KeepsTrack(g)
  BY WritesKeepTrack, FilesKeepTrack, VerdictKeepsTrack
<1>4. UNCHANGED <<tree, prerelease, acked>>
  BY DEF CreateDirectories, FingerprintHead, CaptureEnv, HashInputs, RunTests, Assess, ResolveKey, RecheckSha,
     WriteManifest, WriteSums, WriteIndex, SelfVerify, RecordVerification, Sign, CheckPubkeyAnchor, repoVars
<1>5. /\ \E r : run' = [run EXCEPT ![g] = r]
      /\ dirs' = dirs \/ \E d : dirs' = [dirs EXCEPT ![Name(g)] = d]
      /\ run[g].pc \in Late
  BY <1>1 DEF Works, Put
<1>6. \A h \in Generators \ {g} : run'[h].pc = "idle"
  BY <1>5, AtWork
<1>7. Dir(g)' = dirs'[Name(g)]
  BY <1>3 DEF KeepsTrack, Dir, Name
<1>8. \A h \in Generators : run'[h].pc \in Late => Track(run'[h], Dir(h)')
  BY <1>3, <1>6, <1>7 DEF KeepsTrack, Late
<1>9. \A h \in Generators : run'[h].pc # "fresh"
  BY <1>3, <1>6 DEF KeepsTrack, Late
<1>10. \A n \in Names : dirs'[n] = dirs[n] \/ Honest(dirs'[n])
  <2>1. Honest(dirs'[Name(g)])
    BY <1>3, TrackIsHonest DEF KeepsTrack
  <2>2. \A n \in Names \ {Name(g)} : dirs'[n] = dirs[n]
    BY <1>5, AtWork
  <2>3. QED
    BY <2>1, <2>2
<1>11. QED
  BY <1>2, <1>4, <1>8, <1>9, <1>10, Kept DEF VerdictInv

\* A run that stops leaves an honest directory, with half a file or without.
LEMMA StopLeavesHonest ==
  ASSUME VerdictInv, NEW g \in Generators, run[g].pc \in DOMAIN Writes
  PROVE  Honest([Dir(g) EXCEPT ![Writes[run[g].pc]] = Torn])
<1> DEFINE r == run[g]
           d == Dir(g)
           e == [d EXCEPT ![Writes[r.pc]] = Torn]
<1>1. r.pc \in Late /\ r.pc \in PastCreate
  BY DEF Writes, Late, PastCreate, PastEnv, PastInputs, PastTests, PastAssess, PastKey,
     PastManifest, PastSums, PastIndex, Recorded, Signed
<1>2. Track(r, d)
  BY <1>1, AtWork
<1>3. DOMAIN d = DOMAIN NoDir /\ d.made
  BY <1>1, <1>2 DEF Track, Hashed
<1>4. d.sig = Nil
  BY <1>1, <1>2 DEF Track, Sealed, Writes, Signed
<1> HIDE DEF e
<1>5. CASE r.pc = "sign"
  <2>1. e = [d EXCEPT !.sig = Torn]
    BY <1>5 DEF Writes, e
  <2>2. e.made = d.made /\ e.sig = Torn /\ e.index = d.index
    BY <1>3, <2>1 DEF NoDir
  <2>3. VerifyResult(e) = VerifyResult(d)
    BY <1>3, <2>1, VerdictIgnoresSignature
  <2>4. Honest(d)
    BY <1>1, <1>2, <1>5, TrackIsHonest
  <2>5. QED
    BY <1>3, <2>2, <2>3, <2>4 DEF Honest, Passes, e
<1>6. CASE r.pc \in {"index", "record"}
  <2>1. e = [d EXCEPT !.index = Torn]
    BY <1>6 DEF Writes, e
  <2>2. e.made = d.made /\ e.sig = d.sig /\ e.index = Torn
    BY <1>3, <2>1 DEF NoDir
  <2>3. QED
    BY <1>3, <1>4, <2>2 DEF Honest, e
<1>7. CASE r.pc \in DOMAIN Writes \ {"sign", "index", "record"}
  <2> DEFINE f == Writes[r.pc]
  <2>1. f \in {"env", "inputs", "commands", "manifest", "sums"} /\ e = [d EXCEPT ![f] = Torn]
    <3>1. f \in {"env", "inputs", "commands", "manifest", "sums"}
      BY <1>7 DEF Writes
    <3>2. QED
      BY <3>1 DEF e
  <2> HIDE DEF f
  <2>2. e.made = d.made /\ e.sig = d.sig /\ e.index = d.index
    BY <1>3, <2>1 DEF NoDir
  <2>3. d.index = Nil
    BY <1>1, <1>2, <1>7 DEF Track, Described, Writes, PastIndex, Recorded, Signed
  <2>4. QED
    BY <1>3, <1>4, <2>2, <2>3 DEF Honest, e
<1>8. QED
  BY <1>5, <1>6, <1>7

LEMMA StopKeepsVerdict ==
  ASSUME SerialRuns, VerdictInv, NEW g \in Generators, Stop(g)
  PROVE  VerdictInv'
<1>1. Final'
  BY StopSteps, WorksKeepsFinal DEF VerdictInv
<1>2. UNCHANGED <<tree, prerelease, acked>> /\ run' = [run EXCEPT ![g] = Idle] /\ run[g].pc # "idle"
  BY DEF Stop, AtStep, repoVars
<1>3. \A h \in Generators : run'[h].pc = "idle"
  BY <1>2 DEF VerdictInv, Final, AtStep, Idle
<1>4. \A n \in Names : dirs'[n] = dirs[n] \/ Honest(dirs'[n])
  <2>1. CASE dirs' = dirs
    BY <2>1
  <2>2. CASE run[g].pc \in DOMAIN Writes /\ Put(g, [Dir(g) EXCEPT ![Writes[run[g].pc]] = Torn])
    BY <2>2, StopLeavesHonest DEF Put, VerdictInv, Final
  <2>3. QED
    BY <2>1, <2>2 DEF Stop
<1>5. QED
  BY <1>1, <1>2, <1>3, <1>4, Kept DEF VerdictInv, Late

\* What Proceed does to a run in its early steps, when it is the only one.
LEMMA EarlyEffect ==
  ASSUME VerdictInv, NEW g \in Generators, run[g].pc # "idle",
         NEW r, DOMAIN r = DOMAIN Idle, Proceed(g, r)
  PROVE  /\ run'[g].pc = After[run[g].pc] /\ Follows(run'[g], r)
         /\ \A h \in Generators \ {g} : run'[h].pc = "idle"
<1>1. /\ run'[g] = [r EXCEPT !.pc = After[run[g].pc]]
      /\ \A h \in Generators \ {g} : run'[h] = run[h]
  BY DEF Proceed, VerdictInv, Final
<1>2. \A h \in Generators \ {g} : run[h].pc = "idle"
  BY DEF VerdictInv, Final, AtStep
<1>3. run'[g].pc = After[run[g].pc] /\ Follows(run'[g], r)
  BY <1>1 DEF Idle, Follows
<1>4. QED
  BY <1>1, <1>2, <1>3

\* A run that has not made its directory yet: it learns where it is, and finds
\* that nobody has made it before.
LEMMA EarlyKeepsVerdict ==
  ASSUME SerialRuns, VerdictInv, NEW g \in Generators,
         \/ \E profile \in Profiles : Start(g, profile)
         \/ Preflight(g) \/ SnapshotHead(g) \/ SnapshotStatus(g) \/ CheckFresh(g)
  PROVE  VerdictInv'
<1>1. Final'
  BY NextKeepsFinal DEF BundleNext, Step, VerdictInv
<1>2. UNCHANGED <<tree, prerelease, dirs, acked>>
  BY DEF Start, Preflight, SnapshotHead, SnapshotStatus, CheckFresh, repoVars
<1>3. DOMAIN run = Generators /\ DOMAIN run[g] = DOMAIN Idle
  BY DEF VerdictInv, Final
<1>4. /\ \A h \in Generators \ {g} : run'[h].pc = "idle"
      /\ run'[g].pc = "fresh" => Learnt(run'[g])
      /\ run'[g].pc \in Late => Track(run'[g], Dir(g)')
  <2>1. ASSUME NEW profile \in Profiles, Start(g, profile)
        PROVE  <1>4
    <3>1. /\ \A h \in Generators : run[h].pc = "idle"
          /\ run' = [run EXCEPT ![g] = [Idle EXCEPT !.pc = "preflight", !.profile = profile]]
      BY <2>1 DEF Start, AtStep
    <3>2. run'[g].pc = "preflight" /\ \A h \in Generators \ {g} : run'[h].pc = "idle"
      BY <1>3, <3>1 DEF Idle
    <3>3. QED
      BY <3>2 DEF Late
  <2>2. CASE Preflight(g)
    <3>1. run[g].pc = "preflight" /\ Proceed(g, run[g])
      BY <2>2 DEF Preflight, AtStep
    <3>2. After[run[g].pc] = "snapshot"
      BY <3>1 DEF After
    <3>3. run'[g].pc = "snapshot" /\ \A h \in Generators \ {g} : run'[h].pc = "idle"
      BY <1>3, <3>1, <3>2, EarlyEffect
    <3>4. QED
      BY <3>3 DEF Late
  <2>3. CASE SnapshotHead(g)
    <3> DEFINE r == [run[g] EXCEPT !.stamp = clock, !.sha = head]
    <3>1. run[g].pc = "snapshot" /\ Proceed(g, r) /\ DOMAIN r = DOMAIN Idle
      BY <1>3, <2>3 DEF SnapshotHead, AtStep
    <3>2. After[run[g].pc] = "status"
      BY <3>1 DEF After
    <3> HIDE DEF r
    <3>3. run'[g].pc = "status" /\ \A h \in Generators \ {g} : run'[h].pc = "idle"
      BY <3>1, <3>2, EarlyEffect
    <3>4. QED
      BY <3>3 DEF Late
  <2>6. CASE SnapshotStatus(g)
    <3> DEFINE r == [run[g] EXCEPT !.dirty = (tree # head)]
    <3>1. /\ run[g].pc = "status" /\ Proceed(g, r) /\ DOMAIN r = DOMAIN Idle
          /\ Strict(run[g].profile) => tree = head
      BY <1>3, <2>6 DEF SnapshotStatus, AtStep
    <3>2. r.profile = run[g].profile /\ r.sha = run[g].sha /\ r.dirty = (tree # head)
      BY <1>3 DEF Idle
    <3>3. /\ run'[g].pc = "fresh" /\ Follows(run'[g], r)
          /\ \A h \in Generators \ {g} : run'[h].pc = "idle"
      <4>1. After[run[g].pc] = "fresh"
        BY <3>1 DEF After
      <4> HIDE DEF r
      <4>2. QED
        BY <3>1, <4>1, EarlyEffect
    <3> HIDE DEF r
    <3>4. run[g].sha \in Commits /\ run[g].profile \in Profiles
      BY <3>1 DEF VerdictInv, Final, NamedEarly, Name, Names
    <3>5. Learnt(run'[g])
      BY <3>1, <3>2, <3>3, <3>4 DEF Learnt, Follows, PastKey, PastManifest, PastSums, PastIndex,
         PastInputs, PastTests, PastAssess, Recorded, Signed
    <3>6. QED
      BY <3>3, <3>5 DEF Late
  <2>4. CASE CheckFresh(g)
    <3>1. run[g].pc = "fresh" /\ Proceed(g, run[g]) /\ ~Dir(g).made
      BY <2>4 DEF CheckFresh, AtStep
    <3>2. /\ run'[g].pc = "create" /\ Follows(run'[g], run[g])
          /\ \A h \in Generators \ {g} : run'[h].pc = "idle"
      <4>1. After[run[g].pc] = "create"
        BY <3>1 DEF After
      <4>2. QED
        BY <1>3, <3>1, <4>1, EarlyEffect
    <3>3. Name(g) \in Names /\ Dir(g) = NoDir /\ Learnt(run[g])
      BY <3>1 DEF VerdictInv, Final, Honest, Dir, NamedEarly
    <3>4. Dir(g)' = NoDir
      BY <1>2, <3>2, <3>3 DEF Dir, Name, Follows
    <3>5. Track(run'[g], NoDir)
      BY <3>2, <3>3 DEF Track, Learnt, Hashed, Described, Sealed, Follows, NoDir, PastCreate, PastEnv,
         PastKey, PastManifest, PastSums, PastIndex, PastInputs, PastTests, PastAssess, Recorded, Signed
    <3>6. QED
      BY <3>2, <3>4, <3>5
  <2>5. QED
    BY <2>1, <2>2, <2>3, <2>4, <2>6
<1>5. QED
  BY <1>1, <1>2, <1>4, Kept DEF VerdictInv, Late

\* What generate reports is releasable.
LEMMA ReportedIsReleasable ==
  ASSUME VerdictInv, NEW g \in Generators, Closure(g)
  PROVE  Releasable(Name(g), Dir(g))
<1> DEFINE r == run[g]
           d == Dir(g)
<1>1. r.pc = "closure" /\ Blocking(VerifyResult(d), r.profile) = {}
      /\ ~(Strict(r.profile) /\ r.commands = "failed")
  BY DEF Closure, AtStep
<1>2. Track(r, d) /\ Name(g)[1] = r.profile /\ Name(g)[3] = r.sha
  BY <1>1, AtWork DEF Late
<1> USE DEF PastCreate, PastEnv, PastInputs, PastTests, PastAssess, PastKey, PastManifest,
            PastSums, PastIndex, Recorded, Signed
<1>3. d.index.verification = "Complete" <=> Passes(d)
  BY <1>1, <1>2, StateOfVerdict DEF Track, Described
<1>4. CASE Strict(r.profile)
  <2>1. VerifyResult(d).kind = "pass" /\ BundleFindings(d) = {}
    <3>1. VerifyResult(d).kind # "error" /\ VerifyResult(d).findings = {}
      BY <1>1, <1>4 DEF Blocking
    <3>2. QED
      BY <3>1 DEF VerifyResult
  <2>2. /\ r.planned = TRUE /\ r.dirty = FALSE /\ r.commands \in TestOutcomes /\ d.commands = r.commands
        /\ d.env \in EnvFiles
        /\ d.index.profile = r.profile /\ d.index.sha = r.sha /\ d.index.dirty = r.dirty
        /\ d.index.integrity = "Complete"
    BY <1>1, <1>2, <1>4 DEF Track, Learnt, Hashed, Described
  <2>3. d.commands = "clean"
    BY <1>1, <1>4, <2>2 DEF TestOutcomes
  <2>4. d.report = "sound"
    BY <2>1 DEF BundleFindings
  <2>5. d.env = [profile |-> r.profile, sha |-> r.sha, dirty |-> FALSE]
    <3>1. d.env # Torn
      BY <2>2, FilesAreNoFragments
    <3>2. d.env = [profile |-> d.index.profile, sha |-> d.index.sha, dirty |-> d.index.dirty]
      BY <2>1, <3>1 DEF BundleFindings
    <3>3. QED
      BY <2>2, <3>2
  <2>6. \E k \in SigningKeys : SignatureValid(d, k) /\ (Anchor # Nil => k = Anchor)
    BY <1>1, <1>2, <2>2 DEF Track, Sealed
  <2>7. QED
    BY <1>2, <1>3, <2>1, <2>2, <2>3, <2>4, <2>5, <2>6 DEF Releasable, Passes
<1>5. CASE ~Strict(r.profile)
  BY <1>2, <1>3, <1>5 DEF Releasable
<1>6. QED
  BY <1>4, <1>5

LEMMA NextKeepsVerdict ==
  ASSUME SerialRuns, VerdictInv, [BundleNext]_bundleVars
  PROVE  VerdictInv'
<1>1. Final'
  BY NextKeepsFinal DEF VerdictInv
<1>2. ASSUME NEW g \in Generators, Closure(g)
      PROVE  VerdictInv'
  <2>1. /\ UNCHANGED <<tree, prerelease, dirs>> /\ run' = [run EXCEPT ![g] = Idle]
        /\ acked' = acked \cup {<<Name(g), Dir(g)>>} /\ run[g].pc # "idle"
    BY <1>2 DEF Closure, AtStep, repoVars
  <2>2. \A h \in Generators : run'[h].pc = "idle"
    BY <2>1 DEF VerdictInv, Final, AtStep, Idle
  <2>3. \A e \in acked' : e \in acked \/ Releasable(e[1], e[2])
    BY <1>2, <2>1, ReportedIsReleasable
  <2>4. QED
    BY <1>1, <2>1, <2>2, <2>3, Kept DEF VerdictInv, Late
<1>3. ASSUME NEW g \in Generators, Step(g)
      PROVE  VerdictInv'
  BY <1>2, <1>3, WorkKeepsVerdict, EarlyKeepsVerdict, StopKeepsVerdict DEF Step
<1>4. ASSUME UNCHANGED <<prerelease, dirs, run, acked>>, tree' \in Commits \cup Edits
      PROVE  VerdictInv'
  <2>1. \A g \in Generators : Dir(g)' = Dir(g)
    BY <1>4 DEF Dir, Name
  <2>2. QED
    BY <1>1, <1>4, <2>1, Kept DEF VerdictInv
<1>5. CASE Surroundings
  BY <1>4, <1>5 DEF Surroundings, EditTree, Checkout, Tick, VerdictInv
<1>6. CASE UNCHANGED bundleVars
  BY <1>4, <1>6 DEF bundleVars, VerdictInv
<1>7. QED
  BY <1>3, <1>5, <1>6 DEF BundleNext

LEMMA VerdictHolds ==
  ASSUME SerialRuns
  PROVE  BundleSpec => []VerdictInv
<1>1. BundleInit => VerdictInv
  <2> SUFFICES ASSUME BundleInit PROVE VerdictInv
    OBVIOUS
  <2>1. Final
    BY ClockIsBounded DEF BundleInit, Final, Early, Late, NamedEarly, AtStep, Idle
  <2>2. \A g \in Generators : run[g].pc = "idle"
    BY DEF BundleInit, Idle
  <2>3. \A n \in Names : Honest(dirs[n])
    BY DEF BundleInit, Honest, NoDir
  <2>4. QED
    BY <2>1, <2>2, <2>3 DEF BundleInit, VerdictInv, Late
<1>2. VerdictInv /\ [BundleNext]_bundleVars => VerdictInv'
  BY NextKeepsVerdict
<1>3. QED
  BY <1>1, <1>2, PTL DEF BundleSpec

-----------------------------------------------------------------------------
(* The theorems.                                                           *)

\* An index.json that says "verified" lies in a bundle that passes the verifier,
\* in every state, after every crash and error return (finalize_and_sign,
\* record_verification_state).
THEOREM IndexTellsTheTruth ==
  ASSUME SerialRuns
  PROVE  BundleSpec => []VerificationStateIsTrue
<1>1. VerdictInv => VerificationStateIsTrue
  BY DEF VerdictInv, Honest, VerificationStateIsTrue
<1>2. QED
  BY <1>1, VerdictHolds, PTL

\* A signature on disk is one of the SHA256SUMS and index.json beside it
\* (sign_bundle comes after the last write to either).
THEOREM SignatureIsOfTheBundle ==
  ASSUME SerialRuns
  PROVE  BundleSpec => []SignaturesCoverWhatIsThere
<1>1. VerdictInv => SignaturesCoverWhatIsThere
  BY DEF VerdictInv, Honest, SignaturesCoverWhatIsThere
<1>2. QED
  BY <1>1, VerdictHolds, PTL

\* GENERATE_OK on cert and record is for a releasable bundle only
\* (generator_closure, check_pubkey_anchor, the strict guards before them).
THEOREM OkMeansReleasable ==
  ASSUME SerialRuns
  PROVE  BundleSpec => []AcknowledgedIsReleasable
<1>1. VerdictInv => AcknowledgedIsReleasable
  BY DEF VerdictInv, Releasable, AcknowledgedIsReleasable
<1>2. QED
  BY <1>1, VerdictHolds, PTL

\* What a reported bundle says of its verification is what the verifier says,
\* on dev as well (record_verification_state with the self-verification's
\* result, pre-release builds included).
THEOREM OkTellsTheVerdict ==
  ASSUME SerialRuns
  PROVE  BundleSpec => []AcknowledgedVerdictIsHonest
<1>1. VerdictInv => AcknowledgedVerdictIsHonest
  BY DEF VerdictInv, Releasable, AcknowledgedVerdictIsHonest
<1>2. QED
  BY <1>1, VerdictHolds, PTL
=============================================================================
