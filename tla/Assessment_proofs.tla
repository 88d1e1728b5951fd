-------------------------- MODULE Assessment_proofs --------------------------
(***************************************************************************)
(* What judges evidence, for bundles of any content, traces of any size    *)
(* and test runs of any shape; and the custody of the keys and of a signed *)
(* bundle, for any number of keys and edits.                               *)
(***************************************************************************)
EXTENDS VerifyCommand, TraceReport, BundleDiff, TestCapture, FiniteSetTheorems, FunctionTheorems,
        TLAPS

-----------------------------------------------------------------------------
(* Two bundles compared.                                                   *)

LEMMA StatusIsItsMirror ==
  \A changed, unexaminable :
      /\ Status(changed, unexaminable) \in {"Changed", "Unverifiable", "Equal"}
      /\ Mirror(Status(changed, unexaminable)) = Status(changed, unexaminable)
BY DEF Status, Mirror

\* diff_digest_planes finds nothing exactly when the planes are the same and
\* all their digests well formed.
LEMMA PlanesWithoutFindings ==
  ASSUME NEW a, NEW b, NEW p, Parsed(a, p), Parsed(b, p)
  PROVE  PlaneFindings(a, b, p) = {} <=>
           /\ DOMAIN a[p] = DOMAIN b[p]
           /\ \A f \in DOMAIN a[p] : a[p][f] = b[p][f] /\ a[p][f] # Malformed
<1> DEFINE diff == PlaneDiff(a[p], b[p])
<1>1. DOMAIN diff = {"unverifiable", "missing", "extra", "changed"}
  BY DEF PlaneDiff
<1>2. PlaneFindings(a, b, p) = UNION {Tag(kind, diff[kind]) : kind \in DOMAIN diff}
  BY DEF PlaneFindings
<1>3. \A kind : Tag(kind, diff[kind]) = {} <=> diff[kind] = {}
  BY DEF Tag
<1>4. PlaneFindings(a, b, p) = {} <=> \A kind \in DOMAIN diff : diff[kind] = {}
  BY <1>2, <1>3
<1>5. diff.unverifiable = (DOMAIN a[p] \ {f \in DOMAIN a[p] : a[p][f] # Malformed})
        \cup {f \in {f \in {f \in DOMAIN a[p] : a[p][f] # Malformed} \cap DOMAIN b[p] :
                        a[p][f] # b[p][f]} : b[p][f] = Malformed}
  BY DEF PlaneDiff
<1>6. diff.missing = {f \in DOMAIN a[p] : a[p][f] # Malformed} \ DOMAIN b[p]
      /\ diff.extra = DOMAIN b[p] \ DOMAIN a[p]
  BY DEF PlaneDiff
<1>7. diff.changed = {f \in {f \in DOMAIN a[p] : a[p][f] # Malformed} \cap DOMAIN b[p] :
                         a[p][f] # b[p][f]}
        \ {f \in {f \in {f \in DOMAIN a[p] : a[p][f] # Malformed} \cap DOMAIN b[p] :
                        a[p][f] # b[p][f]} : b[p][f] = Malformed}
  BY DEF PlaneDiff
<1> HIDE DEF diff
<1> QED BY <1>1, <1>4, <1>5, <1>6, <1>7

LEMMA PlanesMirror ==
  ASSUME NEW a, NEW b, NEW p
  PROVE  PlaneFindings(a, b, p) = {} <=> PlaneFindings(b, a, p) = {}
<1>1. CASE Parsed(a, p) /\ Parsed(b, p)
  BY <1>1, PlanesWithoutFindings
<1>2. CASE ~(Parsed(a, p) /\ Parsed(b, p))
  BY <1>2 DEF PlaneFindings, Tag
<1> QED BY <1>1, <1>2

LEMMA ReproductionFindsNothing ==
  ASSUME NEW a, NEW b
  PROVE  Reproduction(a, b) = {} <=>
           /\ \A p \in Planes : PlaneFindings(a, b, p) = {}
           /\ RecipeDifferences(a, b) = {}
BY DEF Reproduction

LEMMA RecipesMirror ==
  ASSUME NEW a, NEW b
  PROVE  RecipeDifferences(a, b) = RecipeDifferences(b, a)
<1>1. RecipeChanges(a, b) = RecipeChanges(b, a)
  BY DEF RecipeChanges
<1> QED BY <1>1 DEF RecipeDifferences

Categories == {"scope", "trace_graph", "tests", "coverage", "commands", "recipe", "inputs",
               "outputs", "objective_mappings", "reviews_approvals", "anomalies", "tool_identity",
               "integrity", "completeness_states", "content_hash"}

LEMMA CategoriesMirror ==
  ASSUME NEW a, NEW b
  PROVE  /\ \A fields : IndexDiff(b, a, fields) = Mirror(IndexDiff(a, b, fields))
         /\ TraceGraph(b, a) = Mirror(TraceGraph(a, b))
         /\ TestDiff(b, a) = Mirror(TestDiff(a, b))
         /\ CoverageDiff(b, a) = Mirror(CoverageDiff(a, b))
         /\ CommandDiff(b, a) = Mirror(CommandDiff(a, b))
         /\ RecipeDiff(b, a) = Mirror(RecipeDiff(a, b))
         /\ \A p : PlaneStatus(b, a, p) = Mirror(PlaneStatus(a, b, p))
         /\ ObjectiveMappings(b, a) = Mirror(ObjectiveMappings(a, b))
         /\ ToolIdentity(b, a) = Mirror(ToolIdentity(a, b))
         /\ IntegrityDiff(b, a) = Mirror(IntegrityDiff(a, b))
<1>1. Mirror("Unverifiable") = "Unverifiable" /\ Mirror("Equal") = "Equal"
      /\ Mirror("Added") = "Removed" /\ Mirror("Removed") = "Added"
  BY DEF Mirror
<1>2. \A fields, x, y : DifferIn(x, y, fields) <=> DifferIn(y, x, fields)
  BY DEF DifferIn
<1>3. \A p : OneGarbled(a, b, p) <=> OneGarbled(b, a, p)
  BY DEF OneGarbled
<1>4. \A fields : IndexDiff(b, a, fields) = Mirror(IndexDiff(a, b, fields))
  BY <1>1, <1>2, StatusIsItsMirror DEF IndexDiff, Status
<1>5. TraceGraph(b, a) = Mirror(TraceGraph(a, b))
  BY <1>1, <1>3, StatusIsItsMirror DEF TraceGraph, Status
<1>6. TestDiff(b, a) = Mirror(TestDiff(a, b))
  <2> DEFINE changed(x, y) ==
               \/ Summary(x) # Summary(y)
               \/ ~OneGarbled(x, y, "tests/test_outcomes.jsonl") /\ Verdicts(x) # Verdicts(y)
               \/ Logs \cap DOMAIN x # Logs \cap DOMAIN y
             unexaminable(x, y) == HasTestData(x) /\ OneGarbled(x, y, "tests/test_outcomes.jsonl")
  <2>1. changed(a, b) <=> changed(b, a)
    BY <1>3
  <2>2. CASE HasTestData(a) <=> HasTestData(b)
    <3>1. HasTestData(a) = HasTestData(b)
      BY <2>2 DEF HasTestData
    <3>2. TestDiff(a, b) = Status(changed(a, b), unexaminable(a, b))
      BY <3>1 DEF TestDiff
    <3>3. TestDiff(b, a) = Status(changed(b, a), unexaminable(b, a))
      BY <3>1 DEF TestDiff
    <3>4. unexaminable(a, b) <=> unexaminable(b, a)
      BY <1>3, <2>2
    <3> HIDE DEF changed, unexaminable
    <3>5. Status(changed(a, b), unexaminable(a, b)) = Status(changed(b, a), unexaminable(b, a))
      BY <2>1, <3>4 DEF Status
    <3> QED BY <3>2, <3>3, <3>5, StatusIsItsMirror
  <2>3. CASE HasTestData(a) /\ ~HasTestData(b)
    BY <1>1, <2>3 DEF TestDiff
  <2>4. CASE ~HasTestData(a) /\ HasTestData(b)
    BY <1>1, <2>4 DEF TestDiff
  <2> QED BY <2>2, <2>3, <2>4
<1>7. CoverageDiff(b, a) = Mirror(CoverageDiff(a, b))
  BY <1>1, <1>3, StatusIsItsMirror DEF CoverageDiff, Status
<1>8. CommandDiff(b, a) = Mirror(CommandDiff(a, b))
  BY <1>1, StatusIsItsMirror DEF CommandDiff, Status
<1>9. RecipeDiff(b, a) = Mirror(RecipeDiff(a, b))
  BY <1>1, RecipesMirror, StatusIsItsMirror DEF RecipeDiff
<1>10. \A p : PlaneStatus(b, a, p) = Mirror(PlaneStatus(a, b, p))
  BY <1>1, PlanesMirror, StatusIsItsMirror DEF PlaneStatus, Status
<1>11. ObjectiveMappings(b, a) = Mirror(ObjectiveMappings(a, b))
  BY <1>1, <1>3, StatusIsItsMirror DEF ObjectiveMappings, Status
<1>12. ToolIdentity(b, a) = Mirror(ToolIdentity(a, b))
  BY <1>1, <1>2, StatusIsItsMirror DEF ToolIdentity, Status
<1>13. IntegrityDiff(b, a) = Mirror(IntegrityDiff(a, b))
  BY StatusIsItsMirror DEF IntegrityDiff, Status
<1> QED BY <1>4, <1>5, <1>6, <1>7, <1>8, <1>9, <1>10, <1>11, <1>12, <1>13

LEMMA CompareMirrors ==
  ASSUME NEW a, NEW b
  PROVE  \A c \in DOMAIN Compare(a, b) : Compare(b, a)[c] = Mirror(Compare(a, b)[c])
<1>1. DOMAIN Compare(a, b) = Categories
  BY DEF Compare, Categories
<1>2. Mirror("Unverifiable") = "Unverifiable"
  BY DEF Mirror
<1>3. ASSUME NEW c \in Categories PROVE Compare(b, a)[c] = Mirror(Compare(a, b)[c])
  BY <1>2, CategoriesMirror
     DEF Compare, Categories, Scope, Anomalies, CompletenessStates, ContentHashes
<1> QED BY <1>1, <1>3

\* `diff` and the reproduction comparison agree, and neither depends on which
\* bundle is named first, whatever the two bundles hold (compare_bundles,
\* compare_reproduction, legacy_hash_diff).
THEOREM ComparisonsAlwaysAgree == []ComparisonsAgree
<1>1. ComparisonsAgree
  <2> DEFINE a == A
             b == B
             equal == \A c \in {"inputs", "recipe", "outputs"} : Compare(a, b)[c] = "Equal"
  <2>1. \A c \in DOMAIN Compare(a, b) : Compare(b, a)[c] = Mirror(Compare(a, b)[c])
    BY CompareMirrors
  <2>2. equal <=> /\ \A p \in Planes : PlaneStatus(a, b, p) = "Equal"
                  /\ RecipeDiff(a, b) = "Equal"
    BY DEF Compare, Planes
  <2> HIDE DEF a, b
  <2>3. \A p \in Planes : PlaneStatus(a, b, p) = "Equal" <=> PlaneFindings(a, b, p) = {}
    <3>1. \A p : ~(Parsed(a, p) /\ Parsed(b, p)) => PlaneFindings(a, b, p) # {}
      BY DEF PlaneFindings, Tag
    <3> QED BY <3>1 DEF PlaneStatus, Status
  <2>4. RecipeDiff(a, b) = "Equal" <=> RecipeDifferences(a, b) = {}
    BY DEF RecipeDiff, Status
  <2>5. Reproduction(a, b) = {} <=> /\ \A p \in Planes : PlaneFindings(a, b, p) = {}
                                    /\ RecipeDifferences(a, b) = {}
    BY ReproductionFindsNothing
  <2>6. ASSUME NEW p \in Planes, PlaneFindings(a, b, p) = {}
        PROVE  LegacyHashDiff(a, b, p) = Nothing
    <3>1. Parsed(a, p) /\ Parsed(b, p)
      BY <2>6 DEF PlaneFindings, Tag
    <3> QED BY <2>6, <3>1, PlanesWithoutFindings DEF LegacyHashDiff, LegacyPlane, Nothing
  <2> HIDE DEF equal
  <2>7. equal <=> Reproduction(a, b) = {}
    BY <2>2, <2>3, <2>4, <2>5
  <2>8. equal => \A p \in Planes : LegacyHashDiff(a, b, p) = Nothing
    BY <2>2, <2>3, <2>6
  <2> QED BY <2>1, <2>7, <2>8 DEF ComparisonsAgree, a, b, equal
<1> QED BY <1>1, PTL

\* What a file may come to hold, by hand or by a fault, as far as the types of
\* the parsers go: the map of DALs is one of crates, and a row of commands.json
\* names a capture, none of the files the bundle is sealed with.
MayHold(path, c) ==
    /\ c # Absent
    /\ path = "index.json" /\ c # Garbled =>
        DOMAIN c.dals \subseteq Crates /\ c.dals = [k \in DOMAIN c.dals |-> c.dals[k]]
    /\ path = "commands.json" /\ c # Garbled =>
        \A i \in DOMAIN c : c[i].stdout \notin KnownMeta

WellFormed(evidence) == \A p \in DOMAIN evidence : MayHold(p, evidence[p])

\* SHA256SUMS has every file but the metadata, as it is.
Sealed(evidence) ==
    /\ Required \subseteq DOMAIN evidence
    /\ evidence["index.json"] # Garbled
    /\ evidence["index.json"].contentHash = evidence["SHA256SUMS"]
    /\ DOMAIN evidence \ KnownMeta \subseteq DOMAIN evidence["SHA256SUMS"]
    /\ \A p \in DOMAIN evidence["SHA256SUMS"] :
        p \in DOMAIN evidence /\ evidence[p] = evidence["SHA256SUMS"][p]

\* What the checks on the listing, on the index and on its digests come to.
LEMMA VerifiedIsSealed ==
  ASSUME NEW evidence, Verifies(evidence)
  PROVE  Sealed(evidence)
<1> DEFINE index == evidence["index.json"]
           sums == evidence["SHA256SUMS"]
<1>1. Required \subseteq DOMAIN evidence
  BY DEF Verifies, Missing
<1>2. index # Garbled /\ sums # Garbled
  BY DEF Verifies, CannotRun
<1>3. ListingFindings(evidence) = {} /\ IndexFindings(evidence, index) = {}
  BY DEF Verifies, ContentFindings
<1>4. /\ DOMAIN sums \cap Outside = {}
      /\ \A p \in Listed(sums) : Has(evidence, p)
      /\ \A p \in Listed(sums) \cap DOMAIN evidence : evidence[p] = sums[p]
      /\ DOMAIN evidence \ (Listed(sums) \cup KnownMeta) = {}
  <2>1. DOMAIN sums \cap Outside # {} => "UnsafePath" \in ListingFindings(evidence)
    BY DEF ListingFindings, Findings
  <2>2. (\E p \in Listed(sums) : ~Has(evidence, p)) => "MissingHashedFile" \in ListingFindings(evidence)
    BY DEF ListingFindings, Findings
  <2>3. (\E p \in Listed(sums) \cap DOMAIN evidence : evidence[p] # sums[p])
          => "HashMismatch" \in ListingFindings(evidence)
    BY DEF ListingFindings, Findings
  <2>4. DOMAIN evidence \ (Listed(sums) \cup KnownMeta) # {}
          => "UnexpectedFile" \in ListingFindings(evidence)
    BY DEF ListingFindings, Findings
  <2> QED BY <1>3, <2>1, <2>2, <2>3, <2>4
<1>5. index.contentHash = sums
  <2>1. index.contentHash # sums => "ContentHashMismatch" \in IndexFindings(evidence, index)
    BY DEF IndexFindings, Findings
  <2> QED BY <1>3, <2>1
<1>6. Listed(sums) = DOMAIN sums
  BY <1>4 DEF Listed
<1> QED BY <1>1, <1>2, <1>4, <1>5, <1>6 DEF Sealed, Has

\* Two bundles sealed under one content hash.
SameSeal(a, b) ==
    /\ DOMAIN a \ KnownMeta = DOMAIN b \ KnownMeta
    /\ Required \subseteq DOMAIN a \cap DOMAIN b
    /\ \A p \in DOMAIN a \ {"index.json", "BUNDLE.sig"} : p \in DOMAIN b /\ a[p] = b[p]

LEMMA OneHashOneSeal ==
  ASSUME NEW a, NEW b, Sealed(a), Sealed(b),
         a["index.json"].contentHash = b["index.json"].contentHash
  PROVE  SameSeal(a, b)
<1>1. a["SHA256SUMS"] = b["SHA256SUMS"]
  BY DEF Sealed
<1>2. "SHA256SUMS" \in Required
  BY DEF Required
<1> QED BY <1>1, <1>2 DEF Sealed, SameSeal, KnownMeta

LEMMA SameSealReads ==
  ASSUME NEW a, NEW b, SameSeal(a, b), NEW p, p \notin KnownMeta
  PROVE  /\ Has(a, p) <=> Has(b, p)
         /\ Read(a, p) = Read(b, p)
         /\ Parsed(a, p) <=> Parsed(b, p)
         /\ Has(a, p) => a[p] = b[p]
BY DEF SameSeal, Has, Read, Parsed, KnownMeta

\* The fields of the index that a file backs are what the file says.
Backed(evidence) ==
    LET index == evidence["index.json"]
        env == evidence["env.json"] IN
    /\ index.profile = env.profile /\ index.git = env.git
    /\ index.recipeHash = evidence["deterministic-manifest.json"]
    /\ index.resolution = evidence["deterministic-manifest.json"].resolution
    /\ \A p \in {"env.json", "inputs_hashes.json", "commands.json"} : evidence[p] # Garbled
    /\ \A c \in DOMAIN index.dals : Parsed(evidence, c) /\ evidence[c].dal = index.dals[c]
    /\ Crates \cap DOMAIN evidence \subseteq DOMAIN index.dals
    /\ index.summary # Absent /\ Parsed(evidence, "tests/cargo_test_stdout.txt")
        => evidence["tests/cargo_test_stdout.txt"] = index.summary

LEMMA VerifiedIsBacked ==
  ASSUME NEW evidence, Verifies(evidence)
  PROVE  Backed(evidence)
<1> DEFINE index == evidence["index.json"]
           manifest == evidence["deterministic-manifest.json"]
<1>1. Required \subseteq DOMAIN evidence
  BY DEF Verifies, Missing
<1>2. /\ FieldFindings(evidence, index) = {} /\ IndexFindings(evidence, index) = {}
      /\ RecipeFindings(evidence, index) = {} /\ SummaryFindings(evidence, index) = {}
      /\ DalFindings(evidence, index) = {}
  BY DEF Verifies, ContentFindings
<1>3. /\ \A p \in {"env.json", "inputs_hashes.json", "commands.json"} : evidence[p] # Garbled
      /\ manifest = Recipe(evidence, index.resolution)
  <2>1. (\E p \in {"env.json", "inputs_hashes.json", "commands.json"} : evidence[p] = Garbled)
          => "ManifestProjectionDrift" \in RecipeFindings(evidence, index)
    BY DEF RecipeFindings, Findings
  <2>2. manifest # Recipe(evidence, index.resolution)
          => "ManifestProjectionDrift" \in RecipeFindings(evidence, index)
    BY DEF RecipeFindings, Findings
  <2> QED BY <1>2, <2>1, <2>2
<1>4. manifest.resolution = index.resolution
  BY <1>3 DEF Recipe
<1>5. index.recipeHash = manifest
  <2>1. index.recipeHash # manifest => "DeterministicHashMismatch" \in IndexFindings(evidence, index)
    BY DEF IndexFindings, Findings
  <2> QED BY <1>2, <2>1
<1>6. index.profile = evidence["env.json"].profile /\ index.git = evidence["env.json"].git
  <2>1. Read(evidence, "env.json") = evidence["env.json"] /\ evidence["env.json"] # Garbled
    BY <1>1, <1>3 DEF Read, Has, Required
  <2>2. evidence["env.json"] # Garbled /\ (evidence["env.json"].profile # index.profile
                                        \/ evidence["env.json"].git # index.git)
          => "CrossFileInconsistency" \in FieldFindings(evidence, index)
    BY <2>1 DEF FieldFindings, Findings
  <2> QED BY <1>2, <2>1, <2>2
<1>7. /\ \A c \in DOMAIN index.dals : Parsed(evidence, c) /\ evidence[c].dal = index.dals[c]
      /\ Crates \cap DOMAIN evidence \subseteq DOMAIN index.dals
  <2>1. (\E c \in DOMAIN index.dals : ~Parsed(evidence, c)) \/ ~(Crates \cap DOMAIN evidence \subseteq DOMAIN index.dals)
          => "DalMapOrphan" \in DalFindings(evidence, index)
    BY DEF DalFindings, Findings
  <2>2. (\E c \in DOMAIN index.dals : Parsed(evidence, c) /\ evidence[c].dal # index.dals[c])
          => "DalMapMismatch" \in DalFindings(evidence, index)
    BY DEF DalFindings, Findings
  <2> QED BY <1>2, <2>1, <2>2
<1>8. index.summary # Absent /\ Parsed(evidence, "tests/cargo_test_stdout.txt")
        => evidence["tests/cargo_test_stdout.txt"] = index.summary
  <2>1. index.summary # Absent /\ Parsed(evidence, "tests/cargo_test_stdout.txt")
        /\ evidence["tests/cargo_test_stdout.txt"] # index.summary
          => "TestSummaryMismatch" \in SummaryFindings(evidence, index)
    BY DEF SummaryFindings, Findings
  <2> QED BY <1>2, <2>1
<1> QED BY <1>3, <1>4, <1>5, <1>6, <1>7, <1>8 DEF Backed

LEMMA SameEvidence ==
  ASSUME NEW a, NEW b, WellFormed(a), WellFormed(b), Verifies(a), Verifies(b),
         a["index.json"].contentHash = b["index.json"].contentHash
  PROVE  SameSeal(a, b) /\ Backed(a) /\ Backed(b)
BY VerifiedIsSealed, OneHashOneSeal, VerifiedIsBacked

\* What is backed by the same files is the same.
LEMMA BackedFieldsAgree ==
  ASSUME NEW a, NEW b, WellFormed(a), WellFormed(b), SameSeal(a, b), Backed(a), Backed(b),
         a["index.json"] # Garbled, b["index.json"] # Garbled
  PROVE  LET x == a["index.json"] y == b["index.json"] IN
         /\ ~DifferIn(x, y, {"profile", "git", "recipeHash", "resolution", "dals"})
         /\ Parsed(a, "tests/cargo_test_stdout.txt") /\ Absent \notin {x.summary, y.summary}
             => x.summary = y.summary
<1> DEFINE x == a["index.json"]
           y == b["index.json"]
<1>1. \A p \in {"env.json", "deterministic-manifest.json"} : a[p] = b[p]
  BY DEF SameSeal, Required
<1>2. x.profile = y.profile /\ x.git = y.git /\ x.recipeHash = y.recipeHash
      /\ x.resolution = y.resolution
  BY <1>1 DEF Backed
<1>3. x.dals = y.dals
  <2>1. /\ DOMAIN x.dals \subseteq Crates /\ x.dals = [k \in DOMAIN x.dals |-> x.dals[k]]
        /\ DOMAIN y.dals \subseteq Crates /\ y.dals = [k \in DOMAIN y.dals |-> y.dals[k]]
    BY DEF WellFormed, MayHold, SameSeal, Required
  <2>2. \A c \in Crates : (c \in DOMAIN a <=> c \in DOMAIN b) /\ (c \in DOMAIN a => a[c] = b[c])
    BY ReportsAreNoMeta, SameSealReads DEF Has
  <2>3. /\ \A c \in DOMAIN x.dals : c \in DOMAIN a /\ a[c].dal = x.dals[c]
        /\ \A c \in DOMAIN y.dals : c \in DOMAIN b /\ b[c].dal = y.dals[c]
    BY DEF Backed, Parsed, Read, Has
  <2>4. Crates \cap DOMAIN a \subseteq DOMAIN x.dals /\ Crates \cap DOMAIN b \subseteq DOMAIN y.dals
    BY DEF Backed
  <2>5. ASSUME NEW c PROVE c \in DOMAIN x.dals <=> c \in DOMAIN y.dals
    <3>1. c \in DOMAIN x.dals \/ c \in DOMAIN y.dals => c \in Crates
      BY <2>1
    <3>2. CASE c \in Crates
      BY <2>2, <2>3, <2>4, <3>2
    <3> QED BY <3>1, <3>2
  <2> HIDE DEF x, y
  <2>6. \A c \in DOMAIN x.dals : x.dals[c] = y.dals[c]
    BY <2>1, <2>2, <2>3, <2>5
  <2>7. DOMAIN x.dals = DOMAIN y.dals
    BY <2>5
  <2> QED BY <2>1, <2>6, <2>7
<1>4. ASSUME Parsed(a, "tests/cargo_test_stdout.txt"), x.summary # Absent, y.summary # Absent
      PROVE  x.summary = y.summary
  <2>1. /\ Parsed(b, "tests/cargo_test_stdout.txt")
        /\ a["tests/cargo_test_stdout.txt"] = b["tests/cargo_test_stdout.txt"]
    BY <1>4, SameSealReads DEF KnownMeta, Parsed, Read, Has
  <2> QED BY <1>4, <2>1 DEF Backed
<1> QED BY <1>2, <1>3, <1>4 DEF DifferIn

\* `diff` sees no change in what is made of the files.
LEMMA FilesDoNotDiffer ==
  ASSUME NEW a, NEW b, WellFormed(a), WellFormed(b), SameSeal(a, b), Backed(a), Backed(b)
  PROVE  /\ TraceGraph(a, b) \in {"Equal", "Unverifiable"}
         /\ CoverageDiff(a, b) \in {"Equal", "Unverifiable"}
         /\ CommandDiff(a, b) \in {"Equal", "Unverifiable"}
         /\ RecipeDiff(a, b) \in {"Equal", "Unverifiable"}
         /\ ObjectiveMappings(a, b) \in {"Equal", "Unverifiable"}
<1>1. ASSUME NEW p, p \notin KnownMeta
      PROVE  Has(a, p) = Has(b, p) /\ Read(a, p) = Read(b, p)
  <2>1. (p \in DOMAIN a <=> p \in DOMAIN b) /\ Read(a, p) = Read(b, p)
    BY <1>1, SameSealReads DEF Has
  <2> QED BY <2>1 DEF Has
<1>2. \A unexaminable : Status(FALSE, unexaminable) \in {"Equal", "Unverifiable"}
  BY DEF Status
<1>3. TraceGraph(a, b) \in {"Equal", "Unverifiable"}
  <2>1. \A p \in DiffedTraces \cup {"trace/matrix.md"} : p \notin KnownMeta
    BY DEF DiffedTraces, TraceNames, KnownMeta
  <2>2. \A p \in DiffedTraces : Read(a, p) = Read(b, p)
    BY <1>1, <2>1
  <2>3. Has(a, "trace/matrix.md") = Has(b, "trace/matrix.md")
    BY <1>1, <2>1 DEF Has
  <2> QED BY <2>2, <2>3 DEF TraceGraph, Status
<1>4. CoverageDiff(a, b) \in {"Equal", "Unverifiable"}
  <2>1. /\ Read(a, CoverageSummary) = Read(b, CoverageSummary)
        /\ Has(a, "coverage/lcov.info") = Has(b, "coverage/lcov.info")
    BY <1>1 DEF CoverageSummary, KnownMeta, Has
  <2> QED BY <2>1 DEF CoverageDiff, Status
<1>5. CommandDiff(a, b) \in {"Equal", "Unverifiable"}
  <2>1. CASE Parsed(a, "commands.json") /\ Parsed(b, "commands.json")
    <3>1. a["commands.json"] = b["commands.json"]
      BY DEF SameSeal, Required
    <3>2. \A i \in DOMAIN a["commands.json"] : a["commands.json"][i].stdout \notin KnownMeta
      BY <2>1 DEF WellFormed, MayHold, SameSeal, Required, Parsed, Read
    <3>3. \A i \in DOMAIN a["commands.json"] :
            CapturedAs(a, a["commands.json"][i]) = CapturedAs(b, a["commands.json"][i])
      BY <1>1, <3>2 DEF CapturedAs, Has
    <3> QED BY <2>1, <3>1, <3>3 DEF CommandDiff, Status
  <2>2. CASE ~(Parsed(a, "commands.json") /\ Parsed(b, "commands.json"))
    BY <2>2 DEF CommandDiff
  <2> QED BY <2>1, <2>2
<1>6. RecipeDiff(a, b) \in {"Equal", "Unverifiable"}
  <2>1. a["deterministic-manifest.json"] = b["deterministic-manifest.json"]
    BY DEF SameSeal, Required
  <2>2. RecipeChanges(a, b) = {}
    BY <2>1 DEF RecipeChanges
  <2>3. RecipeDifferences(a, b) \in {{}, {<<"RecipeUnavailable", "">>}}
    BY <2>2 DEF RecipeDifferences, Tag
  <2> QED BY <2>3 DEF RecipeDiff, Status
<1>7. ObjectiveMappings(a, b) \in {"Equal", "Unverifiable"}
  <2>1. \A c \in Reports(a) \cup Reports(b) : Read(a, c) = Read(b, c)
    BY <1>1, ReportsAreNoMeta DEF Reports
  <2> QED BY <2>1 DEF ObjectiveMappings, Status
<1> QED BY <1>3, <1>4, <1>5, <1>6, <1>7

LEMMA SealedPlanesAgree ==
  ASSUME NEW a, NEW b, WellFormed(a), SameSeal(a, b), Backed(a), NEW p \in Planes
  PROVE  \/ PlaneStatus(a, b, p) = "Equal"
         \/ p = "outputs_hashes.json" /\ a[p] = Garbled
         \/ \E f \in DOMAIN a[p] : a[p][f] = Malformed
<1>1. p \in DOMAIN a /\ p \in DOMAIN b /\ a[p] = b[p] /\ a[p] # Absent
  BY DEF SameSeal, Required, Planes, WellFormed, MayHold
<1>2. CASE a[p] = Garbled
  BY <1>2 DEF Backed, Planes
<1>3. CASE a[p] # Garbled
  <2>1. Parsed(a, p) /\ Parsed(b, p)
    BY <1>1, <1>3 DEF Parsed, Read, Has
  <2> QED BY <1>1, <2>1, PlanesWithoutFindings DEF PlaneStatus, Status
<1> QED BY <1>2, <1>3

LEMMA SettledByTheHash ==
  ASSUME WellFormed(A), WellFormed(B)
  PROVE  ContentHashSettles
<1> DEFINE a == A
           b == B
<1> SUFFICES ASSUME Verifies(a), Verifies(b),
                    a["index.json"].contentHash = b["index.json"].contentHash
             PROVE  LET x == a["index.json"] y == b["index.json"] diff == Compare(a, b) IN
        /\ DOMAIN a \ KnownMeta = DOMAIN b \ KnownMeta
        /\ \A p \in DOMAIN a \ {"index.json", "BUNDLE.sig"} : a[p] = b[p]
        /\ ~DifferIn(x, y, {"profile", "git", "recipeHash", "resolution", "dals"})
        /\ Parsed(a, "tests/cargo_test_stdout.txt") /\ Absent \notin {x.summary, y.summary}
            => x.summary = y.summary
        /\ \A c \in {"trace_graph", "coverage", "commands", "recipe", "objective_mappings"} :
              diff[c] \in {"Equal", "Unverifiable"}
        /\ \A p \in Planes :
            \/ PlaneStatus(a, b, p) = "Equal"
            \/ p = "outputs_hashes.json" /\ a[p] = Garbled
            \/ \E f \in DOMAIN a[p] : a[p][f] = Malformed
  BY DEF ContentHashSettles
<1>1. WellFormed(a) /\ WellFormed(b)
  OBVIOUS
<1> HIDE DEF a, b
<1>2. SameSeal(a, b) /\ Backed(a) /\ Backed(b)
  BY <1>1, SameEvidence
<1>3. a["index.json"] # Garbled /\ b["index.json"] # Garbled
  BY VerifiedIsSealed DEF Sealed
<1>4. /\ Compare(a, b)["trace_graph"] = TraceGraph(a, b)
      /\ Compare(a, b)["coverage"] = CoverageDiff(a, b)
      /\ Compare(a, b)["commands"] = CommandDiff(a, b)
      /\ Compare(a, b)["recipe"] = RecipeDiff(a, b)
      /\ Compare(a, b)["objective_mappings"] = ObjectiveMappings(a, b)
  BY DEF Compare
<1>5. \A c \in {"trace_graph", "coverage", "commands", "recipe", "objective_mappings"} :
        Compare(a, b)[c] \in {"Equal", "Unverifiable"}
  BY <1>1, <1>2, <1>4, FilesDoNotDiffer
<1>6. /\ DOMAIN a \ KnownMeta = DOMAIN b \ KnownMeta
      /\ \A p \in DOMAIN a \ {"index.json", "BUNDLE.sig"} : a[p] = b[p]
  BY <1>2 DEF SameSeal
<1> QED BY <1>1, <1>2, <1>3, <1>5, <1>6, BackedFieldsAgree, SealedPlanesAgree

\* Two bundles, and any number of edits and runs of generate after them.
PairInit == DOMAIN bundles = {"A", "B"} /\ WellFormed(A) /\ WellFormed(B)
PairNext ==
    \E slot \in {"A", "B"} :
        \/ \E builds : GenerateInto(slot, builds) /\ \A b \in builds : WellFormed(Finalized(b.files, b.index))
        \/ \E path, contents :
            /\ EditFile(slot, path, contents)
            /\ \A c \in contents : c = Absent \/ MayHold(path, c)
PairSpec == PairInit /\ [][PairNext]_bundles

LEMMA PairStaysWellFormed ==
  ASSUME DOMAIN bundles = {"A", "B"}, WellFormed(A), WellFormed(B), [PairNext]_bundles
  PROVE  (DOMAIN bundles = {"A", "B"} /\ WellFormed(A) /\ WellFormed(B))'
<1> DEFINE Good(f) == DOMAIN f = {"A", "B"} /\ WellFormed(f["A"]) /\ WellFormed(f["B"])
<1>1. Good(bundles)
  BY DEF A, B
<1>2. ASSUME NEW slot \in {"A", "B"}, NEW evidence, WellFormed(evidence)
      PROVE  Good([bundles EXCEPT ![slot] = evidence])
  <2>1. /\ DOMAIN [bundles EXCEPT ![slot] = evidence] = {"A", "B"}
        /\ [bundles EXCEPT ![slot] = evidence]["A"] = IF slot = "A" THEN evidence ELSE bundles["A"]
        /\ [bundles EXCEPT ![slot] = evidence]["B"] = IF slot = "B" THEN evidence ELSE bundles["B"]
    BY <1>1
  <2> QED BY <1>1, <1>2, <2>1
<1>3. ASSUME NEW f, WellFormed(f), NEW path, NEW c, c = Absent \/ MayHold(path, c)
      PROVE  WellFormed(IF c = Absent THEN Restrict(f, DOMAIN f \ {path})
                         ELSE [p \in DOMAIN f \cup {path} |-> IF p = path THEN c ELSE f[p]])
  <2>1. CASE c = Absent
    BY <1>3, <2>1 DEF WellFormed, Restrict
  <2>2. CASE c # Absent
    BY <1>3, <2>2 DEF WellFormed
  <2> QED BY <2>1, <2>2
<1>4. CASE UNCHANGED bundles
  BY <1>1, <1>4 DEF A, B
<1>5. ASSUME NEW slot \in {"A", "B"}, NEW builds, GenerateInto(slot, builds),
             \A b \in builds : WellFormed(Finalized(b.files, b.index))
      PROVE  Good(bundles')
  BY <1>2, <1>5 DEF GenerateInto
<1>6. ASSUME NEW slot \in {"A", "B"}, NEW path, NEW contents, EditFile(slot, path, contents),
             \A c \in contents : c = Absent \/ MayHold(path, c)
      PROVE  Good(bundles')
  <2>1. WellFormed(bundles[slot])
    BY <1>1
  <2>2. PICK c \in contents : bundles' = [bundles EXCEPT ![slot] =
            IF c = Absent THEN Restrict(bundles[slot], DOMAIN bundles[slot] \ {path})
            ELSE [p \in DOMAIN bundles[slot] \cup {path} |-> IF p = path THEN c ELSE bundles[slot][p]]]
    BY <1>6 DEF EditFile
  <2> QED BY <1>2, <1>3, <1>6, <2>1, <2>2
<1>7. Good(bundles')
  BY <1>1, <1>4, <1>5, <1>6 DEF PairNext
<1> QED BY <1>7 DEF A, B, WellFormed

\* One content_hash is one body of evidence, whatever two bundles hold that
\* verify, and whatever edits and runs have led to them (verify_bundle, the
\* digests of finalize, compare_bundles).
THEOREM OneHashOneEvidence == PairSpec => []ContentHashSettles
<1> DEFINE Inv == DOMAIN bundles = {"A", "B"} /\ WellFormed(A) /\ WellFormed(B)
<1>1. PairInit => Inv
  BY DEF PairInit
<1>2. Inv /\ [PairNext]_bundles => Inv'
  BY PairStaysWellFormed
<1>3. Inv => ContentHashSettles
  BY SettledByTheHash
<1> QED BY <1>1, <1>2, <1>3, PTL DEF PairSpec

-----------------------------------------------------------------------------
(* The gates.                                                              *)

LEMMA ItemsByRoot ==
  ASSUME NEW ns
  PROVE  /\ \A n \in ns : Items({n}) \subseteq Items(ns)
         /\ \A x \in Items(ns) : \E n \in ns : x \in Items({n})
BY DEF Items

LEMMA RegisteredGrows ==
  ASSUME NEW S, NEW T, S \subseteq T, NEW policy
  PROVE  Registered(S, policy) \subseteq Registered(T, policy)
BY DEF Registered

\* A link that resolves within one root resolves among all of them.
LEMMA EntriesFailLessTogether ==
  ASSUME NEW S, NEW T, S \subseteq T, NEW policy, NEW item, EntryFails(T, policy, item)
  PROVE  EntryFails(S, policy, item)
<1>1. \A link : LinkFails(T, policy, item, link) => LinkFails(S, policy, item, link)
  BY RegisteredGrows DEF LinkFails
<1> QED BY <1>1 DEF EntryFails

LEMMA DalPolicies ==
  ASSUME NEW dal
  PROVE  "surfaces" \notin ForDal(dal)
BY DEF ForDal

LEMMA StatesOfARoot ==
  ASSUME NEW n, NEW policy
  PROVE  /\ EvidenceState({n}, policy) \in {"Invalid", "NotAdopted", "Empty", "Valid"}
         /\ EvidenceState({n}, policy) = "Valid" =>
             /\ disk[Roots[n]] # Unreadable
             /\ Adopted({n}) # {} /\ Items({n}) # {}
             /\ Validates(Items({n}), policy)
<1>1. {n} # {} /\ ((\E k \in {n} : disk[Roots[k]] = Unreadable) <=> disk[Roots[n]] = Unreadable)
  OBVIOUS
<1> QED BY <1>1 DEF EvidenceState

LEMMA ValidApartValidTogether ==
  ASSUME NEW dal, ValidatePasses(ForDal(dal)), ~Clashes(Items(DOMAIN Roots), ForDal(dal))
  PROVE  EvidenceState(DOMAIN Roots, ForDal(dal)) = "Valid"
<1> DEFINE ns == DOMAIN Roots
           policy == ForDal(dal)
<1>1. ns # {} /\ \A n \in ns : EvidenceState({n}, policy) = "Valid"
  BY DEF ValidatePasses, PhasePasses
<1>2. "surfaces" \notin policy /\ ~Clashes(Items(ns), policy)
  BY DalPolicies
<1> HIDE DEF ns, policy
<1>3. \A n \in ns : /\ disk[Roots[n]] # Unreadable
                   /\ Adopted({n}) # {} /\ Items({n}) # {}
                   /\ Validates(Items({n}), policy)
  BY <1>1, StatesOfARoot
<1>4. Adopted(ns) # {} /\ Items(ns) # {}
  <2>1. PICK n \in ns : TRUE
    BY <1>1
  <2>2. Adopted({n}) \subseteq Adopted(ns) /\ Items({n}) \subseteq Items(ns)
    BY ItemsByRoot DEF Adopted
  <2> QED BY <1>3, <2>2
<1>5. \A x \in Items(ns) : \E n \in ns : /\ x \in Items({n}) /\ Items({n}) \subseteq Items(ns)
                                        /\ Validates(Items({n}), policy)
  BY <1>3, ItemsByRoot
<1>6. ~RegisterFails(Items(ns), policy)
  BY <1>2, <1>5 DEF Validates, RegisterFails
<1>7. ~LinksFail(Items(ns), policy)
  <2> SUFFICES ASSUME NEW x \in Items(ns)
               PROVE  ~EntryFails(Items(ns), policy, x) /\ ~DerivedFails(policy, x)
    BY <1>2 DEF LinksFail
  <2>1. PICK n \in ns : /\ x \in Items({n}) /\ Items({n}) \subseteq Items(ns)
                       /\ Validates(Items({n}), policy)
    BY <1>5
  <2>2. ~EntryFails(Items({n}), policy, x) /\ ~DerivedFails(policy, x)
    BY <2>1 DEF Validates, LinksFail
  <2> QED BY <2>1, <2>2, EntriesFailLessTogether
<1>8. EvidenceState(ns, policy) = "Valid"
  BY <1>1, <1>3, <1>4, <1>6, <1>7 DEF EvidenceState, Validates
<1> QED BY <1>8 DEF ns, policy

LEMMA PhaseAndAggregateAgree ==
  ASSUME NEW policy
  PROVE  ValidatePasses(policy) <=> AggregateState(policy) = "Valid"
<1> DEFINE states == {EvidenceState({n}, policy) : n \in DOMAIN Roots}
<1>1. states \subseteq {"Invalid", "NotAdopted", "Empty", "Valid"}
  BY StatesOfARoot
<1>2. (DOMAIN Roots # {} <=> states # {})
      /\ (PhasePasses(policy) <=> \A s \in states : s = "Valid")
  BY DEF PhasePasses
<1>3. AggregateState(policy) =
        IF "Invalid" \in states THEN "Invalid"
        ELSE IF "Empty" \in states THEN "Empty"
        ELSE IF "NotAdopted" \in states THEN "NotAdopted"
        ELSE IF states = {} THEN "NotConfigured" ELSE "Valid"
  BY DEF AggregateState
<1> HIDE DEF states
<1> QED BY <1>1, <1>2, <1>3 DEF ValidatePasses

-----------------------------------------------------------------------------
(* The report.                                                             *)

LayerBelow == [SYS |-> "HLR", HLR |-> "LLR", LLR |-> "TEST"]

\* What the graph the report is made of has: uids that name one entry.
LEMMA UidsNameOneItem ==
  ASSUME NEW items, GraphBuilds(items), NEW x \in items, NEW y \in items,
         x.entry.uid = y.entry.uid
  PROVE  x = y
BY DEF GraphBuilds

\* A child of an entry is of the layer below and has no bad edge.
LEMMA ChildrenAreBelow ==
  ASSUME NEW items, GraphBuilds(items), NEW y \in items
  PROVE  Children(items, y.entry.uid) = Below(items, y)
<1>1. ASSUME NEW x \in items, x.layer \in Linked, ~LinkGap(items, x),
             NEW k \in DOMAIN x.entry.links, x.entry.links[k] = y.entry.uid
      PROVE  y.layer = ParentLayer[x.layer]
  <2>1. PICK z \in items : z.entry.uid = x.entry.links[k] /\ z.layer = ParentLayer[x.layer]
    BY <1>1 DEF LinkGap
  <2>2. z = y
    BY <1>1, <2>1, UidsNameOneItem
  <2> QED BY <2>1, <2>2
<1>2. Children(items, y.entry.uid) \subseteq Below(items, y)
  BY <1>1 DEF Children, Below
<1>3. Below(items, y) \subseteq Children(items, y.entry.uid)
  BY DEF Children, Below
<1> QED BY <1>2, <1>3

\* The row of an entry, by its children.
LEMMA RowOfATest ==
  ASSUME NEW items, GraphBuilds(items), NEW policy, NEW y \in Of(items, "TEST")
  PROVE  Report(items, policy)["TEST"][y.entry.uid] = TestStatus(items, y)
<1>1. (CHOOSE x \in Of(items, "TEST") : x.entry.uid = y.entry.uid) = y
  BY UidsNameOneItem DEF Of
<1>2. Report(items, policy)["TEST"] = TestRows(items)
  BY DEF Report
<1>3. y.entry.uid \in {x.entry.uid : x \in Of(items, "TEST")}
  OBVIOUS
<1> QED BY <1>1, <1>2, <1>3 DEF TestRows

LEMMA BelowInTheLayerBelow ==
  ASSUME NEW items, NEW layer, NEW y \in Of(items, layer)
  PROVE  /\ layer \in {"SYS", "HLR", "LLR"} => Below(items, y) \subseteq Of(items, LayerBelow[layer])
         /\ layer = "TEST" => Below(items, y) = {}
BY DEF Below, Of, Linked, ParentLayer, LayerBelow

StatusesBelow(items, below, y) == {below[x.entry.uid] : x \in Below(items, y)}

LEMMA RowOfALayer ==
  ASSUME NEW items, GraphBuilds(items), NEW policy, NEW layer, NEW below, NEW y \in Of(items, layer)
  PROVE  Layer(items, policy, layer, below)[y.entry.uid] =
           IF StructuralGap(items, policy, y) \/ Below(items, y) = {} THEN "Gap"
           ELSE Aggregate(StatusesBelow(items, below, y))
<1>1. (CHOOSE x \in Of(items, layer) : x.entry.uid = y.entry.uid) = y
  BY UidsNameOneItem DEF Of
<1>2. y.entry.uid \in {x.entry.uid : x \in Of(items, layer)}
  OBVIOUS
<1>3. Children(items, y.entry.uid) = Below(items, y)
  BY ChildrenAreBelow DEF Of
<1> QED BY <1>1, <1>2, <1>3 DEF Layer, StatusesBelow

Row(items, policy, y) == Report(items, policy)[y.layer][y.entry.uid]
RowsBelow(items, policy, y) == {Row(items, policy, x) : x \in Below(items, y)}

LEMMA RowOfARequirement ==
  ASSUME NEW items, GraphBuilds(items), NEW policy, NEW layer \in {"SYS", "HLR", "LLR"},
         NEW y \in Of(items, layer)
  PROVE  Row(items, policy, y) =
           IF StructuralGap(items, policy, y) \/ Below(items, y) = {} THEN "Gap"
           ELSE Aggregate(RowsBelow(items, policy, y))
<1> DEFINE R == Report(items, policy)
           below == R[LayerBelow[layer]]
<1>1. /\ R["LLR"] = Layer(items, policy, "LLR", R["TEST"])
      /\ R["HLR"] = Layer(items, policy, "HLR", R["LLR"])
      /\ R["SYS"] = Layer(items, policy, "SYS", R["HLR"])
  BY DEF Report
<1>2. R[layer] = Layer(items, policy, layer, below)
  BY <1>1 DEF LayerBelow
<1>3. \A x \in Below(items, y) : Row(items, policy, x) = below[x.entry.uid]
  BY BelowInTheLayerBelow DEF Row, Of
<1>4. Row(items, policy, y) = R[layer][y.entry.uid]
  BY DEF Row, Of
<1>5. StatusesBelow(items, below, y) = RowsBelow(items, policy, y)
  BY <1>3 DEF StatusesBelow, RowsBelow
<1> HIDE DEF R, below
<1> QED BY <1>2, <1>4, <1>5, RowOfALayer

\* What a test not in a gap says of the functions it selects.
Verdict == {"ok", "FAILED", "ignored", NoValue}
Unfailed(t) == \A s \in t.entry.selectors : \A f \in Selected(s) : ran[f] # "FAILED"

LEMMA SelectorOutcomes ==
  ASSUME ran \in [Fns -> Verdict], NEW sel
  PROVE  \/ SelectorOutcome(sel) \in {"unmatched", "ambiguous"}
         \/ \E f \in Reported : /\ Selected(sel) = {f} /\ SelectorOutcome(sel) = ran[f]
                              /\ ran[f] \in {"ok", "FAILED", "ignored"}
<1>1. Reported \subseteq Fns /\ Selected(sel) \subseteq Reported
  BY DEF Reported, Selected
<1>2. IsFiniteSet(Selected(sel))
  BY <1>1, FnsAreFinite, FS_Subset
<1>3. CASE Selected(sel) = {}
  BY <1>3 DEF SelectorOutcome
<1>4. CASE Selected(sel) # {} /\ Cardinality(Selected(sel)) > 1
  BY <1>4 DEF SelectorOutcome
<1>5. CASE Selected(sel) # {} /\ ~(Cardinality(Selected(sel)) > 1)
  <2>1. Cardinality(Selected(sel)) \in Nat /\ Cardinality(Selected(sel)) # 0
    BY <1>2, <1>5, FS_CardinalityType, FS_EmptySet
  <2>2. Cardinality(Selected(sel)) = 1
    BY <1>5, <2>1
  <2>3. PICK f : Selected(sel) = {f}
    BY <1>2, <2>2, FS_Singleton
  <2>4. (CHOOSE g \in Selected(sel) : TRUE) = f
    BY <2>3
  <2>5. SelectorOutcome(sel) = ran[f]
    BY <1>5, <2>4 DEF SelectorOutcome
  <2>6. f \in Reported /\ ran[f] \in {"ok", "FAILED", "ignored"}
    BY <1>1, <2>3 DEF Reported, Verdict
  <2> QED BY <2>3, <2>5, <2>6
<1> QED BY <1>3, <1>4, <1>5

LEMMA TestsTellTheTruth ==
  ASSUME ran \in [Fns -> Verdict], NEW items, NEW t
  PROVE  /\ TestStatus(items, t) \in {"Gap", "Pass", "Skip"}
         /\ TestStatus(items, t) # "Gap" => Unfailed(t)
         /\ TestStatus(items, t) = "Pass" => Green(t.entry.selectors)
<1> DEFINE sels == t.entry.selectors
<1>1. TestStatus(items, t) # "Gap" => sels # {} /\ TestStatus(items, t) = SelectorsStatus(sels)
  BY DEF TestStatus
<1>2. /\ SelectorsStatus(sels) \in {"Gap", "Pass", "Skip"}
      /\ SelectorsStatus(sels) # "Gap" =>
           \A s \in sels : SelectorOutcome(s) \notin {"FAILED", "ambiguous", "unmatched"}
      /\ SelectorsStatus(sels) = "Pass" => \A s \in sels : SelectorOutcome(s) # "ignored"
  BY DEF SelectorsStatus
<1>3. ASSUME NEW s \in sels, SelectorOutcome(s) \notin {"FAILED", "ambiguous", "unmatched"}
      PROVE  /\ \A f \in Selected(s) : ran[f] # "FAILED"
             /\ SelectorOutcome(s) # "ignored" =>
                  \E f \in Reported : Selected(s) = {f} /\ ran[f] = "ok"
  BY <1>3, SelectorOutcomes
<1> HIDE DEF sels
<1>4. TestStatus(items, t) \in {"Gap", "Pass", "Skip"}
  BY <1>1, <1>2
<1>5. TestStatus(items, t) # "Gap" => \A s \in sels : \A f \in Selected(s) : ran[f] # "FAILED"
  BY <1>1, <1>2, <1>3
<1>6. TestStatus(items, t) = "Pass" =>
        sels # {} /\ \A s \in sels : \E f \in Reported : Selected(s) = {f} /\ ran[f] = "ok"
  BY <1>1, <1>2, <1>3
<1> QED BY <1>4, <1>5, <1>6 DEF sels, Unfailed, Green

\* The tests under an entry are those under its children.
Under(items, y) == IF y.layer = "TEST" THEN {y} ELSE Beneath(items, y)

LEMMA UnderByTheChildren ==
  ASSUME NEW items, NEW layer \in {"SYS", "HLR", "LLR"}, NEW y \in Of(items, layer)
  PROVE  Under(items, y) = UNION {Under(items, x) : x \in Below(items, y)}
<1> DEFINE one(z) == Below(items, z)
           two(z) == UNION {one(x) : x \in one(z)}
           three(z) == UNION {one(x) : x \in two(z)}
           tests(S) == {x \in S : x.layer = "TEST"}
<1>1. \A z : Beneath(items, z) = tests(one(z)) \cup tests(two(z)) \cup tests(three(z))
  BY DEF Beneath
<1>2. /\ \A z \in Of(items, "TEST") : one(z) = {} /\ z.layer = "TEST"
      /\ \A z \in Of(items, "LLR") : one(z) \subseteq Of(items, "TEST") /\ z.layer = "LLR"
      /\ \A z \in Of(items, "HLR") : one(z) \subseteq Of(items, "LLR") /\ z.layer = "HLR"
      /\ \A z \in Of(items, "SYS") : one(z) \subseteq Of(items, "HLR") /\ z.layer = "SYS"
  BY BelowInTheLayerBelow DEF LayerBelow, Of
<1> HIDE DEF one
<1>3. \A z \in Of(items, "LLR") : Under(items, z) = one(z)
  <2> TAKE z \in Of(items, "LLR")
  <2>1. tests(two(z)) = {} /\ tests(three(z)) = {} /\ tests(one(z)) = one(z)
    BY <1>2
  <2> HIDE DEF two, three, tests
  <2>2. Beneath(items, z) = one(z)
    BY <1>1, <2>1
  <2> QED BY <1>2, <2>2 DEF Under
<1>4. \A z \in Of(items, "HLR") : Under(items, z) = two(z)
  <2> TAKE z \in Of(items, "HLR")
  <2>1. tests(one(z)) = {} /\ tests(two(z)) = two(z) /\ tests(three(z)) = {}
    BY <1>2
  <2> HIDE DEF two, three, tests
  <2>2. Beneath(items, z) = two(z)
    BY <1>1, <2>1
  <2> QED BY <1>2, <2>2 DEF Under
<1>5. \A z \in Of(items, "SYS") : Under(items, z) = three(z)
  <2> TAKE z \in Of(items, "SYS")
  <2>1. tests(one(z)) = {} /\ tests(two(z)) = {} /\ tests(three(z)) = three(z)
    BY <1>2
  <2> HIDE DEF two, three, tests
  <2>2. Beneath(items, z) = three(z)
    BY <1>1, <2>1
  <2> QED BY <1>2, <2>2 DEF Under
<1>6. \A z \in Of(items, "TEST") : Under(items, z) = {z}
  BY <1>2 DEF Under
<1>7. Under(items, y) = UNION {Under(items, x) : x \in one(y)}
  BY <1>2, <1>3, <1>4, <1>5, <1>6
<1> QED BY <1>7 DEF one

\* The status of an entry is backed by the tests under it.
Earned(items, policy, y) ==
    /\ Row(items, policy, y) \in {"Gap", "Pass", "Skip"}
    /\ Row(items, policy, y) # "Gap" => \A t \in Under(items, y) : Unfailed(t)
    /\ Row(items, policy, y) = "Pass" => \E t \in Under(items, y) : Green(t.entry.selectors)

LEMMA AggregateOfSome ==
  ASSUME NEW statuses, statuses # {}, statuses \subseteq {"Gap", "Pass", "Skip"}
  PROVE  /\ Aggregate(statuses) \in {"Gap", "Pass", "Skip"}
         /\ Aggregate(statuses) # "Gap" => "Gap" \notin statuses
         /\ Aggregate(statuses) = "Pass" => "Pass" \in statuses
BY DEF Aggregate

LEMMA EarnedByTheChildren ==
  ASSUME NEW items, GraphBuilds(items), NEW policy, NEW layer \in {"SYS", "HLR", "LLR"},
         NEW y \in Of(items, layer), \A x \in Below(items, y) : Earned(items, policy, x)
  PROVE  Earned(items, policy, y)
<1> DEFINE below == Below(items, y)
           statuses == RowsBelow(items, policy, y)
<1>1. statuses = {Row(items, policy, x) : x \in below}
  BY DEF RowsBelow
<1>2. Row(items, policy, y) =
        IF StructuralGap(items, policy, y) \/ below = {} THEN "Gap" ELSE Aggregate(statuses)
  BY RowOfARequirement
<1>3. Under(items, y) = UNION {Under(items, x) : x \in below}
  BY UnderByTheChildren
<1>4. \A x \in below : Earned(items, policy, x)
  OBVIOUS
<1> HIDE DEF below, statuses
<1>5. CASE Row(items, policy, y) = "Gap"
  BY <1>5 DEF Earned
<1>6. CASE Row(items, policy, y) # "Gap"
  <2>1. statuses # {} /\ Row(items, policy, y) = Aggregate(statuses)
    BY <1>1, <1>2, <1>6
  <2>2. statuses \subseteq {"Gap", "Pass", "Skip"}
    BY <1>1, <1>4 DEF Earned
  <2>3. /\ Row(items, policy, y) \in {"Gap", "Pass", "Skip"}
        /\ "Gap" \notin statuses
        /\ Row(items, policy, y) = "Pass" => "Pass" \in statuses
    BY <1>6, <2>1, <2>2, AggregateOfSome
  <2>4. \A x \in below : \A t \in Under(items, x) : Unfailed(t)
    BY <1>1, <1>4, <2>3 DEF Earned
  <2>5. ASSUME "Pass" \in statuses
        PROVE  \E x \in below : \E t \in Under(items, x) : Green(t.entry.selectors)
    BY <1>1, <1>4, <2>5 DEF Earned
  <2>6. \A t \in Under(items, y) : Unfailed(t)
    BY <1>3, <2>4
  <2>7. Row(items, policy, y) = "Pass" => \E t \in Under(items, y) : Green(t.entry.selectors)
    BY <1>3, <2>3, <2>5
  <2> QED BY <2>3, <2>6, <2>7 DEF Earned
<1> QED BY <1>5, <1>6

LEMMA EveryRowIsEarned ==
  ASSUME ran \in [Fns -> Verdict], NEW items, GraphBuilds(items), NEW policy, NEW y \in items,
         y.layer \in {"SYS", "HLR", "LLR", "TEST"}
  PROVE  Earned(items, policy, y)
<1>1. \A x \in Of(items, "TEST") : Earned(items, policy, x)
  <2> TAKE x \in Of(items, "TEST")
  <2>1. x.layer = "TEST" /\ Under(items, x) = {x}
    BY DEF Of, Under
  <2>2. Row(items, policy, x) = TestStatus(items, x)
    BY <2>1, RowOfATest DEF Row
  <2> QED BY <2>1, <2>2, TestsTellTheTruth DEF Earned
<1>2. ASSUME NEW layer \in {"SYS", "HLR", "LLR"},
             \A x \in Of(items, LayerBelow[layer]) : Earned(items, policy, x)
      PROVE  \A x \in Of(items, layer) : Earned(items, policy, x)
  BY <1>2, BelowInTheLayerBelow, EarnedByTheChildren
<1>3. \A x \in Of(items, "LLR") : Earned(items, policy, x)
  BY <1>1, <1>2 DEF LayerBelow
<1>4. \A x \in Of(items, "HLR") : Earned(items, policy, x)
  BY <1>2, <1>3 DEF LayerBelow
<1>5. \A x \in Of(items, "SYS") : Earned(items, policy, x)
  BY <1>2, <1>4 DEF LayerBelow
<1> QED BY <1>1, <1>3, <1>4, <1>5 DEF Of

LEMMA LayersOfItems ==
  ASSUME NEW ns, NEW x \in Items(ns)
  PROVE  x.layer \in {"SYS", "HLR", "LLR", "TEST", "DERIVED"}
<1>1. LayerSet = {"SYS", "HLR", "LLR", "TEST", "DERIVED"}
  <2>1. DOMAIN Layers = 1..5
    BY DEF Layers
  <2> QED BY <2>1 DEF LayerSet, Layers
<1>2. x.layer \in LayerSet
  BY DEF Items, ItemsOf, Item
<1> QED BY <1>1, <1>2

\* No requirement is reported satisfied but on the evidence of a test that ran
\* and passed, and none over a failure of what a test under it selects, for
\* every trace and every outcome of the tests (build_test_diag, cascade.rs).
THEOREM PassIsAlwaysEarned ==
  [](ran \in [Fns -> Verdict]) => []PassIsEarned
<1>1. ran \in [Fns -> Verdict] => PassIsEarned
  <2> SUFFICES ASSUME ran \in [Fns -> Verdict]
               PROVE  PassIsEarned
    OBVIOUS
  <2> DEFINE items == Items({CheckRoot})
             Standing(x) == IF x.layer = "TEST" THEN {x} ELSE Beneath(items, x)
             Shown(policy, x) ==
                /\ \E t \in Standing(x) : Green(t.entry.selectors)
                /\ \A t \in Standing(x) : \A s \in t.entry.selectors :
                      \A f \in Selected(s) : ran[f] # "FAILED"
             Passing(policy) == {x \in Rows(items) : Report(items, policy)[x.layer][x.entry.uid] = "Pass"}
  <2> HIDE DEF items
  <2> SUFFICES ASSUME GraphBuilds(items), NEW policy, NEW x \in Passing(policy)
               PROVE  Shown(policy, x)
    BY Zenon DEF PassIsEarned, items
  <2>1. x \in items /\ x.layer \in {"SYS", "HLR", "LLR", "TEST"}
    BY LayersOfItems DEF Rows, items
  <2>2. GraphBuilds(items)
    OBVIOUS
  <2>3. Earned(items, policy, x)
    BY <2>1, <2>2, EveryRowIsEarned
  <2>4. /\ \E t \in Under(items, x) : Green(t.entry.selectors)
        /\ \A t \in Under(items, x) : Unfailed(t)
    BY <2>3 DEF Earned, Row
  <2> QED BY <2>4 DEF Under, Unfailed
<1> QED BY <1>1, PTL

-----------------------------------------------------------------------------
(* What check accepts, verify does.                                        *)

\* A test that stands below a requirement in no gap has selectors.
LEMMA TestsNotInGapSelect ==
  ASSUME NEW items, NEW t, TestStatus(items, t) # "Gap"
  PROVE  t.entry.selectors # {}
BY DEF TestStatus

LEMMA NoLlrIsUnresolved ==
  ASSUME NEW items, GraphBuilds(items), NEW policy,
         \A x \in Rows(items) : Report(items, policy)[x.layer][x.entry.uid] # "Gap",
         \A t \in Of(items, "TEST") : t.entry.selectors \subseteq Reported
  PROVE  UnresolvedLlrs(items) = {}
<1> SUFFICES ASSUME NEW y \in Of(items, "LLR")
             PROVE  \E f \in Reported : y.entry.uid \in Backlinks(items, f)
  BY DEF UnresolvedLlrs
<1>1. y \in Rows(items) /\ y.layer = "LLR"
  BY DEF Of, Rows
<1>2. Below(items, y) # {}
  <2>1. Row(items, policy, y) # "Gap"
    BY <1>1 DEF Row
  <2> QED BY <2>1, RowOfARequirement
<1>3. PICK t \in Below(items, y) : t \in Of(items, "TEST")
  BY <1>2, BelowInTheLayerBelow DEF LayerBelow
<1>4. TestStatus(items, t) # "Gap"
  BY <1>3, RowOfATest DEF Rows, Of
<1>5. PICK s \in t.entry.selectors : s \in Reported
  BY <1>3, <1>4, TestsNotInGapSelect
<1>6. t \in Hits(items, s)
  BY <1>3, <1>5 DEF Hits, IsPrefix
<1>7. y.entry.uid \in ToSet(t.entry.links)
  BY <1>3 DEF Below, ToSet
<1>8. y.entry.uid \in Backlinks(items, s)
  BY <1>6, <1>7 DEF Backlinks
<1> QED BY <1>5, <1>8

\* What one gate accepts the next does not reject, for every trace and every
\* outcome of the tests (evaluate_trace_evidence, aggregate_states, trace_check,
\* cmd_check_source, check_llr_test_selectors).
THEOREM GatesAlwaysAgree == []GatesAgree
<1>1. GatesAgree
  <2> SUFFICES ASSUME NEW dal \in Dals
               PROVE  /\ ValidatePasses(ForDal(dal)) <=> AggregateState(ForDal(dal)) = "Valid"
                      /\ ValidatePasses(ForDal(dal)) =>
                            DoctorPasses(dal) \/ Clashes(Items(DOMAIN Roots), ForDal(dal))
                      /\ (\A t \in Of(Items({CheckRoot}), "TEST") : t.entry.selectors \subseteq Reported)
                         /\ CheckPasses(ForDal(dal))
                          => UnresolvedLlrs(Items({CheckRoot})) = {}
    BY Zenon DEF GatesAgree
  <2> DEFINE policy == ForDal(dal)
  <2>1. ValidatePasses(policy) <=> AggregateState(policy) = "Valid"
    BY PhaseAndAggregateAgree
  <2>2. ValidatePasses(policy) => DoctorPasses(dal) \/ Clashes(Items(DOMAIN Roots), policy)
    BY ValidApartValidTogether DEF DoctorPasses
  <2>3. ASSUME CheckPasses(policy),
               \A t \in Of(Items({CheckRoot}), "TEST") : t.entry.selectors \subseteq Reported
        PROVE  UnresolvedLlrs(Items({CheckRoot})) = {}
    BY <2>3, NoLlrIsUnresolved DEF CheckPasses
  <2> QED BY <2>1, <2>2, <2>3
<1> QED BY <1>1, PTL

-----------------------------------------------------------------------------
(* The two captures of one run.                                            *)

LEMMA HeadersInOrder ==
  /\ \A b \in Binaries : Header(b) = Targets[b].ident
  /\ \A i : i \notin Binaries => Header(i) = "__unknown_binary__"
<1>1. ASSUME NEW b \in Binaries
      PROVE  Cardinality({c \in Binaries : c <= b}) = b
  <2>1. b \in Nat /\ Binaries \subseteq Nat \ {0} /\ 1..b \subseteq Binaries
    BY DocTestsComeLast DEF Binaries
  <2>2. {c \in Binaries : c <= b} = 1..b
    <3>1. \A c \in Binaries : c <= b => c \in 1..b
      BY <2>1
    <3>2. \A c \in 1..b : c \in Binaries /\ c <= b
      BY <2>1
    <3> HIDE DEF Binaries
    <3> QED BY <3>1, <3>2
  <2>3. Cardinality(1..b) = b
    <3>1. Cardinality(1..b) = IF 1 > b THEN 0 ELSE b - 1 + 1
      BY <2>1, FS_Interval
    <3> QED BY <2>1, <3>1
  <2> QED BY <2>2, <2>3
<1>2. \A i : {b \in Binaries : Cardinality({c \in Binaries : c <= b}) = i} = {b \in Binaries : b = i}
  BY <1>1
<1>3. \A i : Header(i) = LET at == {b \in Binaries : b = i} IN
                IF at = {} THEN "__unknown_binary__" ELSE Targets[CHOOSE b \in at : TRUE].ident
  BY <1>2 DEF Header
<1>4. \A b \in Binaries : {c \in Binaries : c = b} = {b} /\ (CHOOSE c \in {b} : TRUE) = b
  OBVIOUS
<1>5. \A b \in Binaries : Header(b) = Targets[b].ident
  <2> TAKE b \in Binaries
  <2>1. {c \in Binaries : c = b} = {b} /\ (CHOOSE c \in {b} : TRUE) = b
    BY <1>4
  <2> QED BY <1>3, <2>1
<1>6. \A i : i \notin Binaries => Header(i) = "__unknown_binary__"
  <2> SUFFICES ASSUME NEW i, i \notin Binaries PROVE Header(i) = "__unknown_binary__"
    OBVIOUS
  <2>1. {b \in Binaries : b = i} = {}
    OBVIOUS
  <2> QED BY <1>3, <2>1
<1> QED BY <1>5, <1>6

\* One run of the tests, whatever becomes of them and however nextest groups them.
Results == {"ok", "failed", "ignored", "filtered"}
CaptureStart == results \in [Tests -> Results] /\ stream = {} /\ nextest = "running"
CaptureSpec == CaptureStart /\ [][CaptureStep]_captureVars

\* What nextest has written is about tests that ran and about suites, and a suite is
\* summed up when all its tests are done.
StreamIsInOrder ==
    /\ results \in [Tests -> Results]
    /\ \A e \in stream : e.type = "test" =>
          \E t \in Tests : t.target \in Binaries /\ Ran(t) /\ e = Finished(t)
    /\ \A e \in Summaries : \E s \in Suites : e = Summed(s[1], s[2])
    /\ \A s \in Suites : Summed(s[1], s[2]) \in stream =>
          \A t \in Members(s[1], s[2]) : Ran(t) => Finished(t) \in stream
    /\ nextest = "exited" => \A s \in Suites : Summed(s[1], s[2]) \in stream

LEMMA EventsDiffer ==
  /\ \A b, g : Started(b, g).type = "suite" /\ Started(b, g).event = "started"
  /\ \A b, g : /\ Summed(b, g).type = "suite" /\ Summed(b, g).event # "started"
              /\ Summed(b, g).target = b /\ Summed(b, g).group = g
  /\ \A t : Finished(t).type = "test" /\ Finished(t).test = t
BY DEF Started, Summed, Finished

LEMMA StreamStaysInOrder ==
  ASSUME StreamIsInOrder, [CaptureStep]_captureVars
  PROVE  StreamIsInOrder'
<1> USE DEF StreamIsInOrder
<1>1. UNCHANGED <<results, group>>
  BY DEF CaptureStep, captureVars, StartSuite, FinishSuite, FinishTest, EndRun, Emit
<1>2. /\ Suites' = Suites
      /\ \A b, g : Summed(b, g)' = Summed(b, g) /\ Members(b, g)' = Members(b, g)
      /\ \A t : Finished(t)' = Finished(t) /\ Ran(t)' = Ran(t)
  BY <1>1 DEF Suites, Summed, Members, Count, Finished, Ran
<1>3. Binaries' = Binaries
  BY DEF Binaries
<1>4. CASE stream' = stream /\ (nextest' = "exited" => \A s \in Suites : Summed(s[1], s[2]) \in stream)
  <2>1. Summaries' = Summaries
    BY <1>4 DEF Summaries
  <2> QED BY <1>1, <1>2, <1>3, <1>4, <2>1
<1>5. ASSUME NEW e, Emit(e),
             e.type = "test" => \E t \in Tests : t.target \in Binaries /\ Ran(t) /\ e = Finished(t),
             e.type = "suite" /\ e.event # "started" => \E s \in Suites : e = Summed(s[1], s[2]),
             \A s \in Suites : Summed(s[1], s[2]) = e =>
                \A t \in Members(s[1], s[2]) : Ran(t) => Finished(t) \in stream
      PROVE  StreamIsInOrder'
  <2>1. stream' = stream \cup {e} /\ nextest' # "exited"
    BY <1>5 DEF Emit
  <2>2. \A x \in stream' : x.type = "test" =>
          \E t \in Tests : t.target \in Binaries /\ Ran(t) /\ x = Finished(t)
    BY <1>5, <2>1
  <2>3. \A x \in Summaries' : \E s \in Suites : x = Summed(s[1], s[2])
    BY <1>5, <2>1 DEF Summaries
  <2>4. \A s \in Suites : Summed(s[1], s[2]) \in stream' =>
          \A t \in Members(s[1], s[2]) : Ran(t) => Finished(t) \in stream'
    BY <1>5, <2>1
  <2> QED BY <1>1, <1>2, <1>3, <2>1, <2>2, <2>3, <2>4
<1>6. ASSUME NEW s \in Suites, StartSuite(s[1], s[2])
      PROVE  StreamIsInOrder'
  BY <1>5, <1>6, EventsDiffer DEF StartSuite
<1>7. ASSUME NEW s \in Suites, FinishSuite(s[1], s[2])
      PROVE  StreamIsInOrder'
  <2>1. \A r \in Suites : Summed(r[1], r[2]) = Summed(s[1], s[2]) => r[1] = s[1] /\ r[2] = s[2]
    BY EventsDiffer
  <2> QED BY <1>5, <1>7, <2>1, EventsDiffer DEF FinishSuite
<1>8. ASSUME NEW t \in Tests, FinishTest(t)
      PROVE  StreamIsInOrder'
  BY <1>5, <1>8, EventsDiffer DEF FinishTest
<1>9. CASE EndRun
  BY <1>4, <1>9 DEF EndRun
<1>10. CASE UNCHANGED captureVars
  BY <1>4, <1>10 DEF captureVars
<1> QED BY <1>6, <1>7, <1>8, <1>9, <1>10 DEF CaptureStep

LEMMA StreamStartsInOrder == CaptureStart => StreamIsInOrder
BY DEF CaptureStart, StreamIsInOrder, Summaries

\* The records of a run that came to its end are those of the tests it ran.
LEMMA RecordsAreWhatRan ==
  ASSUME StreamIsInOrder, nextest = "exited"
  PROVE  DOMAIN Records = {t \in Tests : t.target \in Binaries /\ Ran(t)}
<1> DEFINE tests == {e \in stream : e.type = "test"}
           done == {e.test : e \in tests}
<1>1. DOMAIN Records = done
  BY DEF Records
<1>2. \A t \in done : t \in Tests /\ t.target \in Binaries /\ Ran(t)
  BY EventsDiffer DEF StreamIsInOrder
<1>3. ASSUME NEW t \in Tests, t.target \in Binaries, Ran(t)
      PROVE  t \in done
  <2>1. <<t.target, group[t]>> \in Suites /\ t \in Members(t.target, group[t])
    BY <1>3 DEF Suites, Members
  <2>2. Finished(t) \in stream
    BY <1>3, <2>1 DEF StreamIsInOrder
  <2>3. Finished(t) \in tests /\ Finished(t).test = t
    BY <2>2, EventsDiffer
  <2> QED BY <2>3
<1> QED BY <1>1, <1>2, <1>3

LEMMA EndedCapturesAgree ==
  ASSUME StreamIsInOrder, nextest = "exited"
  PROVE  CapturesAgree
<1> DEFINE done == {t \in Tests : t.target \in Binaries /\ Ran(t)}
           recorded(key) == {u \in DOMAIN Records : Records[u].key = key}
           printed(key) == {t \in Tests : Ran(t) /\ TextKey(t) = key}
<1>1. /\ DOMAIN Records = done
      /\ \A t \in done : Records[t].key = RecordKey(t) /\ Records[t].outcome = results[t]
  BY RecordsAreWhatRan DEF Records
<1>2. \A t \in done : TextKey(t) = RecordKey(t)
  BY HeadersInOrder DEF TextKey, RecordKey, BinaryOf
<1>3. ASSUME NEW t \in done, NEW u \in Tests, Ran(u), TextKey(u) = RecordKey(t)
      PROVE  u \in done
  <2>1. Targets[t.target].ident # "__unknown_binary__" /\ BinaryOf(u.target) = Targets[t.target].ident
    BY <1>3, NoBinaryIsUnknown DEF TextKey, RecordKey, Binaries
  <2>2. u.target \in Binaries
    BY <2>1, HeadersInOrder DEF BinaryOf
  <2> QED BY <1>3, <2>2
<1>4. ASSUME NEW t \in done
      PROVE  /\ RecordKey(t) \in DOMAIN TextOutcomes
             /\ TextOutcomes[RecordKey(t)] =
                   Worst({Records[u].outcome : u \in recorded(RecordKey(t))})
  <2> DEFINE key == RecordKey(t)
  <2>1. t \in Tests /\ Ran(t) /\ TextKey(t) = key
    BY <1>2
  <2>2. key \in DOMAIN TextOutcomes /\ TextOutcomes[key] = Worst({results[u] : u \in printed(key)})
    BY <2>1 DEF TextOutcomes
  <2>3. \A u : u \in printed(key) <=> u \in recorded(key)
    BY <1>1, <1>2, <1>3
  <2>4. \A u \in recorded(key) : Records[u].outcome = results[u]
    BY <1>1
  <2> HIDE DEF key
  <2>5. printed(key) = recorded(key)
    BY <2>3
  <2>6. {results[u] : u \in printed(key)} = {Records[u].outcome : u \in recorded(key)}
    BY <2>4, <2>5
  <2>7. TextOutcomes[key] = Worst({Records[u].outcome : u \in recorded(key)})
    BY <2>2, <2>6
  <2> QED BY <2>2, <2>7 DEF key
<1> QED BY <1>1, <1>4 DEF CapturesAgree

\* check and verify resolve one selector alike: the text of cargo test gives a
\* test the key and the verdict of its nextest record, whatever order nextest
\* runs the tests in and however it groups them (parse_identity,
\* parse_cargo_test_output_with_outcomes).
THEOREM CapturesAlwaysAgree == CaptureSpec => []CapturesAgree
<1>1. CaptureStart => StreamIsInOrder
  BY StreamStartsInOrder
<1>2. StreamIsInOrder /\ [CaptureStep]_captureVars => StreamIsInOrder'
  BY StreamStaysInOrder
<1>3. StreamIsInOrder => CapturesAgree
  BY EndedCapturesAgree DEF CapturesAgree
<1> QED BY <1>1, <1>2, <1>3, PTL DEF CaptureSpec

\* What is counted part by part is counted once.
LEMMA TotalOfParts ==
  ASSUME NEW T, IsFiniteSet(T), NEW count, NEW part,
         DOMAIN part = DOMAIN count,
         \A x \in DOMAIN count : part[x] \subseteq T /\ count[x] = Cardinality(part[x]),
         \A x, y \in DOMAIN count : x # y => part[x] \cap part[y] = {},
         \A t \in T : \E x \in DOMAIN count : t \in part[x]
  PROVE  Total(count) = Cardinality(T)
<1> DEFINE S == DOMAIN count
           U == UNION {{x} \X (1..count[x]) : x \in S}
           h == [x \in S |-> CHOOSE f : f \in Bijection(1..count[x], part[x])]
           g == [u \in U |-> h[u[1]][u[2]]]
<1>1. ASSUME NEW x \in S
      PROVE  h[x] \in Bijection(1..count[x], part[x])
  <2>1. IsFiniteSet(part[x])
    BY FS_Subset
  <2>2. ExistsBijection(1..count[x], part[x])
    BY <2>1, FS_CardinalityType
  <2>3. Bijection(1..count[x], part[x]) # {}
    BY <2>2, Fun_ExistsBij
  <2> QED BY <2>3
<1>2. \A u : u \in U <=> u = <<u[1], u[2]>> /\ u[1] \in S /\ u[2] \in 1..count[u[1]]
  OBVIOUS
<1> HIDE DEF h, U
<1>3. \A x \in S : /\ \A i \in 1..count[x] : h[x][i] \in part[x]
                   /\ \A i, j \in 1..count[x] : h[x][i] = h[x][j] => i = j
                   /\ \A t \in part[x] : \E i \in 1..count[x] : h[x][i] = t
  <2> TAKE x \in S
  <2> DEFINE f == h[x]
  <2>1. f \in Bijection(1..count[x], part[x])
    BY <1>1
  <2> HIDE DEF f
  <2>2. f \in [1..count[x] -> part[x]] /\ IsInjective(f)
        /\ \A t \in part[x] : \E i \in 1..count[x] : f[i] = t
    BY <2>1 DEF Bijection, Injection, Surjection
  <2>3. DOMAIN f = 1..count[x]
    BY <2>2
  <2>4. \A i, j \in 1..count[x] : f[i] = f[j] => i = j
    BY <2>2, <2>3 DEF IsInjective
  <2> QED BY <2>2, <2>4 DEF f
<1>4. \A u \in U : g[u] \in T
  BY <1>2, <1>3
<1>5. ASSUME NEW u \in U, NEW v \in U, g[u] = g[v]
      PROVE  u = v
  <2>1. h[u[1]][u[2]] = h[v[1]][v[2]]
    BY <1>5
  <2>2. u[1] = v[1]
    BY <1>2, <1>3, <2>1
  <2> QED BY <1>2, <1>3, <2>1, <2>2
<1>6. ASSUME NEW t \in T
      PROVE  \E u \in U : g[u] = t
  <2>1. PICK x \in S : t \in part[x]
    OBVIOUS
  <2>2. PICK i \in 1..count[x] : h[x][i] = t
    BY <1>3, <2>1
  <2>3. <<x, i>> \in U /\ <<x, i>>[1] = x /\ <<x, i>>[2] = i
    BY <1>2
  <2> QED BY <2>2, <2>3
<1>7. g \in Bijection(U, T)
  BY <1>4, <1>5, <1>6 DEF Bijection, Injection, Surjection, IsInjective
<1>8. ExistsBijection(T, U)
  BY <1>7, Fun_ExistsBij, Fun_ExistsBijSymmetric
<1>9. Cardinality(U) = Cardinality(T)
  BY <1>8, FS_Bijection
<1> QED BY <1>9 DEF Total, U

\* The tests with one outcome whose suites have been summed up.
SummedTests(outcome) ==
    {t \in Tests : /\ t.target \in Binaries /\ results[t] = outcome
                   /\ Summed(t.target, group[t]) \in stream}

Ending == {<<"passed", "ok">>, <<"failed", "failed">>}

LEMMA SummaryCounts ==
  ASSUME NEW d \in Ending, NEW b, NEW g
  PROVE  Summed(b, g)[d[1]] = Cardinality({t \in Members(b, g) : results[t] = d[2]})
<1>1. Summed(b, g).passed = Cardinality({t \in Members(b, g) : results[t] = "ok"})
      /\ Summed(b, g).failed = Cardinality({t \in Members(b, g) : results[t] = "failed"})
  BY DEF Summed, Count
<1> QED BY <1>1 DEF Ending

\* The summaries are those of suites, one for each of them.
LEMMA SummariesAreSummed ==
  ASSUME StreamIsInOrder, NEW b
  PROVE  /\ \A e \in SummariesOf(b) : e = Summed(b, e.group) /\ b \in Binaries
         /\ \A g : Summed(b, g) \in stream => Summed(b, g) \in SummariesOf(b)
<1>1. \A s \in Suites : s[1] \in Binaries
  BY DEF Suites
<1>2. ASSUME NEW e \in SummariesOf(b)
      PROVE  e = Summed(b, e.group) /\ b \in Binaries
  <2>1. PICK s \in Suites : e = Summed(s[1], s[2])
    BY DEF SummariesOf, StreamIsInOrder
  <2>2. s[1] = b /\ s[2] = e.group
    BY <2>1, EventsDiffer DEF SummariesOf
  <2> QED BY <1>1, <2>1, <2>2
<1>3. \A g : Summed(b, g) \in stream => Summed(b, g) \in SummariesOf(b)
  BY EventsDiffer DEF SummariesOf, Summaries
<1> QED BY <1>2, <1>3

\* The counts of a binary are those of its tests in the suites that were summed up.
LEMMA TallyCounts ==
  ASSUME StreamIsInOrder, NEW d \in Ending, NEW b \in Binaries
  PROVE  Tally(b)[d[1]] = Cardinality({t \in SummedTests(d[2]) : t.target = b})
<1> DEFINE T == {t \in SummedTests(d[2]) : t.target = b}
           S == SummariesOf(b)
           count == [e \in S |-> e[d[1]]]
           part == [e \in S |-> {t \in Members(b, e.group) : results[t] = d[2]}]
<1>1. Tally(b)[d[1]] = Total(count)
  BY DEF Tally, Ending
<1>2. IsFiniteSet(T)
  BY TestsAreFinite, FS_Subset DEF SummedTests
<1>3. \A e \in S : e = Summed(b, e.group)
  BY SummariesAreSummed
<1>4. \A t : t \in T <=> /\ t \in Tests /\ t.target = b /\ results[t] = d[2]
                         /\ Summed(b, group[t]) \in stream
  BY DEF SummedTests
<1>5. \A e \in S : e \in stream
  BY DEF SummariesOf, Summaries
<1>6. ASSUME NEW e \in S
      PROVE  part[e] \subseteq T /\ count[e] = Cardinality(part[e])
  <2>1. count[e] = Cardinality(part[e])
    BY <1>3, SummaryCounts
  <2>2. \A t \in part[e] : t \in Tests /\ t.target = b /\ results[t] = d[2] /\ group[t] = e.group
    BY DEF Members
  <2> QED BY <1>3, <1>4, <1>5, <2>1, <2>2
<1>7. ASSUME NEW x \in S, NEW y \in S, x # y
      PROVE  part[x] \cap part[y] = {}
  <2>1. x.group # y.group
    BY <1>3, <1>7
  <2>2. (\A t \in part[x] : group[t] = x.group) /\ \A t \in part[y] : group[t] = y.group
    BY DEF Members
  <2> QED BY <2>1, <2>2
<1>8. ASSUME NEW t \in T
      PROVE  \E e \in S : t \in part[e]
  <2> DEFINE e == Summed(b, group[t])
  <2>1. e \in S /\ e.group = group[t]
    BY <1>4, SummariesAreSummed, EventsDiffer
  <2>2. t \in Members(b, group[t]) /\ results[t] = d[2]
    BY <1>4 DEF Members
  <2> HIDE DEF e
  <2> QED BY <2>1, <2>2
<1>9. DOMAIN count = S /\ DOMAIN part = S
  OBVIOUS
<1> HIDE DEF S, T, count, part
<1>10. Total(count) = Cardinality(T)
  BY <1>2, <1>6, <1>7, <1>8, <1>9, TotalOfParts
<1> QED BY <1>1, <1>10 DEF T

LEMMA StreamCounts ==
  ASSUME StreamIsInOrder, NEW d \in Ending
  PROVE  StreamSummary[d[1]] = Cardinality(SummedTests(d[2]))
<1> DEFINE T == SummedTests(d[2])
           S == {e.target : e \in Summaries}
           count == [b \in S |-> Tally(b)[d[1]]]
           part == [b \in S |-> {t \in T : t.target = b}]
<1>1. StreamSummary[d[1]] = Total(count)
  BY DEF StreamSummary, Ending
<1>2. IsFiniteSet(T)
  BY TestsAreFinite, FS_Subset DEF SummedTests
<1>3. ASSUME NEW b \in S
      PROVE  b \in Binaries
  <2>1. PICK e \in Summaries : b = e.target
    OBVIOUS
  <2>2. e \in SummariesOf(b)
    BY <2>1 DEF SummariesOf
  <2> QED BY <2>2, SummariesAreSummed
<1>4. \A t \in T : t.target \in S
  <2> TAKE t \in T
  <2>1. Summed(t.target, group[t]) \in Summaries /\ Summed(t.target, group[t]).target = t.target
    BY EventsDiffer DEF SummedTests, Summaries
  <2> QED BY <2>1
<1> HIDE DEF T, S
<1>5. \A b \in S : part[b] \subseteq T /\ count[b] = Cardinality(part[b])
  BY <1>3, TallyCounts DEF T
<1>6. \A x, y \in S : x # y => part[x] \cap part[y] = {}
  OBVIOUS
<1>7. \A t \in T : \E b \in S : t \in part[b]
  BY <1>4
<1>8. DOMAIN count = S /\ DOMAIN part = S
  OBVIOUS
<1> HIDE DEF count, part
<1>9. Total(count) = Cardinality(T)
  BY <1>2, <1>5, <1>6, <1>7, <1>8, TotalOfParts
<1> QED BY <1>1, <1>9 DEF T

OfBinaries(outcome) == {t \in Tests : t.target \in Binaries /\ results[t] = outcome}

\* What a binary ignores each of its suites counts: the most of equal counts.
LEMMA IgnoredCounts ==
  ASSUME StreamIsInOrder, nextest = "exited"
  PROVE  StreamSummary.ignored = Cardinality(OfBinaries("ignored"))
<1> DEFINE T == OfBinaries("ignored")
           S == {e.target : e \in Summaries}
           count == [b \in S |-> Tally(b).ignored]
           part == [b \in S |-> {t \in T : t.target = b}]
<1>1. StreamSummary.ignored = Total(count)
  BY DEF StreamSummary
<1>2. IsFiniteSet(T)
  BY TestsAreFinite, FS_Subset DEF OfBinaries
<1>3. ASSUME NEW b \in S
      PROVE  count[b] = Cardinality(part[b])
  <2> DEFINE ignored == {e.ignored : e \in SummariesOf(b)}
             c == Cardinality({t \in Tests : t.target = b /\ results[t] = "ignored"})
  <2>1. PICK e \in Summaries : b = e.target
    OBVIOUS
  <2>2. e \in SummariesOf(b) /\ b \in Binaries
    BY <2>1, SummariesAreSummed DEF SummariesOf
  <2>3. \A g : Summed(b, g).ignored = Cardinality({t \in {t \in Tests : t.target = b} : results[t] = "ignored"})
    BY DEF Summed, Count
  <2>4. {t \in {t \in Tests : t.target = b} : results[t] = "ignored"}
          = {t \in Tests : t.target = b /\ results[t] = "ignored"}
    OBVIOUS
  <2>5. \A x \in SummariesOf(b) : x.ignored = c
    BY <2>3, <2>4, SummariesAreSummed
  <2>6. IsFiniteSet({t \in Tests : t.target = b /\ results[t] = "ignored"})
    BY TestsAreFinite, FS_Subset
  <2>7. c \in Nat
    BY <2>6, FS_CardinalityType
  <2> HIDE DEF c
  <2>8. ignored = {c}
    BY <2>2, <2>5
  <2>9. Max({c}) = c
    BY <2>7 DEF Max
  <2>10. count[b] = c
    BY <2>8, <2>9 DEF Tally
  <2>11. part[b] = {t \in Tests : t.target = b /\ results[t] = "ignored"}
    BY <2>2 DEF OfBinaries
  <2> QED BY <2>10, <2>11 DEF c
<1>4. \A t \in T : t.target \in S
  <2> TAKE t \in T
  <2>1. <<t.target, group[t]>> \in Suites
    BY DEF OfBinaries, Suites
  <2>2. Summed(t.target, group[t]) \in stream
    BY <2>1 DEF StreamIsInOrder
  <2>3. Summed(t.target, group[t]) \in Summaries /\ Summed(t.target, group[t]).target = t.target
    BY <2>2, EventsDiffer DEF Summaries
  <2> QED BY <2>3
<1> HIDE DEF T, S
<1>5. \A b \in S : part[b] \subseteq T /\ count[b] = Cardinality(part[b])
  BY <1>3
<1>6. \A x, y \in S : x # y => part[x] \cap part[y] = {}
  OBVIOUS
<1>7. \A t \in T : \E b \in S : t \in part[b]
  BY <1>4
<1>8. DOMAIN count = S /\ DOMAIN part = S
  OBVIOUS
<1> HIDE DEF count, part
<1>9. Total(count) = Cardinality(T)
  BY <1>2, <1>5, <1>6, <1>7, <1>8, TotalOfParts
<1> QED BY <1>1, <1>9 DEF T

RecordedAs(outcome) == {t \in DOMAIN Records : Records[t].outcome = outcome}

LEMMA RecordsAreFinished ==
  ASSUME StreamIsInOrder
  PROVE  /\ \A t : t \in DOMAIN Records <=>
              t \in Tests /\ t.target \in Binaries /\ Ran(t) /\ Finished(t) \in stream
         /\ \A t \in DOMAIN Records : Records[t].outcome = results[t]
<1> DEFINE done == {e.test : e \in {e \in stream : e.type = "test"}}
<1>1. DOMAIN Records = done /\ \A t \in done : Records[t].outcome = results[t]
  BY DEF Records
<1>2. \A t \in done : t \in Tests /\ t.target \in Binaries /\ Ran(t) /\ Finished(t) \in stream
  BY EventsDiffer DEF StreamIsInOrder
<1>3. \A t : Finished(t) \in stream => t \in done
  BY EventsDiffer
<1> QED BY <1>1, <1>2, <1>3

LEMMA SummedAreRecorded ==
  ASSUME StreamIsInOrder, NEW outcome \in Results \ {"filtered"}
  PROVE  /\ SummedTests(outcome) \subseteq RecordedAs(outcome)
         /\ RecordedAs(outcome) \subseteq OfBinaries(outcome)
         /\ IsFiniteSet(OfBinaries(outcome))
<1>1. ASSUME NEW t \in SummedTests(outcome)
      PROVE  t \in RecordedAs(outcome)
  <2>1. <<t.target, group[t]>> \in Suites /\ t \in Members(t.target, group[t]) /\ Ran(t)
    BY DEF SummedTests, Suites, Members, Ran, Results
  <2>2. Finished(t) \in stream
    BY <2>1 DEF SummedTests, StreamIsInOrder
  <2> QED BY <2>1, <2>2, RecordsAreFinished DEF SummedTests, RecordedAs
<1>2. RecordedAs(outcome) \subseteq OfBinaries(outcome)
  BY RecordsAreFinished DEF RecordedAs, OfBinaries
<1>3. IsFiniteSet(OfBinaries(outcome))
  BY TestsAreFinite, FS_Subset DEF OfBinaries
<1> QED BY <1>1, <1>2, <1>3

LEMMA RefusedByCount ==
  CaptureRefused(TRUE) <=>
    \/ StreamSummary.passed # Cardinality(RecordedAs("ok"))
    \/ StreamSummary.failed # Cardinality(RecordedAs("failed"))
    \/ StreamSummary.ignored # Cardinality(RecordedAs("ignored"))
<1> DEFINE recorded == [passed |-> "ok", failed |-> "failed", ignored |-> "ignored"]
<1>1. DOMAIN recorded = {"passed", "failed", "ignored"}
  OBVIOUS
<1>2. Discrepancies = {d \in DOMAIN recorded : StreamSummary[d] # Cardinality(RecordedAs(recorded[d]))}
  BY DEF Discrepancies, RecordedAs
<1>3. CaptureRefused(TRUE) <=> \E d \in DOMAIN recorded : StreamSummary[d] # Cardinality(RecordedAs(recorded[d]))
  BY <1>2 DEF CaptureRefused
<1>4. recorded["passed"] = "ok" /\ recorded["failed"] = "failed" /\ recorded["ignored"] = "ignored"
  OBVIOUS
<1> DEFINE differs(d) == StreamSummary[d] # Cardinality(RecordedAs(recorded[d]))
<1>5. CaptureRefused(TRUE) <=> differs("passed") \/ differs("failed") \/ differs("ignored")
  BY <1>1, <1>3
<1>6. /\ differs("passed") <=> StreamSummary.passed # Cardinality(RecordedAs("ok"))
      /\ differs("failed") <=> StreamSummary.failed # Cardinality(RecordedAs("failed"))
      /\ differs("ignored") <=> StreamSummary.ignored # Cardinality(RecordedAs("ignored"))
  BY <1>4
<1> HIDE DEF differs
<1> QED BY <1>5, <1>6

LEMMA NothingLostAtTheEnd ==
  ASSUME StreamIsInOrder, nextest = "exited"
  PROVE  LossIsNoticed
<1>1. \A s \in Suites : Summed(s[1], s[2]) \in stream
  BY DEF StreamIsInOrder
<1>2. \A t \in Tests : t.target \in Binaries => <<t.target, group[t]>> \in Suites
  BY DEF Suites
<1>3. \A outcome \in Results \ {"filtered"} :
        SummedTests(outcome) = OfBinaries(outcome) /\ RecordedAs(outcome) = OfBinaries(outcome)
  <2> TAKE outcome \in Results \ {"filtered"}
  <2>1. OfBinaries(outcome) \subseteq SummedTests(outcome)
    BY <1>1, <1>2 DEF OfBinaries, SummedTests
  <2> QED BY <2>1, SummedAreRecorded
<1>4. /\ StreamSummary.passed = Cardinality(OfBinaries("ok"))
      /\ StreamSummary.failed = Cardinality(OfBinaries("failed"))
      /\ StreamSummary.ignored = Cardinality(OfBinaries("ignored"))
  BY <1>3, StreamCounts, IgnoredCounts DEF Results, Ending
<1>5. ~CaptureRefused(TRUE)
  BY <1>3, <1>4, RefusedByCount DEF Results
<1>6. \A outcome : Count({t \in Tests : t.target \in Binaries}, outcome) = Cardinality(OfBinaries(outcome))
  <2> TAKE outcome
  <2>1. {t \in {t \in Tests : t.target \in Binaries} : results[t] = outcome} = OfBinaries(outcome)
    BY DEF OfBinaries
  <2> QED BY <2>1 DEF Count
<1>7. Suites # {} => Reparsed = StreamSummary
  BY <1>1, EventsDiffer DEF Reparsed
<1>8. CommandFails <=> Suites = {} \/ OfBinaries("failed") # {}
  <2>1. Summaries = {} <=> Suites = {}
    BY <1>1, EventsDiffer DEF Summaries, StreamIsInOrder
  <2>2. ASSUME NEW s \in Suites
        PROVE  Summed(s[1], s[2]).event = "failed"
                 <=> \E t \in Members(s[1], s[2]) : results[t] = "failed"
    <3> DEFINE failed == {t \in Members(s[1], s[2]) : results[t] = "failed"}
    <3>1. IsFiniteSet(failed)
      BY TestsAreFinite, FS_Subset DEF Members
    <3>2. Cardinality(failed) = 0 <=> failed = {}
      BY <3>1, FS_EmptySet
    <3>3. Summed(s[1], s[2]).event = IF Cardinality(failed) = 0 THEN "ok" ELSE "failed"
      BY DEF Summed, Count
    <3> QED BY <3>2, <3>3
  <2>3. ASSUME NEW t \in OfBinaries("failed")
        PROVE  \E e \in Summaries : e.event = "failed"
    <3> DEFINE e == Summed(t.target, group[t])
    <3>1. <<t.target, group[t]>> \in Suites /\ t \in Members(t.target, group[t])
      BY <1>2 DEF OfBinaries, Members
    <3>2. e \in Summaries
      BY <1>1, <3>1, EventsDiffer DEF Summaries
    <3>3. e.event = "failed"
      BY <2>2, <3>1 DEF OfBinaries
    <3> QED BY <3>2, <3>3
  <2>4. ASSUME NEW e \in Summaries, e.event = "failed"
        PROVE  OfBinaries("failed") # {}
    <3>1. PICK s \in Suites : e = Summed(s[1], s[2])
      BY DEF StreamIsInOrder
    <3>2. PICK t \in Members(s[1], s[2]) : results[t] = "failed"
      BY <2>2, <2>4, <3>1
    <3>3. t \in OfBinaries("failed")
      BY <3>1, <3>2 DEF OfBinaries, Members, Suites
    <3> QED BY <3>3
  <2> QED BY <2>1, <2>3, <2>4 DEF CommandFails
<1>9. Cardinality(OfBinaries("failed")) > 0 <=> OfBinaries("failed") # {}
  <2>1. IsFiniteSet(OfBinaries("failed"))
    BY TestsAreFinite, FS_Subset DEF OfBinaries
  <2> QED BY <2>1, FS_EmptySet, FS_CardinalityType
<1>10. \A d \in {<<"passed", "ok">>, <<"failed", "failed">>, <<"ignored", "ignored">>} :
         StreamSummary[d[1]] = Count({t \in Tests : t.target \in Binaries}, d[2])
  <2>1. \A d \in {<<"passed", "ok">>, <<"failed", "failed">>, <<"ignored", "ignored">>} :
          StreamSummary[d[1]] = Cardinality(OfBinaries(d[2]))
    BY <1>4
  <2> QED BY <1>6, <2>1
<1>11. CommandFails <=> Suites = {} \/ Count({t \in Tests : t.target \in Binaries}, "failed") > 0
  BY <1>6, <1>8, <1>9
<1> QED BY <1>5, <1>7, <1>10, <1>11, Zenon DEF LossIsNoticed

LEMMA CutsAreNoticed ==
  ASSUME StreamIsInOrder, ~CaptureRefused(TRUE), NEW t \in DOMAIN Records, results[t] # "ignored"
  PROVE  Summed(t.target, group[t]) \in stream
<1>1. t \in Tests /\ results[t] \in {"ok", "failed"} /\ t \in RecordedAs(results[t])
  BY RecordsAreFinished DEF StreamIsInOrder, Results, Ran, RecordedAs
<1>2. ASSUME NEW d \in Ending
      PROVE  SummedTests(d[2]) = RecordedAs(d[2])
  <2>1. StreamSummary[d[1]] = Cardinality(RecordedAs(d[2])) /\ d[2] \in Results \ {"filtered"}
    <3>1. StreamSummary.passed = Cardinality(RecordedAs("ok"))
          /\ StreamSummary.failed = Cardinality(RecordedAs("failed"))
      BY RefusedByCount
    <3>2. d = <<"passed", "ok">> \/ d = <<"failed", "failed">>
      BY DEF Ending
    <3>3. CASE d = <<"passed", "ok">>
      BY <3>1, <3>3 DEF Results
    <3>4. CASE d = <<"failed", "failed">>
      BY <3>1, <3>4 DEF Results
    <3> QED BY <3>2, <3>3, <3>4
  <2>2. Cardinality(SummedTests(d[2])) = Cardinality(RecordedAs(d[2]))
    BY <2>1, StreamCounts
  <2>3. IsFiniteSet(RecordedAs(d[2])) /\ SummedTests(d[2]) \in SUBSET RecordedAs(d[2])
    BY <2>1, SummedAreRecorded, FS_Subset
  <2> QED BY <2>2, <2>3, FS_Subset
<1>3. t \in SummedTests(results[t])
  BY <1>1, <1>2 DEF Ending
<1> QED BY <1>3 DEF SummedTests

\* A capture that generate accepts has lost nothing (parse_nextest_libtest_json,
\* SuiteTally, reconcile, run_tests_and_capture).
THEOREM LossIsAlwaysNoticed == CaptureSpec => []LossIsNoticed
<1>1. StreamIsInOrder => LossIsNoticed
  <2>1. CASE nextest = "exited"
    BY <2>1, NothingLostAtTheEnd
  <2>2. ASSUME StreamIsInOrder, nextest = "killed"
        PROVE  \/ CaptureRefused(TRUE)
               \/ \A t \in DOMAIN Records :
                     results[t] # "ignored" => Summed(t.target, group[t]) \in stream
    BY <2>2, CutsAreNoticed
  <2>3. CASE nextest # "exited"
    BY <2>2, <2>3 DEF LossIsNoticed
  <2> QED BY <2>1, <2>3
<1>2. CaptureStart => StreamIsInOrder
  BY StreamStartsInOrder
<1>3. StreamIsInOrder /\ [CaptureStep]_captureVars => StreamIsInOrder'
  BY StreamStaysInOrder
<1> QED BY <1>1, <1>2, <1>3, PTL DEF CaptureSpec

-----------------------------------------------------------------------------
(* The backfill: from the last edit on, the entries of a root keep their    *)
(* places, a placeholder gives way to a uid drawn for its place, and a link *)
(* that is rewritten follows the one entry it named.                        *)

\* The uids that are drawn at some time from n on.
DrawnFrom(n) == ToSet(Roots) \X LayerSet \X Nat \X {m \in Nat : m >= n}

\* What people leave on the disk: uids that exist.
Handwritten(b, n) ==
    /\ DOMAIN b = LayerSet
    /\ \A l \in LayerSet :
        /\ DOMAIN b[l] \subseteq Nat
        /\ \A i \in DOMAIN b[l] : {"uid", "links"} \subseteq DOMAIN b[l][i] /\ b[l][i].uid \notin DrawnFrom(n)

\* The uids drawn for one entry between two moments.
DrawnFor(root, l, i, from, to) == {<<root, l, i, m>> : m \in from..to}

NamesOnly(b, u, l, i) ==
    \A m \in LayerSet : \A j \in DOMAIN b[m] : b[m][j].uid = u <=> m = l /\ j = i

\* What a link may have become, drawn between two moments.
MayBecome(root, b, u, v, from, to) ==
    \/ v = u
    \/ /\ u \in Placeholders
       /\ \A l \in LayerSet : \A i \in DOMAIN b[l] : NamesOnly(b, u, l, i) =>
             v \in DrawnFor(root, l, i, from, to)

Descends(root, b, l, seq, from, to) ==
    /\ DOMAIN seq = DOMAIN b[l]
    /\ \A i \in DOMAIN b[l] :
        /\ {"uid", "links"} \subseteq DOMAIN seq[i]
        /\ \/ seq[i].uid = b[l][i].uid
           \/ ~IsUuid(b[l][i].uid) /\ seq[i].uid \in DrawnFor(root, l, i, from, to)
        /\ DOMAIN seq[i].links = DOMAIN b[l][i].links
        /\ l \in Linked => \A k \in DOMAIN b[l][i].links :
              MayBecome(root, b, b[l][i].links[k], seq[i].links[k], from, to)

\* The root held b when the uids drawn from `from` on did not exist, and holds d now.
Grown(root, b, d, from, to) ==
    /\ root \in ToSet(Roots) /\ from \in Nat /\ to \in Nat
    /\ Handwritten(b, from) /\ DOMAIN d = LayerSet
    /\ \A l \in LayerSet : Descends(root, b, l, d[l], from, to)

\* No link is ahead of, or behind, the entry it named.
Matched(b, d) ==
    \A l \in Linked : \A i \in DOMAIN b[l] : \A k \in DOMAIN b[l][i].links :
        LET u == b[l][i].links[k] IN
        u \in Placeholders =>
            \A m \in LayerSet : \A j \in DOMAIN b[m] :
                NamesOnly(b, u, m, j) => d[l][i].links[k] = d[m][j].uid

LEMMA LinkedLayers == Linked \subseteq LayerSet
<1>1. DOMAIN Layers = 1..5
  BY DEF Layers
<1> QED BY <1>1 DEF Linked, ParentLayer, LayerSet, Layers

LEMMA DrawnUids ==
  ASSUME NEW root \in ToSet(Roots), NEW l \in LayerSet, NEW i \in Nat,
         NEW from \in Nat, NEW to \in Nat, NEW v \in DrawnFor(root, l, i, from, to)
  PROVE  /\ v \notin Placeholders /\ v # NoValue /\ IsUuid(v)
         /\ v \in DrawnFrom(from)
         /\ \A m \in LayerSet : \A j : v \in DrawnFor(root, m, j, from, to) => m = l /\ j = i
<1>1. PICK n \in from..to : v = <<root, l, i, n>>
  BY DEF DrawnFor
<1>2. n \in Nat /\ n >= from
  BY <1>1
<1>3. v \in Drawn
  BY <1>1, <1>2 DEF Drawn
<1>4. v \in DrawnFrom(from)
  BY <1>1, <1>2 DEF DrawnFrom
<1>5. ASSUME NEW m, NEW j, v \in DrawnFor(root, m, j, from, to)
      PROVE  m = l /\ j = i
  BY <1>1, <1>5 DEF DrawnFor
<1> QED BY <1>3, <1>4, <1>5, DrawnIsNoPlaceholder DEF IsUuid

\* An entry as the backfill leaves it.
LEMMA FilledEntry ==
  ASSUME NEW root, NEW d, NEW l \in LayerSet, NEW i \in DOMAIN d[l],
         {"uid", "links"} \subseteq DOMAIN d[l][i]
  PROVE  LET e == d[l][i]  f == Filled(root, d)[l][i] IN
         /\ DOMAIN Filled(root, d)[l] = DOMAIN d[l]
         /\ {"uid", "links"} \subseteq DOMAIN f
         /\ f.uid = IF IsUuid(e.uid) THEN e.uid ELSE Fresh(root, l, i)
         /\ DOMAIN f.links = DOMAIN e.links
         /\ \A k \in DOMAIN e.links :
               f.links[k] = IF l \in Linked THEN Remapped(root, d, e.links[k]) ELSE e.links[k]
<1> DEFINE e == d[l][i]
           minted == Minted(root, l, d[l])
           f == Filled(root, d)[l][i]
<1>1. /\ DOMAIN minted = DOMAIN d[l]
      /\ minted[i] = IF IsUuid(e.uid) THEN e ELSE [e EXCEPT !.uid = Fresh(root, l, i)]
  BY DEF Minted
<1>2. /\ {"uid", "links"} \subseteq DOMAIN minted[i]
      /\ minted[i].uid = IF IsUuid(e.uid) THEN e.uid ELSE Fresh(root, l, i)
      /\ minted[i].links = e.links
  BY <1>1
<1>3. Filled(root, d)[l] = Relinked(root, d, l, minted)
  BY DEF Filled
<1> HIDE DEF minted
<1>4. CASE l \notin Linked
  BY <1>1, <1>2, <1>3, <1>4 DEF Relinked
<1>5. CASE l \in Linked
  <2>1. /\ DOMAIN Filled(root, d)[l] = DOMAIN d[l]
        /\ f = [minted[i] EXCEPT !.links = [k \in DOMAIN @ |-> Remapped(root, d, @[k])]]
    BY <1>1, <1>3, <1>5 DEF Relinked
  <2>2. /\ DOMAIN f = DOMAIN minted[i] /\ f.uid = minted[i].uid
        /\ f.links = [k \in DOMAIN e.links |-> Remapped(root, d, e.links[k])]
    BY <1>2, <2>1
  <2> QED BY <1>2, <1>5, <2>1, <2>2
<1> QED BY <1>4, <1>5

\* Of a uid that named one entry nobody else is the bearer afterwards, and of one
\* that was drawn for an entry only that entry.
LEMMA BearersStayWhoTheyAre ==
  ASSUME NEW root, NEW b, NEW d, NEW from, NEW to, Grown(root, b, d, from, to),
         NEW u, NEW l0 \in LayerSet, NEW i0 \in DOMAIN b[l0], NamesOnly(b, u, l0, i0),
         NEW l \in LayerSet, NEW i \in DOMAIN d[l]
  PROVE  /\ i \in DOMAIN b[l]
         /\ d[l][i].uid = u => l = l0 /\ i = i0
         /\ d[l][i].uid \in DrawnFor(root, l0, i0, from, to) => l = l0 /\ i = i0
         /\ d[l0][i0].uid = u \/ (~IsUuid(u) /\ d[l0][i0].uid \in DrawnFor(root, l0, i0, from, to))
<1> USE DEF Grown
<1>1. i \in DOMAIN b[l] /\ i \in Nat /\ i0 \in Nat
  BY DEF Handwritten, Descends
<1>2. b[l0][i0].uid = u /\ u \notin DrawnFrom(from)
  BY DEF NamesOnly, Handwritten
<1>3. d[l][i].uid = b[l][i].uid \/ d[l][i].uid \in DrawnFor(root, l, i, from, to)
  BY <1>1 DEF Descends
<1>4. b[l][i].uid \notin DrawnFrom(from)
  BY <1>1 DEF Handwritten
<1>5. b[l][i].uid = u => l = l0 /\ i = i0
  BY <1>1 DEF NamesOnly
<1>6. d[l][i].uid = u => l = l0 /\ i = i0
  BY <1>1, <1>2, <1>3, <1>5, DrawnUids
<1>7. d[l][i].uid \in DrawnFor(root, l0, i0, from, to) => l = l0 /\ i = i0
  BY <1>1, <1>3, <1>4, DrawnUids
<1>8. d[l0][i0].uid = u \/ (~IsUuid(u) /\ d[l0][i0].uid \in DrawnFor(root, l0, i0, from, to))
  BY <1>2 DEF Descends
<1> QED BY <1>1, <1>6, <1>7, <1>8

\* Where the renaming leads a placeholder that named one entry.
LEMMA RemappedToTheNamed ==
  ASSUME NEW root, NEW b, NEW d, NEW from, NEW to, Grown(root, b, d, from, to),
         NEW u \in Placeholders, NEW l0 \in LayerSet, NEW i0 \in DOMAIN b[l0], NamesOnly(b, u, l0, i0)
  PROVE  Remapped(root, d, u) = IF d[l0][i0].uid = u THEN Fresh(root, l0, i0) ELSE u
<1>1. \A l \in LayerSet : \A i \in Bearers(d[l], u) : l = l0 /\ i = i0
  <2> TAKE l \in LayerSet
  <2> TAKE i \in Bearers(d[l], u)
  <2>1. i \in DOMAIN d[l] /\ d[l][i].uid = u
    BY DEF Bearers
  <2> QED BY <2>1, BearersStayWhoTheyAre
<1>2. i0 \in DOMAIN d[l0] /\ i0 \in Nat
  BY DEF Grown, Descends, Handwritten
<1>3. CASE d[l0][i0].uid = u
  <2>1. i0 \in Bearers(d[l0], u)
    BY <1>2, <1>3 DEF Bearers
  <2>2. Bearers(d[l0], u) = {i0}
    BY <1>1, <2>1
  <2> DEFINE place == CHOOSE m \in LayerSet : Bearers(d[m], u) # {}
             last(l) == CHOOSE i \in Bearers(d[l], u) : \A j \in Bearers(d[l], u) : j <= i
  <2>3. place = l0
    BY <1>1, <2>1
  <2>4. last(l0) = i0
    <3>1. \A i : (i \in {i0} /\ \A j \in {i0} : j <= i) <=> i = i0
      BY <1>2
    <3> QED BY <2>2, <3>1
  <2>5. Remapped(root, d, u) = Fresh(root, place, last(place))
    BY <2>1 DEF Remapped
  <2> HIDE DEF place, last
  <2> QED BY <1>3, <2>3, <2>4, <2>5
<1>4. CASE d[l0][i0].uid # u
  <2>1. \A l \in LayerSet : Bearers(d[l], u) = {}
    BY <1>1, <1>4 DEF Bearers
  <2> QED BY <1>4, <2>1 DEF Remapped
<1> QED BY <1>3, <1>4

\* A link that is read as it is now is written as it may become.
LEMMA RemappedMayBecome ==
  ASSUME NEW root, NEW b, NEW d, NEW from, NEW to, Grown(root, b, d, from, to),
         from <= to, draws = to, NEW u, NEW v, MayBecome(root, b, u, v, from, to)
  PROVE  MayBecome(root, b, u, Remapped(root, d, v), from, to)
<1> DEFINE w == Remapped(root, d, v)
<1>1. \A l \in LayerSet : \A i \in DOMAIN b[l] :
        i \in Nat /\ Fresh(root, l, i) \in DrawnFor(root, l, i, from, to)
  BY DEF Grown, Handwritten, Fresh, DrawnFor
<1>2. v \notin Placeholders => w = v
  BY DEF Remapped
<1>3. CASE v # u
  <2>1. \A l \in LayerSet : \A i \in DOMAIN b[l] : NamesOnly(b, u, l, i) =>
          v \in DrawnFor(root, l, i, from, to) /\ v \notin Placeholders
    BY <1>1, <1>3, DrawnUids DEF MayBecome, Grown
  <2> QED BY <1>2, <1>3, <2>1 DEF MayBecome
<1>4. CASE v = u /\ u \notin Placeholders
  BY <1>2, <1>4 DEF MayBecome
<1>5. CASE v = u /\ u \in Placeholders
  <2> SUFFICES ASSUME w # u, NEW l \in LayerSet, NEW i \in DOMAIN b[l], NamesOnly(b, u, l, i)
               PROVE  w \in DrawnFor(root, l, i, from, to)
    BY <1>5 DEF MayBecome
  <2> QED BY <1>1, <1>5, RemappedToTheNamed
<1> QED BY <1>3, <1>4, <1>5

LEMMA FilledGrows ==
  ASSUME NEW root, NEW b, NEW d, NEW from, NEW to, Grown(root, b, d, from, to), from <= to, draws = to
  PROVE  Grown(root, b, Filled(root, d), from, to)
<1> DEFINE f == Filled(root, d)
<1>1. DOMAIN f = LayerSet
  BY DEF Filled
<1>2. ASSUME NEW l \in LayerSet
      PROVE  Descends(root, b, l, f[l], from, to)
  <2>1. /\ DOMAIN d[l] = DOMAIN b[l] /\ Descends(root, b, l, d[l], from, to)
        /\ \A i \in DOMAIN b[l] : i \in Nat /\ {"uid", "links"} \subseteq DOMAIN d[l][i]
    BY DEF Grown, Handwritten, Descends
  <2>2. DOMAIN f[l] = DOMAIN b[l]
    <3>1. DOMAIN f[l] = DOMAIN Minted(root, l, d[l])
      BY DEF Filled, Relinked
    <3> QED BY <2>1, <3>1 DEF Minted
  <2>3. ASSUME NEW i \in DOMAIN b[l]
        PROVE  /\ {"uid", "links"} \subseteq DOMAIN f[l][i]
               /\ \/ f[l][i].uid = b[l][i].uid
                  \/ ~IsUuid(b[l][i].uid) /\ f[l][i].uid \in DrawnFor(root, l, i, from, to)
               /\ DOMAIN f[l][i].links = DOMAIN b[l][i].links
               /\ l \in Linked => \A k \in DOMAIN b[l][i].links :
                     MayBecome(root, b, b[l][i].links[k], f[l][i].links[k], from, to)
    <3>1. /\ {"uid", "links"} \subseteq DOMAIN f[l][i]
          /\ f[l][i].uid = IF IsUuid(d[l][i].uid) THEN d[l][i].uid ELSE Fresh(root, l, i)
          /\ DOMAIN f[l][i].links = DOMAIN d[l][i].links
          /\ l \in Linked => \A k \in DOMAIN d[l][i].links :
                f[l][i].links[k] = Remapped(root, d, d[l][i].links[k])
      BY <2>1, FilledEntry
    <3>2. /\ \/ d[l][i].uid = b[l][i].uid
             \/ ~IsUuid(b[l][i].uid) /\ d[l][i].uid \in DrawnFor(root, l, i, from, to)
          /\ DOMAIN d[l][i].links = DOMAIN b[l][i].links
          /\ l \in Linked => \A k \in DOMAIN b[l][i].links :
                MayBecome(root, b, b[l][i].links[k], d[l][i].links[k], from, to)
      BY <2>1 DEF Descends
    <3>3. Fresh(root, l, i) \in DrawnFor(root, l, i, from, to)
      BY DEF Grown, Fresh, DrawnFor
    <3>4. d[l][i].uid \in DrawnFor(root, l, i, from, to) => IsUuid(d[l][i].uid)
      BY <2>1, DrawnUids DEF Grown
    <3> HIDE DEF f
    <3>5. \/ f[l][i].uid = b[l][i].uid
          \/ ~IsUuid(b[l][i].uid) /\ f[l][i].uid \in DrawnFor(root, l, i, from, to)
      BY <3>1, <3>2, <3>3, <3>4
    <3>6. ASSUME l \in Linked, NEW k \in DOMAIN b[l][i].links
          PROVE  MayBecome(root, b, b[l][i].links[k], f[l][i].links[k], from, to)
      <4>1. /\ f[l][i].links[k] = Remapped(root, d, d[l][i].links[k])
            /\ MayBecome(root, b, b[l][i].links[k], d[l][i].links[k], from, to)
        BY <3>1, <3>2, <3>6
      <4> QED BY <4>1, RemappedMayBecome
    <3> QED BY <3>1, <3>2, <3>5, <3>6
  <2> HIDE DEF f
  <2> QED BY <2>2, <2>3 DEF Descends
<1> QED BY <1>1, <1>2 DEF Grown

LEMMA FilledMatches ==
  ASSUME NEW root, NEW b, NEW d, NEW from, NEW to, Grown(root, b, d, from, to), Matched(b, d)
  PROVE  Matched(b, Filled(root, d))
<1> DEFINE f == Filled(root, d)
<1> SUFFICES ASSUME NEW l \in Linked, NEW i \in DOMAIN b[l], NEW k \in DOMAIN b[l][i].links,
                    b[l][i].links[k] \in Placeholders,
                    NEW m \in LayerSet, NEW j \in DOMAIN b[m], NamesOnly(b, b[l][i].links[k], m, j)
             PROVE  f[l][i].links[k] = f[m][j].uid
  BY DEF Matched
<1> DEFINE u == b[l][i].links[k]
           v == d[m][j].uid
<1>1. l \in LayerSet
  BY LinkedLayers
<1>2. d[l][i].links[k] = v
  BY DEF Matched
<1>3. /\ i \in DOMAIN d[l] /\ {"uid", "links"} \subseteq DOMAIN d[l][i]
      /\ k \in DOMAIN d[l][i].links
      /\ j \in DOMAIN d[m] /\ {"uid", "links"} \subseteq DOMAIN d[m][j] /\ j \in Nat
  BY <1>1 DEF Grown, Descends, Handwritten
<1>4. f[l][i].links[k] = Remapped(root, d, v)
  BY <1>1, <1>2, <1>3, FilledEntry
<1>5. f[m][j].uid = IF IsUuid(v) THEN v ELSE Fresh(root, m, j)
  BY <1>3, FilledEntry
<1>6. ~IsUuid(u) /\ u \in Placeholders
  BY DEF IsUuid
<1>7. v = u \/ v \in DrawnFor(root, m, j, from, to)
  <2>1. NamesOnly(b, u, m, j)
    OBVIOUS
  <2> HIDE DEF u
  <2> QED BY <1>3, <2>1, BearersStayWhoTheyAre
<1>8. CASE v = u
  <2>1. Remapped(root, d, u) = Fresh(root, m, j)
    BY <1>6, <1>8, RemappedToTheNamed
  <2> QED BY <1>4, <1>5, <1>6, <1>8, <2>1
<1>9. CASE v \in DrawnFor(root, m, j, from, to)
  <2>1. IsUuid(v) /\ v \notin Placeholders
    BY <1>3, <1>9, DrawnUids DEF Grown
  <2>2. Remapped(root, d, v) = v
    BY <2>1 DEF Remapped
  <2> QED BY <1>4, <1>5, <2>1, <2>2
<1> QED BY <1>7, <1>8, <1>9

\* A link still names what it named, or, out of step with that entry, nothing.
LEMMA TargetsAreKept ==
  ASSUME NEW root, NEW b, NEW d, NEW from, NEW to, Grown(root, b, d, from, to),
         NEW l \in Linked, NEW i \in DOMAIN d[l], NEW k \in DOMAIN d[l][i].links
  PROVE  LET was == Target(b, b[l][i].links[k])
             is == Target(d, d[l][i].links[k]) IN
         \/ was = NoValue
         \/ is = was
         \/ is = NoValue /\ ~Matched(b, d)
<1> DEFINE u == b[l][i].links[k]
           v == d[l][i].links[k]
<1>1. /\ l \in LayerSet /\ i \in DOMAIN b[l] /\ k \in DOMAIN b[l][i].links
      /\ MayBecome(root, b, u, v, from, to)
  <2>1. l \in LayerSet
    BY LinkedLayers
  <2>2. Descends(root, b, l, d[l], from, to)
    BY <2>1 DEF Grown
  <2> QED BY <2>1, <2>2 DEF Descends
<1>2. \A f, w : /\ \A x \in Bearing(f, w) : /\ x = <<x[1], x[2]>> /\ x[1] \in LayerSet
                                          /\ x[2] \in DOMAIN f[x[1]] /\ f[x[1]][x[2]].uid = w
               /\ \A m \in LayerSet : \A j \in DOMAIN f[m] : f[m][j].uid = w => <<m, j>> \in Bearing(f, w)
  BY DEF Bearing, Bearers
<1>3. \A f, w, x : Bearing(f, w) = {x} /\ w # NoValue => Target(f, w) = x
  BY DEF Target
<1>4. \A f, w : Bearing(f, w) = {} => Target(f, w) = NoValue
  BY DEF Target
<1>5. SUFFICES ASSUME Target(b, u) # NoValue
               PROVE  Target(d, v) = Target(b, u) \/ (Target(d, v) = NoValue /\ ~Matched(b, d))
  OBVIOUS
<1>6. u # NoValue /\ \E x : Bearing(b, u) = {x}
  BY <1>5 DEF Target
<1>7. PICK x : Bearing(b, u) = {x} /\ Target(b, u) = x
  BY <1>3, <1>6
<1> DEFINE m == x[1]
           j == x[2]
<1>8. x = <<m, j>> /\ m \in LayerSet /\ j \in DOMAIN b[m] /\ b[m][j].uid = u
  BY <1>2, <1>7
<1>9. NamesOnly(b, u, m, j)
  <2>1. ASSUME NEW l1 \in LayerSet, NEW i1 \in DOMAIN b[l1], b[l1][i1].uid = u
        PROVE  l1 = m /\ i1 = j
    <3>1. <<l1, i1>> \in Bearing(b, u)
      BY <1>2, <2>1
    <3>2. <<l1, i1>> = x
      BY <1>7, <3>1
    <3> QED BY <3>2
  <2> QED BY <1>8, <2>1 DEF NamesOnly
<1> HIDE DEF m, j
<1>10. j \in DOMAIN d[m] /\ j \in Nat /\ root \in ToSet(Roots) /\ from \in Nat /\ to \in Nat
  BY <1>8 DEF Grown, Descends, Handwritten
<1>11. v = u \/ (u \in Placeholders /\ v \in DrawnFor(root, m, j, from, to))
  BY <1>1, <1>8, <1>9 DEF MayBecome
<1>12. v # NoValue
  BY <1>6, <1>8, <1>10, <1>11, DrawnUids
<1> HIDE DEF u, v
<1>13. \A y \in Bearing(d, v) : y = x
  <2> TAKE y \in Bearing(d, v)
  <2>1. y = <<y[1], y[2]>> /\ y[1] \in LayerSet /\ y[2] \in DOMAIN d[y[1]] /\ d[y[1]][y[2]].uid = v
    BY <1>2
  <2>2. y[1] = m /\ y[2] = j
    <3> DEFINE l1 == y[1]
               i1 == y[2]
    <3>1. l1 \in LayerSet /\ i1 \in DOMAIN d[l1] /\ d[l1][i1].uid = v
      BY <2>1
    <3> HIDE DEF l1, i1
    <3>2. l1 = m /\ i1 = j
      BY <1>8, <1>9, <1>11, <3>1, BearersStayWhoTheyAre
    <3> QED BY <3>2 DEF l1, i1
  <2> QED BY <1>8, <2>1, <2>2
<1>14. CASE Bearing(d, v) # {}
  <2>1. Bearing(d, v) = {x}
    BY <1>13, <1>14
  <2> QED BY <1>3, <1>7, <1>12, <2>1
<1>15. CASE Bearing(d, v) = {}
  <2>1. Target(d, v) = NoValue
    BY <1>4, <1>15
  <2>2. d[m][j].uid # v
    BY <1>2, <1>8, <1>10, <1>15
  <2>3. ~Matched(b, d)
    <3>1. CASE u \in Placeholders
      BY <1>1, <1>8, <1>9, <2>2, <3>1 DEF Matched, u, v
    <3>2. CASE u \notin Placeholders
      <4>1. IsUuid(u) /\ v = u
        BY <1>6, <1>11, <3>2 DEF IsUuid
      <4>2. d[m][j].uid = u
        BY <1>8, <1>9, <1>10, <4>1, BearersStayWhoTheyAre
      <4> QED BY <2>2, <4>1, <4>2
    <3> QED BY <3>1, <3>2
  <2> QED BY <2>1, <2>3
<1> QED BY <1>14, <1>15

\* What people and runs do to a root.
LEMMA GrowsFromItself ==
  ASSUME NEW root \in ToSet(Roots), NEW from \in Nat, NEW to \in Nat, NEW b, Handwritten(b, from)
  PROVE  Grown(root, b, b, from, to) /\ Matched(b, b)
BY DEF Grown, Handwritten, Descends, MayBecome, Matched, NamesOnly

LEMMA GrowsOn ==
  ASSUME NEW root, NEW b, NEW d, NEW from, NEW to, Grown(root, b, d, from, to),
         NEW then \in Nat, to <= then
  PROVE  Grown(root, b, d, from, then)
<1>1. \A l, i : DrawnFor(root, l, i, from, to) \subseteq DrawnFor(root, l, i, from, then)
  BY DEF DrawnFor, Grown
<1>2. \A u, v : MayBecome(root, b, u, v, from, to) => MayBecome(root, b, u, v, from, then)
  BY <1>1 DEF MayBecome
<1>3. \A l \in LayerSet : Descends(root, b, l, d[l], from, then)
  BY <1>1, <1>2 DEF Grown, Descends
<1> QED BY <1>3 DEF Grown

LEMMA WritesOneLayer ==
  ASSUME NEW root, NEW b, NEW d, NEW f, NEW from, NEW to,
         Grown(root, b, d, from, to), Grown(root, b, f, from, to), NEW l \in LayerSet
  PROVE  /\ Grown(root, b, [d EXCEPT ![l] = f[l]], from, to)
         /\ [d EXCEPT ![l] = f[l]][l] = f[l]
         /\ \A m \in LayerSet \ {l} : [d EXCEPT ![l] = f[l]][m] = d[m]
<1>1. DOMAIN d = LayerSet
  BY DEF Grown
<1>2. /\ DOMAIN [d EXCEPT ![l] = f[l]] = LayerSet
      /\ \A m \in LayerSet : [d EXCEPT ![l] = f[l]][m] = IF m = l THEN f[m] ELSE d[m]
  BY <1>1
<1>3. \A m \in LayerSet : Descends(root, b, m, f[m], from, to) /\ Descends(root, b, m, d[m], from, to)
  BY DEF Grown
<1>4. \A m \in LayerSet : Descends(root, b, m, [d EXCEPT ![l] = f[l]][m], from, to)
  BY <1>2, <1>3
<1> QED BY <1>2, <1>4 DEF Grown

LEMMA HandwrittenAgain ==
  ASSUME NEW root, NEW b, NEW d, NEW from, NEW to, Grown(root, b, d, from, to), from <= to
  PROVE  Handwritten(d, to + 1)
<1> USE DEF Grown, Handwritten
<1>1. DrawnFrom(to + 1) \subseteq DrawnFrom(from)
  BY DEF DrawnFrom
<1>2. \A l, i : DrawnFor(root, l, i, from, to) \cap DrawnFrom(to + 1) = {}
  BY DEF DrawnFor, DrawnFrom
<1>3. ASSUME NEW l \in LayerSet
      PROVE  /\ DOMAIN d[l] = DOMAIN b[l]
             /\ \A i \in DOMAIN d[l] : {"uid", "links"} \subseteq DOMAIN d[l][i] /\ d[l][i].uid \notin DrawnFrom(to + 1)
  BY <1>1, <1>2 DEF Descends
<1> QED BY <1>3

LEMMA MatchedByLayers ==
  ASSUME NEW b, NEW d, NEW f, Matched(b, d), \A l \in LayerSet : d[l] = f[l]
  PROVE  Matched(b, f)
BY LinkedLayers DEF Matched

\* Any number of backfills, deaths and edits.
OnDisk(files, n) == files \in {NoValue, Unreadable} \/ Handwritten(files, n)

BackfillStart ==
    /\ \A root \in ToSet(Roots) : root \in DOMAIN disk /\ OnDisk(disk[root], 0)
    /\ begun = disk /\ fill = NoFill /\ died = FALSE /\ draws = 0
BackfillNext ==
    \/ BeginBackfill \/ WriteFile \/ NextRoot \/ BackfillDies
    \/ \E root \in ToSet(Roots) : \E files : Edit(root, files) /\ OnDisk(files, draws + 1)
BackfillSpec == BackfillStart /\ [][BackfillNext]_traceVars

\* Every root has grown from what it was, and what is about to be written of the root at
\* work has too; as long as no run has died, the other roots have no link that is out of
\* step, nor will this one when it is written.
Held(root, from) ==
    \/ disk[root] = begun[root] /\ disk[root] \in {NoValue, Unreadable}
    \/ Grown(root, begun[root], disk[root], from, draws)

InStep(root) == disk[root] \in {NoValue, Unreadable} \/ Matched(begun[root], disk[root])

Filling(root, from) ==
    /\ {"at", "files", "write"} \subseteq DOMAIN fill
    /\ Grown(root, begun[root], disk[root], from, draws)
    /\ Grown(root, begun[root], fill.files, from, draws)
    /\ \A l \in LayerSet \ fill.write : disk[root][l] = fill.files[l]
    /\ ~died => Matched(begun[root], fill.files)

Backfilling(from) ==
    /\ from \in 0..draws
    /\ \A root \in ToSet(Roots) : Held(root, from)
    /\ ~died => \A root \in ToSet(Roots) :
          InStep(root) \/ (fill.at # 0 /\ root = Roots[fill.at])
    /\ fill.at # 0 => fill.at \in DOMAIN Roots /\ Filling(Roots[fill.at], from)

BackfillInv ==
    /\ draws \in Nat /\ ToSet(Roots) \subseteq DOMAIN disk
    /\ \E from : Backfilling(from)

LEMMA NextRootIsRead ==
  ASSUME draws \in Nat, NEW from \in 0..draws, \A root \in ToSet(Roots) : Held(root, from),
         NEW after, ReadRoot(after).at # 0
  PROVE  LET f == ReadRoot(after)  root == Roots[f.at] IN
         /\ {"at", "files", "write"} \subseteq DOMAIN f /\ f.at \in DOMAIN Roots
         /\ Grown(root, begun[root], disk[root], from, draws)
         /\ Grown(root, begun[root], f.files, from, draws)
         /\ \A l \in LayerSet \ f.write : disk[root][l] = f.files[l]
         /\ InStep(root) => Matched(begun[root], f.files)
<1> DEFINE present == {n \in DOMAIN Roots : n > after /\ disk[Roots[n]] # NoValue}
           first == {n \in present : \A m \in present : n <= m}
           next == CHOOSE n \in first : TRUE
           root == Roots[next]
           files == Filled(root, disk[root])
<1>1. /\ first # {} /\ disk[root] # Unreadable
      /\ ReadRoot(after) = [at |-> next, files |-> files, write |-> {l \in LayerSet : files[l] # disk[root][l]}]
  BY DEF ReadRoot, NoFill
<1>2. next \in first
  BY <1>1
<1>3. next \in DOMAIN Roots /\ disk[root] # NoValue /\ root \in ToSet(Roots)
  BY <1>2 DEF ToSet
<1>4. Grown(root, begun[root], disk[root], from, draws)
  BY <1>1, <1>3 DEF Held
<1> HIDE DEF next
<1>5. Grown(root, begun[root], files, from, draws)
  BY <1>4, FilledGrows
<1>6. InStep(root) => Matched(begun[root], files)
  BY <1>1, <1>3, <1>4, FilledMatches DEF InStep
<1> HIDE DEF files
<1> QED BY <1>1, <1>3, <1>4, <1>5, <1>6

LEMMA ReadingKeeps ==
  ASSUME BackfillInv, NEW after, fill' = ReadRoot(after), UNCHANGED <<disk, begun, died, draws>>,
         ~died => \A root \in ToSet(Roots) : InStep(root)
  PROVE  BackfillInv'
<1>1. PICK from : Backfilling(from)
  BY DEF BackfillInv
<1>2. draws \in Nat /\ from \in 0..draws /\ \A root \in ToSet(Roots) : Held(root, from)
  BY <1>1 DEF BackfillInv, Backfilling
<1>3. /\ \A root \in ToSet(Roots) : Held(root, from)'
      /\ \A root : InStep(root)' <=> InStep(root)
  BY <1>2 DEF Held, InStep
<1>4. ASSUME fill'.at # 0
      PROVE  (fill.at \in DOMAIN Roots /\ Filling(Roots[fill.at], from))'
  <2> DEFINE root == Roots[ReadRoot(after).at]
  <2>1. root \in ToSet(Roots) /\ ReadRoot(after).at \in DOMAIN Roots
    BY <1>2, <1>4, NextRootIsRead DEF ToSet
  <2>2. /\ {"at", "files", "write"} \subseteq DOMAIN fill'
        /\ Grown(root, begun[root], disk[root], from, draws)
        /\ Grown(root, begun[root], fill'.files, from, draws)
        /\ \A l \in LayerSet \ fill'.write : disk[root][l] = fill'.files[l]
        /\ ~died => Matched(begun[root], fill'.files)
    BY <1>2, <1>4, <2>1, NextRootIsRead
  <2> QED BY <2>1, <2>2 DEF Filling
<1>5. Backfilling(from)'
  BY <1>2, <1>3, <1>4 DEF Backfilling
<1> QED BY <1>5 DEF BackfillInv

LEMMA WritingKeeps ==
  ASSUME BackfillInv, WriteFile
  PROVE  BackfillInv'
<1>1. PICK from : Backfilling(from)
  BY DEF BackfillInv
<1> DEFINE root == Roots[fill.at]
<1>2. /\ draws \in Nat /\ from \in 0..draws /\ ToSet(Roots) \subseteq DOMAIN disk
      /\ fill.at # 0 /\ fill.at \in DOMAIN Roots /\ Filling(root, from) /\ root \in ToSet(Roots)
  BY <1>1 DEF BackfillInv, Backfilling, WriteFile, ToSet
<1>3. PICK l \in LayerSet :
        /\ disk' = [disk EXCEPT ![root][l] = fill.files[l]]
        /\ fill' = [fill EXCEPT !.write = @ \ {l}]
        /\ UNCHANGED <<begun, died, draws>>
  <2>1. PICK i \in DOMAIN Layers :
          /\ disk' = [disk EXCEPT ![root][Layers[i]] = fill.files[Layers[i]]]
          /\ fill' = [fill EXCEPT !.write = @ \ {Layers[i]}]
          /\ UNCHANGED <<begun, died, draws>>
    BY DEF WriteFile
  <2>2. Layers[i] \in LayerSet
    BY DEF LayerSet
  <2> HIDE DEF root
  <2> QED BY <2>1, <2>2
<1>4. /\ DOMAIN disk' = DOMAIN disk
      /\ disk'[root] = [disk[root] EXCEPT ![l] = fill.files[l]]
      /\ \A r \in ToSet(Roots) : r # root => disk'[r] = disk[r]
  BY <1>2, <1>3
<1>5. /\ {"at", "files", "write"} \subseteq DOMAIN fill'
      /\ fill'.at = fill.at /\ fill'.files = fill.files /\ fill'.write = fill.write \ {l}
  BY <1>2, <1>3 DEF Filling
<1> HIDE DEF root
<1>6. /\ Grown(root, begun[root], disk'[root], from, draws)
      /\ disk'[root][l] = fill.files[l]
      /\ \A m \in LayerSet \ {l} : disk'[root][m] = disk[root][m]
  BY <1>2, <1>4, WritesOneLayer DEF Filling
<1>7. \A r \in ToSet(Roots) : Held(r, from)'
  BY <1>1, <1>3, <1>4, <1>6 DEF Backfilling, Held
<1>8. ~died => \A r \in ToSet(Roots) : r = root \/ InStep(r)'
  BY <1>1, <1>3, <1>4 DEF Backfilling, InStep, root
<1>9. Filling(root, from)'
  BY <1>2, <1>3, <1>5, <1>6 DEF Filling, root
<1>10. Backfilling(from)'
  BY <1>2, <1>3, <1>5, <1>7, <1>8, <1>9 DEF Backfilling, root
<1> QED BY <1>2, <1>3, <1>4, <1>10 DEF BackfillInv

LEMMA EditingKeeps ==
  ASSUME BackfillInv, NEW root \in ToSet(Roots), NEW files, Edit(root, files), OnDisk(files, draws + 1)
  PROVE  BackfillInv'
<1>1. PICK from : Backfilling(from)
  BY DEF BackfillInv
<1>2. draws \in Nat /\ from \in 0..draws /\ ToSet(Roots) \subseteq DOMAIN disk
      /\ \A r \in ToSet(Roots) : Held(r, from)
  BY <1>1 DEF BackfillInv, Backfilling
<1>3. /\ disk' = [disk EXCEPT ![root] = files] /\ begun' = disk'
      /\ draws' = draws + 1 /\ fill' = fill /\ fill.at = 0
  BY DEF Edit
<1>4. /\ DOMAIN disk' = DOMAIN disk
      /\ \A r \in ToSet(Roots) : disk'[r] = IF r = root THEN files ELSE disk[r]
  BY <1>2, <1>3
<1>5. \A r \in ToSet(Roots) : OnDisk(disk[r], draws + 1)
  BY <1>2, HandwrittenAgain DEF Held, OnDisk
<1>6. \A r \in ToSet(Roots) : OnDisk(disk'[r], draws')
  BY <1>3, <1>4, <1>5
<1>7. draws' \in Nat
  BY <1>2, <1>3
<1>8. \A r \in ToSet(Roots) :
        \/ disk'[r] \in {NoValue, Unreadable}
        \/ Grown(r, disk'[r], disk'[r], draws', draws') /\ Matched(disk'[r], disk'[r])
  BY <1>6, <1>7, GrowsFromItself DEF OnDisk
<1>9. \A r \in ToSet(Roots) : Held(r, draws)' /\ InStep(r)'
  BY <1>3, <1>8 DEF Held, InStep
<1>10. Backfilling(draws)'
  BY <1>3, <1>7, <1>9 DEF Backfilling
<1> QED BY <1>2, <1>4, <1>7, <1>10 DEF BackfillInv

LEMMA BackfillStaysInStep ==
  ASSUME BackfillInv, [BackfillNext]_traceVars
  PROVE  BackfillInv'
<1>1. PICK from : Backfilling(from)
  BY DEF BackfillInv
<1>2. draws \in Nat /\ from \in 0..draws /\ ToSet(Roots) \subseteq DOMAIN disk
      /\ \A r \in ToSet(Roots) : Held(r, from)
  BY <1>1 DEF BackfillInv, Backfilling
<1>3. CASE UNCHANGED traceVars
  BY <1>3 DEF traceVars, BackfillInv, Backfilling, Held, InStep, Filling
<1>4. CASE BeginBackfill
  <2>1. ~died => \A r \in ToSet(Roots) : InStep(r)
    BY <1>1, <1>4 DEF BeginBackfill, Backfilling
  <2> QED BY <1>4, <2>1, ReadingKeeps DEF BeginBackfill
<1>5. CASE NextRoot
  <2>1. fill.at \in DOMAIN Roots /\ Filling(Roots[fill.at], from) /\ fill.write = {}
    BY <1>1, <1>5 DEF NextRoot, Backfilling
  <2>2. ~died => InStep(Roots[fill.at])
    BY <2>1, MatchedByLayers DEF Filling, InStep
  <2>3. ~died => \A r \in ToSet(Roots) : InStep(r)
    BY <1>1, <2>2 DEF Backfilling
  <2> QED BY <1>5, <2>3, ReadingKeeps DEF NextRoot
<1>6. CASE WriteFile
  BY <1>6, WritingKeeps
<1>7. CASE BackfillDies
  <2>1. /\ fill' = NoFill /\ died' /\ draws' = draws + 1 /\ UNCHANGED <<disk, begun>>
    BY <1>7 DEF BackfillDies
  <2>2. draws' \in Nat /\ draws <= draws' /\ from \in 0..draws'
    BY <1>2, <2>1
  <2>3. \A r \in ToSet(Roots) : Held(r, from)'
    BY <1>2, <2>1, <2>2, GrowsOn DEF Held
  <2>4. Backfilling(from)'
    BY <2>1, <2>2, <2>3 DEF Backfilling, NoFill
  <2> QED BY <1>2, <2>1, <2>2, <2>4 DEF BackfillInv
<1>8. ASSUME NEW root \in ToSet(Roots), NEW files, Edit(root, files), OnDisk(files, draws + 1)
      PROVE  BackfillInv'
  BY <1>8, EditingKeeps
<1> QED BY <1>3, <1>4, <1>5, <1>6, <1>7, <1>8 DEF BackfillNext

LEMMA InStepLinksSurvive ==
  ASSUME BackfillInv
  PROVE  LinksSurviveBackfill
<1>1. PICK from : Backfilling(from)
  BY DEF BackfillInv
<1> SUFFICES ASSUME NEW n \in DOMAIN Roots, Readable(Roots[n]), NEW l \in Linked,
                    NEW i \in DOMAIN disk[Roots[n]][l], NEW k \in DOMAIN disk[Roots[n]][l][i].links
             PROVE  LET root == Roots[n]
                        was == Target(begun[root], begun[root][l][i].links[k])
                        is == Target(disk[root], disk[root][l][i].links[k]) IN
                    was = NoValue \/ is = was \/ (is = NoValue /\ (died \/ fill.at # 0))
  BY DEF LinksSurviveBackfill
<1> DEFINE root == Roots[n]
<1>2. root \in ToSet(Roots) /\ disk[root] \notin {NoValue, Unreadable}
  BY DEF ToSet, Readable
<1>3. Grown(root, begun[root], disk[root], from, draws)
  BY <1>1, <1>2 DEF Backfilling, Held
<1>4. ~died /\ fill.at = 0 => Matched(begun[root], disk[root])
  BY <1>1, <1>2 DEF Backfilling, InStep
<1> QED BY <1>3, <1>4, TargetsAreKept

\* The backfill redirects no reference, whatever the files hold, however many
\* runs die between two of them and whatever is edited in between
\* (backfill_uuids, write_trace_file, cmd_trace).
THEOREM LinksAlwaysSurvive == BackfillSpec => []LinksSurviveBackfill
<1>1. BackfillStart => BackfillInv
  <2> SUFFICES ASSUME BackfillStart PROVE BackfillInv
    OBVIOUS
  <2>1. \A root \in ToSet(Roots) : Held(root, 0) /\ InStep(root)
    BY GrowsFromItself DEF BackfillStart, OnDisk, Held, InStep
  <2>2. Backfilling(0)
    BY <2>1 DEF BackfillStart, Backfilling, NoFill
  <2> QED BY <2>2 DEF BackfillStart, BackfillInv
<1>2. BackfillInv /\ [BackfillNext]_traceVars => BackfillInv'
  BY BackfillStaysInStep
<1>3. BackfillInv => LinksSurviveBackfill
  BY InStepLinksSurvive
<1> QED BY <1>1, <1>2, <1>3, PTL DEF BackfillSpec

-----------------------------------------------------------------------------
(* Custody.  KeyringInv follows a keygen step by step: once a step has     *)
(* been taken, the files it wrote hold the key drawn, or are gone; that is *)
(* what makes the pair match again when the keygen ends, and what puts the *)
(* blame for a pair that does not match on a keygen that was abandoned.    *)
(* BundleInv says what a bundle that was vouched for, or is about to be,   *)
(* carries.  The bundle never touches the key files, so the two are proved *)
(* one after the other.                                                    *)

KeyFiles == Keys \cup {Nil, Torn}
Steps == {"idle", "priv", "pub", "chmod", "log", "done"}

KeyringType ==
    /\ priv \in KeyFiles /\ pub \in KeyFiles /\ private \in BOOLEAN
    /\ log \in Seq(KeyFiles)
    /\ keygen \in [step : Steps, mode : {"create", "rotate"}, key : KeyFiles]
    /\ keygen.step # "idle" => keygen.key \in Keys
    /\ drawn \subseteq Keys

\* The key drawn is fresh: no keygen has announced it.
DrawnIsFresh ==
    /\ created \cup rotated \subseteq drawn
    /\ keygen.step # "idle" => keygen.key \in drawn \ (created \cup rotated)

\* What the steps taken so far have left in the files.
FilesFollowTheSteps ==
    /\ keygen.step \in {"pub", "chmod", "log", "done"} => priv \in {keygen.key, Nil}
    /\ keygen.step \in {"chmod", "log", "done"} => pub \in {keygen.key, Nil}
    /\ keygen.step \in {"priv", "pub"} /\ keygen.mode = "create" => pub = Nil
    /\ keygen.step = "log" => keygen.mode = "rotate"

MismatchIsExplained ==
    keygen.step \in {"idle", "priv"} /\ priv \in Keys /\ pub \in Keys /\ priv # pub => priv \in abandoned

UnloggedIsExplained ==
    keygen.step \in {"idle", "priv", "pub"} /\ pub \in Keys \ (created \cup abandoned) =>
        \E i \in DOMAIN log : log[i] = pub

PrivateStaysPrivate ==
    /\ keygen.step \in {"log", "done"} /\ priv = keygen.key => private
    /\ priv \in created \cup rotated => private

RotationsAreLogged ==
    /\ \A k \in rotated : \E i \in DOMAIN log : log[i] = k
    /\ keygen.step = "done" /\ keygen.mode = "rotate" => \E i \in DOMAIN log : log[i] = keygen.key

KeyringInv ==
    /\ KeyringType /\ DrawnIsFresh /\ FilesFollowTheSteps
    /\ MismatchIsExplained /\ UnloggedIsExplained /\ PrivateStaysPrivate /\ RotationsAreLogged

-----------------------------------------------------------------------------
LEMMA KeyringInvInit == KeygenInit => KeyringInv
<1> SUFFICES ASSUME KeygenInit PROVE KeyringInv
  OBVIOUS
<1>1. keygen.step = "idle" /\ keygen \in [step : Steps, mode : {"create", "rotate"}, key : KeyFiles]
  BY DEF KeygenInit, NoKeygen, Steps, KeyFiles
<1>2. KeyringType
  <2>1. priv \in KeyFiles /\ pub \in KeyFiles /\ private \in BOOLEAN
    BY DEF KeygenInit, KeyFiles
  <2>2. log \in Seq(KeyFiles)
    BY DEF KeygenInit
  <2>3. QED
    BY <1>1, <2>1, <2>2 DEF KeygenInit, KeyringType
<1>3. DrawnIsFresh /\ FilesFollowTheSteps
  BY <1>1 DEF KeygenInit, DrawnIsFresh, FilesFollowTheSteps
<1>4. MismatchIsExplained /\ UnloggedIsExplained /\ PrivateStaysPrivate /\ RotationsAreLogged
  BY <1>1, FilesAreNoKeys
  DEF KeygenInit, MismatchIsExplained, UnloggedIsExplained, PrivateStaysPrivate, RotationsAreLogged
<1>5. QED
  BY <1>2, <1>3, <1>4 DEF KeyringInv

\* A line appended to the log leaves the lines before it.
LEMMA LogGrows ==
  ASSUME NEW x \in KeyFiles, log \in Seq(KeyFiles), log' = Append(log, x)
  PROVE  /\ log' \in Seq(KeyFiles)
         /\ \E i \in DOMAIN log' : log'[i] = x
         /\ \A k : (\E i \in DOMAIN log : log[i] = k) => \E i \in DOMAIN log' : log'[i] = k
<1>1. log' \in Seq(KeyFiles) /\ Len(log') = Len(log) + 1 /\ Len(log) \in Nat
  OBVIOUS
<1>2. log'[Len(log) + 1] = x /\ \A i \in 1..Len(log) : log'[i] = log[i]
  OBVIOUS
<1>3. DOMAIN log = 1..Len(log) /\ DOMAIN log' = 1..(Len(log) + 1)
  BY <1>1
<1>4. QED
  BY <1>1, <1>2, <1>3

\* Each step of a keygen keeps the invariant.
LEMMA KeygenStepKeeps == KeyringInv /\ KeygenStep => KeyringInv'
<1> SUFFICES ASSUME KeyringInv, KeygenStep PROVE KeyringInv'
  OBVIOUS
<1> USE FilesAreNoKeys DEF KeyringInv, KeyringType, KeyFiles, Steps, DrawnIsFresh,
        FilesFollowTheSteps, MismatchIsExplained, UnloggedIsExplained, PrivateStaysPrivate,
        RotationsAreLogged, At, Goto
<1>1. ASSUME NEW mode \in {"create", "rotate"}, BeginKeygen(mode) PROVE KeyringInv'
  BY <1>1 DEF BeginKeygen, MayCreate, MayRotate
<1>2. CASE WritePrivate
  BY <1>2 DEF WritePrivate
<1>3. CASE WritePublic
  BY <1>3 DEF WritePublic
<1>4. CASE ChmodPrivate
  BY <1>4 DEF ChmodPrivate
<1>5. CASE AppendLog
  BY <1>5, LogGrows DEF AppendLog
<1>6. CASE Announce
  BY <1>6 DEF Announce, NoKeygen
<1>7. CASE AbandonKeygen
  <2>1. keygen.key \in Keys /\ abandoned' = abandoned \cup {keygen.key} /\ keygen' = NoKeygen
        /\ drawn' = drawn /\ created' = created /\ rotated' = rotated
    BY <1>7 DEF AbandonKeygen
  <2>2. priv' \in KeyFiles /\ pub' \in KeyFiles /\ private' \in BOOLEAN
    BY <1>7, <2>1 DEF AbandonKeygen
  <2>3. log' = log \/ log' = Append(log, Torn)
    BY <1>7 DEF AbandonKeygen
  <2>4. /\ log' \in Seq(KeyFiles) /\ RotationsAreLogged'
        /\ \A k : (\E i \in DOMAIN log : log[i] = k) => \E i \in DOMAIN log' : log'[i] = k
    <3>1. CASE log' = log
      BY <2>1, <3>1 DEF NoKeygen
    <3>2. CASE log' = Append(log, Torn)
      BY <2>1, <3>2, LogGrows DEF NoKeygen
    <3>3. QED
      BY <2>3, <3>1, <3>2
  <2>5. KeyringType'
    BY <2>1, <2>2, <2>4 DEF NoKeygen
  <2>6. DrawnIsFresh' /\ FilesFollowTheSteps'
    BY <2>1 DEF NoKeygen
  <2>7. MismatchIsExplained'
    BY <1>7, <2>1 DEF AbandonKeygen, NoKeygen
  <2>8. PrivateStaysPrivate'
    BY <1>7, <2>1 DEF AbandonKeygen, NoKeygen
  <2>9. UnloggedIsExplained'
    <3>1. pub' \in Keys => pub' = pub
      BY <1>7 DEF AbandonKeygen
    <3>2. QED
      BY <2>1, <2>4, <3>1 DEF NoKeygen
  <2>10. QED
    BY <2>4, <2>5, <2>6, <2>7, <2>8, <2>9
<1>8. QED
  BY <1>1, <1>2, <1>3, <1>4, <1>5, <1>6, <1>7 DEF KeygenStep

\* So does what others do to the key files, and so does the bundle, which leaves them alone.
LEMMA KeyringInvNext == KeyringInv /\ [CustodyNext]_keyringVars => KeyringInv'
<1> SUFFICES ASSUME KeyringInv, [CustodyNext]_keyringVars PROVE KeyringInv'
  OBVIOUS
<1> USE FilesAreNoKeys DEF KeyringInv, KeyringType, KeyFiles, DrawnIsFresh,
        FilesFollowTheSteps, MismatchIsExplained, UnloggedIsExplained, PrivateStaysPrivate,
        RotationsAreLogged
<1>1. CASE KeygenStep
  BY <1>1, KeygenStepKeeps
<1>2. CASE LosePrivate
  BY <1>2 DEF LosePrivate
<1>3. CASE LosePublic
  BY <1>3 DEF LosePublic
<1>4. CASE UNCHANGED keyVars
  BY <1>4 DEF keyVars
<1>5. KeygenStep \/ LosePrivate \/ LosePublic \/ UNCHANGED keyVars
  BY DEF CustodyNext, keyringVars, Generate, FinishUnsigned, SignBundle, CheckAnchor,
     EditEnvelope, DamageSignature, RemoveBundle
<1>6. QED
  BY <1>1, <1>2, <1>3, <1>4, <1>5

LEMMA KeyringInvHolds == CustodySpec => []KeyringInv
<1>1. CustodyInit => KeyringInv
  BY KeyringInvInit DEF CustodyInit
<1>2. QED
  BY <1>1, KeyringInvNext, PTL DEF CustodySpec

\* Key files that do not match, and a public key that neither create announced nor the
\* log names, are the trace of a keygen that failed or died, and a private key that was announced is readable by its owner only: for
\* every number of keygens, failures and lost files.
THEOREM MismatchExplained == CustodySpec => []MismatchMeansAFailedKeygen
<1>1. KeyringInv => MismatchMeansAFailedKeygen
  BY DEF KeyringInv, MismatchIsExplained, UnloggedIsExplained, PrivateStaysPrivate,
         MismatchMeansAFailedKeygen, At
<1>2. QED
  BY <1>1, KeyringInvHolds, PTL

\* One public key takes the place of another only in a rotation, and what was announced as
\* rotated to is in the log (create_keypair, append_rotation_log).
THEOREM CustodyIsAChain == CustodySpec => ChainOfCustody
<1> DEFINE Link ==
      /\ pub \in Keys /\ pub' \in Keys \ {pub} => keygen.mode = "rotate"
      /\ \A k \in rotated' : \E i \in DOMAIN log' : log'[i] = k
<1>1. ASSUME KeyringInv, KeyringInv', CustodyNext
      PROVE  Link
  <2>1. ASSUME pub \in Keys, pub' \in Keys \ {pub}
        PROVE  keygen.mode = "rotate"
    <3>1. WritePublic
      BY <2>1, <1>1, FilesAreNoKeys
      DEF CustodyNext, KeygenStep, BeginKeygen, WritePrivate, ChmodPrivate, AppendLog, Announce,
          AbandonKeygen, LosePrivate, LosePublic, Generate, FinishUnsigned, SignBundle, CheckAnchor,
          EditEnvelope, DamageSignature, RemoveBundle, keyVars
    <3>2. keygen.mode # "create"
      BY <3>1, <2>1, <1>1, FilesAreNoKeys DEF WritePublic, At, KeyringInv, FilesFollowTheSteps
    <3>3. QED
      BY <3>2, <1>1 DEF KeyringInv, KeyringType
  <2>2. QED
    BY <2>1, <1>1 DEF KeyringInv, RotationsAreLogged
<1>2. KeyringInv /\ KeyringInv' /\ [CustodyNext]_keyringVars => [Link]_keyringVars
  BY <1>1
<1>3. QED
  BY <1>2, KeyringInvHolds, PTL DEF CustodySpec, ChainOfCustody

-----------------------------------------------------------------------------
(* The bundle.                                                             *)

SignedWith(k) == bundle.sig = [key |-> k, envelope |-> bundle.envelope]

Bundles ==
    [made : BOOLEAN, profile : {"dev", "cert"}, envelope : 0..LastEdit,
     sig : {Nil, Torn} \cup [key : Keys, envelope : 0..LastEdit],
     runtime : BOOLEAN, findings : SUBSET {"Prerelease", "Content"}]

BundleType ==
    /\ bundle \in Bundles
    /\ signing \in Keys \cup {Nil} /\ vouched \in BOOLEAN

BundleInv ==
    /\ BundleType
    /\ signing # Nil => bundle.made /\ ~vouched /\ SignedWith(signing)
    /\ vouched => /\ bundle.made /\ Releasable
                  /\ bundle.sig = Nil \/ \E k \in Keys : SignedWith(k)

LEMMA NoBundleIsABundle == NoBundle \in Bundles /\ ~NoBundle.made
BY SignaturesAreRecords DEF NoBundle, Bundles

LEMMA BundleInvInit == CustodyInit => BundleInv
<1> SUFFICES ASSUME CustodyInit PROVE BundleInv
  OBVIOUS
<1>1. bundle = NoBundle /\ signing = Nil /\ vouched = FALSE
  BY DEF CustodyInit
<1>2. BundleType
  BY <1>1, NoBundleIsABundle DEF BundleType
<1>3. QED
  BY <1>1, <1>2 DEF BundleInv

LEMMA BundleInvNext == KeyringInv /\ BundleInv /\ [CustodyNext]_keyringVars => BundleInv'
<1> SUFFICES ASSUME KeyringInv, BundleInv, [CustodyNext]_keyringVars PROVE BundleInv'
  OBVIOUS
<1> USE FilesAreNoKeys, SignaturesAreRecords
    DEF BundleInv, BundleType, Bundles, SignedWith, Releasable, Tolerated
<1>1. CASE UNCHANGED custodyVars
  BY <1>1 DEF custodyVars
<1>2. CASE Generate
  <2>1. PICK p \in {"dev", "cert"}, r \in BOOLEAN, f \in SUBSET {"Prerelease", "Content"} :
          bundle' = [NoBundle EXCEPT !.made = TRUE, !.profile = p, !.runtime = r, !.findings = f]
    BY <1>2 DEF Generate
  <2>2. bundle' \in Bundles
    BY <2>1, NoBundleIsABundle DEF Bundles
  <2>3. signing = Nil /\ vouched = FALSE /\ signing' = signing /\ vouched' = vouched
    BY <1>2 DEF Generate
  <2>4. QED
    BY <2>2, <2>3
<1>3. CASE FinishUnsigned
  BY <1>3 DEF FinishUnsigned
<1>4. CASE SignBundle
  BY <1>4 DEF SignBundle
<1>5. CASE CheckAnchor
  BY <1>5 DEF CheckAnchor
<1>6. CASE EditEnvelope
  <2>1. signing' = Nil /\ vouched' = FALSE /\ bundle.envelope + 1 \in 0..LastEdit
    BY <1>6 DEF EditEnvelope
  <2>2. PICK f \in SUBSET {"Prerelease", "Content"} :
          bundle' = [bundle EXCEPT !.envelope = @ + 1, !.findings = f]
    BY <1>6 DEF EditEnvelope
  <2>3. bundle' \in Bundles
    BY <2>1, <2>2
  <2>4. QED
    BY <2>1, <2>3
<1>7. CASE DamageSignature
  <2>1. signing' = Nil /\ vouched' = FALSE
    BY <1>7 DEF DamageSignature
  <2>2. PICK x \in {Nil, Torn} : bundle' = [bundle EXCEPT !.sig = x]
    BY <1>7 DEF DamageSignature
  <2>3. QED
    BY <2>1, <2>2
<1>8. CASE RemoveBundle
  <2>1. bundle' = NoBundle /\ signing' = Nil /\ vouched' = FALSE
    BY <1>8 DEF RemoveBundle
  <2>2. QED
    BY <2>1, NoBundleIsABundle
<1>9. QED
  BY <1>1, <1>2, <1>3, <1>4, <1>5, <1>6, <1>7, <1>8 DEF CustodyNext, keyringVars, custodyVars

LEMMA BundleInvHolds == CustodySpec => []BundleInv
BY BundleInvInit, BundleInvNext, KeyringInvHolds, PTL DEF CustodySpec

\* How verify answers to a vouched bundle, asked with the key it resolves.
LEMMA VerdictOnVouched ==
  ASSUME BundleInv, vouched, NEW call \in Calls,
         bundle.sig # Nil \/ ~call.strict
  PROVE  /\ ResolvedKey(call) # Torn /\ (ResolvedKey(call) = None \/ SignedBy(ResolvedKey(call)))
              => Terminal(call) = "VERIFY_OK"
         /\ ResolvedKey(call) \in Keys /\ ~SignedBy(ResolvedKey(call))
              => Terminal(call) = "VERIFY_FAIL"
<1> DEFINE key == ResolvedKey(call)
<1>1. bundle.made /\ ~bundle.runtime /\ bundle.findings \subseteq Tolerated
  BY DEF BundleInv, Releasable
<1>2. bundle.sig # Torn
  BY SignaturesAreRecords, FilesAreNoKeys DEF BundleInv, BundleType, Bundles, SignedWith
<1>3. ~StrictRefuses(call) /\ ~LibraryErrs(key)
  BY <1>1, <1>2 DEF StrictRefuses, LibraryErrs, Calls
<1>4. ASSUME key # Torn, key = None \/ SignedBy(key)
      PROVE  Terminal(call) = "VERIFY_OK"
  BY <1>1, <1>3, <1>4 DEF Terminal, LibraryFindings
<1>5. ASSUME key \in Keys, ~SignedBy(key)
      PROVE  Terminal(call) = "VERIFY_FAIL"
  BY <1>1, <1>3, <1>5, NoneIsNoFile, FilesAreNoKeys DEF Terminal, LibraryFindings, Tolerated
<1>6. QED
  BY <1>4, <1>5

\* What generate has vouched for verifies for as long as nobody touches it, by itself while
\* the committed key is the one that signed it, with that key for ever; and it fails with
\* any other (cmd_verify, resolve_verify_key_path, check_pubkey_anchor).
THEOREM VouchedVerifies == CustodySpec => []GeneratedVerifies
<1>1. ASSUME KeyringInv, BundleInv, vouched
      PROVE  GeneratedVerifies
  <2> DEFINE plain == [strict |-> FALSE, key |-> None]
             named == [strict |-> TRUE, key |-> bundle.sig.key]
  <2>1. plain \in Calls /\ plain.strict = FALSE /\ plain.key = None
    BY DEF Calls
  <2>2. ASSUME bundle.sig # Nil
        PROVE  /\ bundle.sig.key \in Keys /\ SignedBy(bundle.sig.key)
               /\ \A k \in Keys \ {bundle.sig.key} : ~SignedBy(k)
    <3>1. PICK k \in Keys : bundle.sig = [key |-> k, envelope |-> bundle.envelope]
      BY <1>1, <2>2 DEF BundleInv, SignedWith
    <3>2. bundle.sig.key = k
      BY <3>1
    <3>3. ASSUME NEW other \in Keys, SignedBy(other) PROVE other = k
      BY <3>1, <3>3 DEF SignedBy
    <3>4. QED
      BY <3>1, <3>2, <3>3 DEF SignedBy
  <2>3. bundle.sig = Nil \/ pub \in {Nil, bundle.sig.key} => Terminal(plain) = "VERIFY_OK"
    BY <1>1, <2>1, <2>2, VerdictOnVouched, FilesAreNoKeys, NoneIsNoFile DEF ResolvedKey
  <2>4. ASSUME bundle.sig # Nil, pub \in Keys \ {bundle.sig.key}
        PROVE  Terminal(plain) = "VERIFY_FAIL"
    BY <1>1, <2>1, <2>2, <2>4, VerdictOnVouched, FilesAreNoKeys DEF ResolvedKey
  <2>5. ASSUME bundle.sig # Nil
        PROVE  Terminal(named) = "VERIFY_OK"
    <3>1. named \in Calls /\ named.key = bundle.sig.key /\ ResolvedKey(named) = bundle.sig.key
      BY <2>2, <2>5, NoneIsNoFile DEF Calls, ResolvedKey
    <3>2. QED
      BY <1>1, <2>2, <2>5, <3>1, VerdictOnVouched, FilesAreNoKeys
  <2>6. QED
    BY <2>3, <2>4, <2>5 DEF GeneratedVerifies
<1>2. KeyringInv /\ BundleInv => GeneratedVerifies
  BY <1>1 DEF GeneratedVerifies
<1>3. QED
  BY <1>2, KeyringInvHolds, BundleInvHolds, PTL

\* The human and JSON formats and the JSONL stream pass the same bundles, whatever is in
\* the bundle and the key files, and differ in the exit code of an error only.
THEOREM FormatsAlwaysAgree == CustodySpec => []FormatsAgree
<1>1. FormatsAgree
  <2> SUFFICES ASSUME NEW call \in Calls
               PROVE  /\ HumanExit(call) = 0 <=> JsonlExit(call) = 0
                      /\ HumanExit(call) # JsonlExit(call) => Terminal(call) = "VERIFY_ERROR"
    BY DEF FormatsAgree
  <2>1. Terminal(call) = "VERIFY_OK" => HumanExit(call) = 0 /\ JsonlExit(call) = 0
    BY DEF Terminal, JsonlExit, HumanExit, HumanVerdict
  <2>2. Terminal(call) = "VERIFY_FAIL" => HumanExit(call) = 2 /\ JsonlExit(call) = 2
    BY DEF Terminal, JsonlExit, HumanExit, HumanVerdict
  <2>3. Terminal(call) = "VERIFY_ERROR" => HumanExit(call) \in {1, 2} /\ JsonlExit(call) = 1
    BY DEF Terminal, JsonlExit, HumanExit, HumanVerdict
  <2>4. Terminal(call) \in {"VERIFY_OK", "VERIFY_FAIL", "VERIFY_ERROR"}
    BY DEF Terminal
  <2>5. QED
    BY <2>1, <2>2, <2>3, <2>4
<1>2. QED
  BY <1>1, PTL

=============================================================================
