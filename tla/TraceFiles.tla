----------------------------- MODULE TraceFiles -----------------------------
(***************************************************************************)
(* The trace: the TOML files of each trace root, what the validation and   *)
(* the evidence gates say of them, and `trace --backfill-uuids`, which     *)
(* rewrites them one file after the other and may die between two.         *)
(*                                                                         *)
(* An entry has the fields the checks tell apart: `given` holds which of   *)
(* its other fields are filled in ("test" and "review" are verification    *)
(* methods, the rest belongs to derived requirements).                     *)
(***************************************************************************)
EXTENDS Naturals, Sequences, FiniteSets, SequencesExt

CONSTANTS
    Roots,          \* the trace roots, in the order they are given
    Placeholders,   \* uids that are no UUID, as the init templates write them
    KnownSurfaces,  \* the catalogue of claimable surfaces
    Unreadable,     \* what is on the disk is no trace
    MaxDraws,       \* bound: edits and deaths of a backfill
    NoValue         \* an absent uid, owner, root or command

VARIABLES
    disk,       \* root -> its files, NoValue if it is missing, or Unreadable
    fill,       \* the running backfill: its root, its files and the writes to come
    begun,      \* the disk when the first backfill since the last edit began
    died,       \* a backfill has died since
    draws       \* what tells the uids drawn before an edit or a death from later ones

traceVars == <<disk, fill, begun, died, draws>>

Layers == <<"SYS", "HLR", "LLR", "TEST", "DERIVED">>
LayerSet == {Layers[i] : i \in DOMAIN Layers}

Readable(root) == disk[root] # NoValue /\ disk[root] # Unreadable

IsUuid(uid) == uid \notin Placeholders \cup {NoValue}

\* The entries of some of the roots, given by their indices, each with its place.
Item(n, layer, i) == [layer |-> layer, at |-> <<n, layer, i>>, entry |-> disk[Roots[n]][layer][i]]
ItemsOf(n) == UNION {{Item(n, layer, i) : i \in DOMAIN disk[Roots[n]][layer]} : layer \in LayerSet}
Items(ns) == UNION {ItemsOf(n) : n \in {n \in ns : Readable(Roots[n])}}

-----------------------------------------------------------------------------
(* validate_trace_links_with_policy: a policy is the set of its switches.   *)

Dals == {"A", "B", "C", "D"}

\* EvidencePolicy::for_dal, as far as it is about the trace.
ForDal(dal) ==
    {"uids"}
    \cup (IF dal = "D" THEN {} ELSE {"owners", "hlr_methods", "hlr_sys", "derived"})
    \cup (IF dal \in {"A", "B"} THEN {"llr_methods"} ELSE {})

\* The register closure: what is skipped is no error unless the policy says so.
Skipped(item, policy) ==
    \/ item.entry.owner = NoValue
    \/ item.entry.uid = NoValue
    \/ "uids" \in policy /\ ~IsUuid(item.entry.uid)

Registered(items, policy) == {x \in items : ~Skipped(x, policy)}

Clash(x, y) ==
    \/ x.entry.uid = y.entry.uid
    \/ x.layer = y.layer /\ x.entry.owner = y.entry.owner /\ x.entry.id = y.entry.id

Clashes(items, policy) == \E x, y \in Registered(items, policy) : x # y /\ Clash(x, y)

RegisterFails(items, policy) ==
    \/ \E x \in items :
          \/ x.entry.owner = NoValue /\ "owners" \in policy
          \/ x.entry.owner # NoValue /\ ~IsUuid(x.entry.uid) /\ "uids" \in policy
    \/ Clashes(items, policy)

ParentLayer == [HLR |-> "SYS", LLR |-> "HLR", TEST |-> "LLR"]
Linked == DOMAIN ParentLayer

\* Only a test is tied to the owner of what it verifies without exception.
MayTrace(layer, from, to) ==
    from = to \/ (layer # "TEST" /\ to \in {"soi", "project"})

\* check_link, by the uid_index.  Of a uid registered twice the first stands, but then
\* the validation fails of that.
LinkFails(items, policy, item, link) ==
    \/ ~IsUuid(link)
    \/ ~\E x \in Registered(items, policy) :
          /\ x.entry.uid = link
          /\ x.layer = ParentLayer[item.layer]
          /\ MayTrace(item.layer, item.entry.owner, x.entry.owner)

Repeats(seq) == \E i, j \in DOMAIN seq : i # j /\ seq[i] = seq[j]

WantsMethods(policy, layer) ==
    \/ layer = "HLR" /\ "hlr_methods" \in policy
    \/ layer = "LLR" /\ "llr_methods" \in policy

\* The loops over HLRs, LLRs and tests.
EntryFails(items, policy, item) ==
    LET e == item.entry IN
    /\ item.layer \in Linked
    /\ \/ Repeats(e.links)
       \/ \E i \in DOMAIN e.links : LinkFails(items, policy, item, e.links[i])
       \/ e.links = <<>> /\ (item.layer = "LLR" \/ (item.layer = "HLR" /\ "hlr_sys" \in policy))
       \/ WantsMethods(policy, item.layer) /\ e.given \cap {"test", "review"} = {}

DerivedFails(policy, item) ==
    item.layer = "DERIVED" /\ "derived" \in policy
    /\ ~({"rationale", "safety_impact", "disposition", "reviewed"} \subseteq item.entry.given)

\* surface_errors: every known surface is claimed, and nothing else.
SurfacesFail(items) ==
    KnownSurfaces # UNION {x.entry.surfaces : x \in {x \in items : x.layer = "HLR"}}

LinksFail(items, policy) ==
    \/ "surfaces" \in policy /\ SurfacesFail(items)
    \/ \E x \in items :
          \/ EntryFails(items, policy, x)
          \/ DerivedFails(policy, x)

Validates(items, policy) == ~RegisterFails(items, policy) /\ ~LinksFail(items, policy)

-----------------------------------------------------------------------------
(* evaluate_trace_evidence over some roots at once, and its callers.       *)

Adopted(ns) == {n \in ns : disk[Roots[n]] # NoValue}

EvidenceState(ns, policy) ==
    IF ns = {} THEN "NotConfigured"
    ELSE IF \E n \in ns : disk[Roots[n]] = Unreadable THEN "Invalid"
    ELSE IF Adopted(ns) = {} THEN "NotAdopted"
    ELSE IF Items(ns) = {} THEN "Empty"
    ELSE IF Validates(Items(ns), policy) THEN "Valid" ELSE "Invalid"

\* aggregate_states, over the states of the roots one by one (generate).
AggregateState(policy) ==
    LET states == {EvidenceState({n}, policy) : n \in DOMAIN Roots} IN
    IF "Invalid" \in states THEN "Invalid"
    ELSE IF "Empty" \in states THEN "Empty"
    ELSE IF "NotAdopted" \in states THEN "NotAdopted"
    ELSE IF states = {} THEN "NotConfigured" ELSE "Valid"

\* validate_trace_links_phase: the strict run stops at the first bad root.
PhasePasses(policy) == \A n \in DOMAIN Roots : EvidenceState({n}, policy) = "Valid"

\* cmd_trace --validate, without the selectors.
ValidatePasses(policy) == DOMAIN Roots # {} /\ PhasePasses(policy)

\* trace_check of the doctor, which looks at all the roots at once.
\* Below level C the lack of any evidence is a warning.
DoctorPasses(dal) ==
    LET state == EvidenceState(DOMAIN Roots, ForDal(dal)) IN
    state = "Valid" \/ (dal = "D" /\ state # "Invalid")

-----------------------------------------------------------------------------
(* backfill_uuids                                                           *)

\* The uid an entry is given: no two runs that differ draw the same.
Drawn == ToSet(Roots) \X LayerSet \X Nat \X Nat
Fresh(root, layer, i) == <<root, layer, i, draws>>

ASSUME DrawnIsNoPlaceholder == (Placeholders \cup {NoValue}) \cap Drawn = {}

Minted(root, layer, seq) ==
    [i \in DOMAIN seq |-> IF IsUuid(seq[i].uid) THEN seq[i]
                          ELSE [seq[i] EXCEPT !.uid = Fresh(root, layer, i)]]

Bearers(seq, p) == {i \in DOMAIN seq : seq[i].uid = p}

\* merge_remap panics: nothing has been written yet.
Collides(files) ==
    \E p \in Placeholders : \E l, m \in LayerSet :
        l # m /\ Bearers(files[l], p) # {} /\ Bearers(files[m], p) # {}

\* Where a placeholder went: within a layer the last entry that bore it.
Remapped(root, files, link) ==
    IF link \notin Placeholders \/ \A l \in LayerSet : Bearers(files[l], link) = {} THEN link
    ELSE LET l == CHOOSE m \in LayerSet : Bearers(files[m], link) # {} IN
         Fresh(root, l, CHOOSE i \in Bearers(files[l], link) : \A j \in Bearers(files[l], link) : j <= i)

Relinked(root, files, layer, seq) ==
    IF layer \notin Linked THEN seq
    ELSE [i \in DOMAIN seq |->
            [seq[i] EXCEPT !.links = [k \in DOMAIN @ |-> Remapped(root, files, @[k])]]]

\* Faulty variant: the references of the tests keep the placeholders.
Filled_TestsKeepTheirs(root, files) ==
    [l \in LayerSet |-> LET seq == Minted(root, l, files[l]) IN
        IF l = "TEST" THEN seq ELSE Relinked(root, files, l, seq)]

Filled(root, files) ==
    [l \in LayerSet |-> Relinked(root, files, l, Minted(root, l, files[l]))]

NoFill == [at |-> 0, files |-> NoValue, write |-> {}]

\* The next root of the command that exists is read whole and rewritten in memory.
\* A root that cannot be read ends the command, and so does a collision.
ReadRoot(after) ==
    LET present == {n \in DOMAIN Roots : n > after /\ disk[Roots[n]] # NoValue}
        first == {n \in present : \A m \in present : n <= m}
        next == CHOOSE n \in first : TRUE
        root == Roots[next]
        files == Filled(root, disk[root]) IN
    IF first = {} \/ disk[root] = Unreadable \/ Collides(disk[root]) THEN NoFill
    ELSE [at |-> next, files |-> files, write |-> {l \in LayerSet : files[l] # disk[root][l]}]

BeginBackfill ==
    /\ fill.at = 0
    /\ fill' = ReadRoot(0)
    /\ fill'.at # 0
    /\ UNCHANGED <<disk, begun, died, draws>>

\* write_trace_file, in the order of the layers.
WriteFile ==
    /\ fill.at # 0
    /\ \E i \in DOMAIN Layers :
        /\ Layers[i] \in fill.write /\ \A j \in 1..(i - 1) : Layers[j] \notin fill.write
        /\ disk' = [disk EXCEPT ![Roots[fill.at]][Layers[i]] = fill.files[Layers[i]]]
        /\ fill' = [fill EXCEPT !.write = @ \ {Layers[i]}]
    /\ UNCHANGED <<begun, died, draws>>

NextRoot ==
    /\ fill.at # 0 /\ fill.write = {}
    /\ fill' = ReadRoot(fill.at)
    /\ UNCHANGED <<disk, begun, died, draws>>

\* The command is killed, or a file cannot be written.
BackfillDies ==
    /\ fill.at # 0 /\ draws < MaxDraws
    /\ fill' = NoFill
    /\ died' = TRUE /\ draws' = draws + 1
    /\ UNCHANGED <<disk, begun>>

\* People change a file while no backfill runs.
Edit(root, files) ==
    /\ fill.at = 0 /\ draws < MaxDraws
    /\ disk' = [disk EXCEPT ![root] = files]
    /\ disk' # disk
    /\ begun' = disk' /\ died' = FALSE /\ draws' = draws + 1
    /\ UNCHANGED fill

-----------------------------------------------------------------------------
\* The entry a link of a root names, or NoValue: within the root, by uid, whatever its
\* owner says.
Bearing(files, uid) == UNION {{l} \X Bearers(files[l], uid) : l \in LayerSet}
Target(files, uid) ==
    LET bearing == Bearing(files, uid) IN
    IF uid # NoValue /\ \E x \in bearing : bearing = {x} THEN CHOOSE x \in bearing : TRUE ELSE NoValue

\* A backfill redirects no reference: a link that named one entry names that entry when
\* the command is done, however many runs died before; while one is under way, or after
\* one has died between two files, it may name nothing, and never another entry.
LinksSurviveBackfill ==
    \A n \in DOMAIN Roots :
        LET root == Roots[n] IN
        Readable(root) =>
            \A l \in Linked : \A i \in DOMAIN disk[root][l] : \A k \in DOMAIN disk[root][l][i].links :
                LET was == Target(begun[root], begun[root][l][i].links[k])
                    is == Target(disk[root], disk[root][l][i].links[k]) IN
                was = NoValue \/ is = was \/ (is = NoValue /\ (died \/ fill.at # 0))
=============================================================================
