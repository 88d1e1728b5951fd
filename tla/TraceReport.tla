----------------------------- MODULE TraceReport -----------------------------
(***************************************************************************)
(* The requirement report of `check` and the back-links of the bundle: two *)
(* readers of the selectors of the tests.  A function under test is the    *)
(* path of its name, a selector a path of the same kind.                   *)
(***************************************************************************)
EXTENDS TraceFiles

CONSTANTS
    Fns,        \* the tests that may run
    Written     \* the names of tests the text of the sources shows

ASSUME FnsAreFinite == IsFiniteSet(Fns)

VARIABLE ran    \* test -> "ok", "FAILED", "ignored", or NoValue: it did not run

Reported == {f \in Fns : ran[f] # NoValue}

-----------------------------------------------------------------------------
(* graph_from_trace_files and ReportView::from_graph                        *)

Node(layer) == IF layer = "TEST" THEN "test" ELSE "requirement"

\* The graph takes no entry without a uid, no uid or human id twice, no edge twice.
GraphBuilds(items) ==
    /\ \A x \in items :
          /\ x.entry.uid # NoValue
          /\ x.layer # "DERIVED" => ~Repeats(x.entry.links)
    /\ \A x, y \in items : x # y =>
          /\ x.entry.uid # y.entry.uid
          /\ Node(x.layer) = Node(y.layer) => x.entry.id # y.entry.id

Of(items, layer) == {x \in items : x.layer = layer}

\* requirement_links, test_links: the first bad edge condemns the entry.
LinkGap(items, item) ==
    \E k \in DOMAIN item.entry.links :
        \/ item.layer \notin Linked
        \/ ~\E x \in items :
              x.entry.uid = item.entry.links[k] /\ x.layer = ParentLayer[item.layer]

\* index_children: an entry with a bad edge is nobody's child.
Children(items, uid) ==
    {x \in items : x.layer \in Linked /\ ~LinkGap(items, x)
                            /\ \E k \in DOMAIN x.entry.links : x.entry.links[k] = uid}

-----------------------------------------------------------------------------
(* build_test_diag                                                          *)

\* any_file_matches: a test of that name, in a file whose path has the prefix.
Resolves(sel) ==
    \E f \in Written : Last(f) = Last(sel) /\ (Len(sel) > 1 => sel[1] \in ToSet(Front(f)))

\* ends_with_fn
Selected(sel) == {f \in Reported : IsSuffix(sel, f)}

\* Faulty variant: an ambiguous selector counts if one of its tests passed.
SelectorOutcome_AnyPass(sel) ==
    IF Selected(sel) = {} THEN "unmatched"
    ELSE IF \E f \in Selected(sel) : ran[f] = "ok" THEN "ok"
    ELSE ran[CHOOSE f \in Selected(sel) : TRUE]

SelectorOutcome(sel) ==
    IF Selected(sel) = {} THEN "unmatched"
    ELSE IF Cardinality(Selected(sel)) > 1 THEN "ambiguous"
    ELSE ran[CHOOSE f \in Selected(sel) : TRUE]

\* single_selector_status and multi_selector::status give the same verdicts.
SelectorsStatus(sels) ==
    LET outcomes == {SelectorOutcome(s) : s \in sels} IN
    IF outcomes \cap {"FAILED", "ambiguous", "unmatched"} # {} THEN "Gap"
    ELSE IF "ignored" \in outcomes THEN "Skip" ELSE "Pass"

TestStatus(items, item) ==
    IF \/ LinkGap(items, item)
       \/ \E s \in item.entry.selectors : ~Resolves(s)
       \/ item.entry.selectors = {}
       \/ item.entry.links = <<>>
    THEN "Gap" ELSE SelectorsStatus(item.entry.selectors)

-----------------------------------------------------------------------------
(* build_cascade_diag, layer by layer                                       *)

StructuralGap(items, policy, item) ==
    \/ LinkGap(items, item)
    \/ item.layer = "HLR" /\ "hlr_sys" \in policy /\ item.entry.links = <<>>
    \/ item.layer = "LLR" /\ item.entry.links = <<>>
    \/ WantsMethods(policy, item.layer) /\ item.entry.given \cap {"test", "review"} = {}

\* aggregate_child_status
Aggregate(statuses) ==
    IF "Gap" \in statuses THEN "Gap"
    ELSE IF "Pass" \in statuses \/ "Skip" \notin statuses THEN "Pass" ELSE "Skip"

TestRows(items) == [u \in {x.entry.uid : x \in Of(items, "TEST")} |->
    TestStatus(items, CHOOSE x \in Of(items, "TEST") : x.entry.uid = u)]

\* build_layer: `below` has the statuses of the layer under it.
Layer(items, policy, layer, below) ==
    [u \in {x.entry.uid : x \in Of(items, layer)} |->
        LET item == CHOOSE x \in Of(items, layer) : x.entry.uid = u
            children == Children(items, u) IN
        IF StructuralGap(items, policy, item) \/ children = {} THEN "Gap"
        ELSE Aggregate({below[x.entry.uid] : x \in children})]

\* build_corpus_requirement_report: the status of every row.
Report(items, policy) ==
    LET tests == TestRows(items)
        llrs == Layer(items, policy, "LLR", tests)
        hlrs == Layer(items, policy, "HLR", llrs)
        sys == Layer(items, policy, "SYS", hlrs) IN
    [TEST |-> tests, LLR |-> llrs, HLR |-> hlrs, SYS |-> sys]

Rows(items) == {x \in items : x.layer # "DERIVED"}

-----------------------------------------------------------------------------
(* cmd_check_source, once the tests have run.                               *)

CheckRoot == 1      \* the index of the only root it looks at

CheckPolicy(policy) == policy \cup {"hlr_sys", "surfaces"}

CheckPasses(policy) ==
    LET items == Items({CheckRoot})
        report == Report(items, CheckPolicy(policy)) IN
    /\ EvidenceState({CheckRoot}, CheckPolicy(policy)) \notin {"NotConfigured", "NotAdopted", "Empty"}
    /\ Readable(Roots[CheckRoot])
    /\ GraphBuilds(items)
    /\ \A x \in Rows(items) : report[x.layer][x.entry.uid] # "Gap"

(* resolve_llr_backlinks and check_llr_test_selectors, generate and verify. *)

\* The test entries a record of f is tied to.
Hits(items, f) == {x \in Of(items, "TEST") : \E s \in x.entry.selectors : IsPrefix(s, f)}

\* Faulty variant: the first test entry that matches keeps the record.
Backlinks_FirstOnly(items, f) ==
    UNION {ToSet(x.entry.links) : x \in {x \in Hits(items, f) : \A y \in Hits(items, f) : x.at[3] <= y.at[3]}}

Backlinks(items, f) == UNION {ToSet(x.entry.links) : x \in Hits(items, f)}

\* The LLRs the verifier finds without a test record.
UnresolvedLlrs(items) ==
    IF Reported = {} THEN {}
    ELSE {x.entry.uid : x \in {x \in Of(items, "LLR") : x.entry.uid # NoValue /\ "test" \in x.entry.given}}
         \ UNION {Backlinks(items, f) : f \in Reported}

-----------------------------------------------------------------------------
\* The tests that trace to an entry over entries without a bad edge.
Below(items, y) ==
    {x \in items : /\ x.layer \in Linked /\ ParentLayer[x.layer] = y.layer
                   /\ ~LinkGap(items, x)
                   /\ \E k \in DOMAIN x.entry.links : x.entry.links[k] = y.entry.uid}
Beneath(items, y) ==
    LET one == Below(items, y)
        two == UNION {Below(items, x) : x \in one}
        three == UNION {Below(items, x) : x \in two} IN
    {x \in one \cup two \cup three : x.layer = "TEST"}

Green(sels) == sels # {} /\ \A s \in sels : \E f \in Reported : Selected(s) = {f} /\ ran[f] = "ok"

\* A requirement is reported satisfied only on evidence: under it is a test every
\* selector of which ran exactly one function, and it passed; and no function that a test
\* under it selects has failed (build_test_diag, cascade).  An entry with a bad edge is
\* nobody's child, and what is under it counts for nothing above.
PassIsEarned ==
    LET items == Items({CheckRoot}) IN
    Readable(Roots[CheckRoot]) /\ GraphBuilds(items) =>
        \A policy \in {CheckPolicy(ForDal(d)) : d \in Dals} :
            LET report == Report(items, policy) IN
            \A x \in {x \in Rows(items) : report[x.layer][x.entry.uid] = "Pass"} :
                LET tests == IF x.layer = "TEST" THEN {x} ELSE Beneath(items, x) IN
                /\ \E t \in tests : Green(t.entry.selectors)
                /\ \A t \in tests : \A s \in t.entry.selectors : \A f \in Selected(s) : ran[f] # "FAILED"

\* What one gate accepts the next does not reject.  `trace --validate` and the trace
\* phase of `generate` judge the roots one by one and the doctor all of them at once: the
\* doctor accepts what they accept, unless two roots share a uid or, in one layer and
\* with one owner, an id.  And `verify` does not reject for want of test records what
\* `check` accepts, as long as the selectors are the full names of tests that ran: the
\* two match selectors by different rules, by suffix and by prefix, which meet there.
GatesAgree ==
    \A dal \in Dals :
        LET policy == ForDal(dal)
            items == Items({CheckRoot}) IN
        /\ ValidatePasses(policy) <=> AggregateState(policy) = "Valid"
        /\ ValidatePasses(policy) => DoctorPasses(dal) \/ Clashes(Items(DOMAIN Roots), policy)
        /\ (\A t \in Of(items, "TEST") : t.entry.selectors \subseteq Reported)
           /\ CheckPasses(policy)
            => UnresolvedLlrs(items) = {}
=============================================================================
