----------------------------- MODULE Reingestion -----------------------------
(***************************************************************************)
(* What becomes of a source revision's structural graph after it is        *)
(* committed: the approved patches that make it effective                  *)
(* (corpus/effective_graph, the patch half of corpus/approval_boundary),   *)
(* and the comparison with a second ingestion of the same document         *)
(* (corpus/drift, corpus/source_graph/identity).                           *)
(*                                                                         *)
(* A patch is one operation; its digests and those of a graph are the      *)
(* patch and the graph themselves.  Operations and graph validation are    *)
(* those of SourcePatch.                                                   *)
(***************************************************************************)
EXTENDS Integers, FiniteSets

CONSTANTS
    Uids, Kinds, Labels, Texts, NoLabel, Root, MaxOperations,   \* as in SourcePatch
    Numbered,       \* the labels that start with a numbering token
    Locators,       \* records [anchor, semantic, diagnostic]
    MaxDrift        \* bound on the changes between the two ingestions, and the patches

VARIABLES
    committed,          \* the committed parser graph
    extractor,          \* the extractor-output digest of the baseline, if it has one
    patches,            \* the committed patches of the revision, all bound to it
    candidate,          \* what the second ingestion presents
    drift               \* number of changes made to it

driftVars == <<committed, extractor, patches, candidate, drift>>

SP == INSTANCE SourcePatch WITH base <- committed, working <- committed, ops <- {}

PatchUids == {1, 2}
States == {"candidate", "approved", "rejected", "stale"}

\* SourcePatchRecord with one operation.  `recipe` stands for the recipe and the
\* input digest of the record.
Patch(G, u, tag, recipe, state) ==
    [target |-> u, tag |-> tag, bound |-> G, recipe |-> recipe, state |-> state, recomputes |-> TRUE]

-----------------------------------------------------------------------------
(* Patches.                                                                *)

\* apply_operation, for the operations exercised here; "confirm" replaces a
\* text by itself.
Operated(G, p) ==
    CASE p.tag = "confirm" -> G
      [] p.tag = "replace_content" -> SP!Replaced(G, p.target, "curated", G[p.target].label)
      [] p.tag = "remove" -> SP!Without(G, SP!Subtree(G, p.target))

\* Faulty variant: the digest of the graph the patch was reviewed on is not compared.
Applied_Unbound(G, p, recipe) ==
    {H \in {Operated(W, p) : W \in {W \in {G} : p.target \in DOMAIN W}} :
        SP!Valid(G) /\ p.recipe = recipe /\ SP!Valid(H)}

\* apply_patch: no graph, or the one it produces.
Applied(G, p, recipe) ==
    {H \in {Operated(W, p) : W \in {W \in {G} : p.target \in DOMAIN W}} :
        SP!Valid(G) /\ p.recipe = recipe /\ p.bound = G /\ SP!Valid(H)}

Approved == {p \in DOMAIN patches : patches[p].state = "approved"}

\* effective_source_graph: the approved patches one on top of the other, in uid
\* order, against the presented bindings.
EffectiveAfter(recipe) ==
    LET after[n \in {0} \cup PatchUids] ==
            IF n = 0 THEN {committed}
            ELSE IF n \notin Approved THEN after[n - 1]
            ELSE UNION {Applied(G, patches[n], recipe) : G \in after[n - 1]}
    IN after

Effective(recipe) == EffectiveAfter(recipe)[2]

\* validate_effective_curated_content: every approved patch by itself, on the
\* committed graph, against its own bindings.
BoundaryPasses ==
    \A p \in Approved : Applied(committed, patches[p], patches[p].recipe) # {}

-----------------------------------------------------------------------------
(* Identity across ingestions.                                             *)

HasExplicit(node) == node.label \in Numbered \/ node.locator.anchor # NoLabel
ExplicitIdentity(node) == IF node.label \in Numbered THEN node.label ELSE node.locator.anchor

\* structural_key and candidate_key, with fold_tier for the ancestors.
StructuralKey(G) ==
    LET key[u \in DOMAIN G] ==
            LET node == G[u]
            IN IF HasExplicit(node) THEN <<"explicit", node.kind, ExplicitIdentity(node)>>
               ELSE IF node.parent = Root THEN <<"fingerprint", node.kind, node.label>>
               ELSE <<"position", key[node.parent], node.kind, node.ordinal>>
    IN key

\* The key of a relaxed re-pairing: every kind on the way is erased.
RelaxedKey(G) ==
    LET key[u \in DOMAIN G] ==
            LET node == G[u]
            IN IF HasExplicit(node) THEN <<"explicit", "any", ExplicitIdentity(node)>>
               ELSE IF node.parent = Root THEN <<"fingerprint", node.kind, node.label>>
               ELSE <<"position", key[node.parent], "any", node.ordinal>>
    IN key

ContentKey(G) == [u \in DOMAIN G |-> <<G[u].kind, G[u].text>>]

\* Pools and queues: of the nodes with one key, the first candidate takes the
\* first committed node, the second the second, in uid order.
Rank(S, key, u) == Cardinality({w \in S : key[w] = key[u] /\ w < u})

PairUp(S, keyS, T, keyT) ==
    {pair \in S \X T :
        keyS[pair[1]] = keyT[pair[2]] /\ Rank(S, keyS, pair[1]) = Rank(T, keyT, pair[2])}

Committed(pairs) == {pair[1] : pair \in pairs}
Candidates(pairs) == {pair[2] : pair \in pairs}

\* reconcile.
Reconciled(G, H) == PairUp(DOMAIN G, StructuralKey(G), DOMAIN H, StructuralKey(H))

\* relaxed_pairs, by content and then by the relaxed key.
RePaired(G, H, done) ==
    LET S == DOMAIN G \ Committed(done)
        T == DOMAIN H \ Candidates(done)
        byContent == PairUp(S, ContentKey(G), T, ContentKey(H))
    IN byContent \cup PairUp(S \ Committed(byContent), RelaxedKey(G),
                             T \ Candidates(byContent), RelaxedKey(H))

\* A key more than one committed node has.
AmbiguousIn(G, u) == \E w \in DOMAIN G \ {u} : StructuralKey(G)[w] = StructuralKey(G)[u]

-----------------------------------------------------------------------------
(* compare_reingestion.                                                    *)

Finding(category, at) == <<category, at>>

\* rendered_parents: the committed parent, and that of the candidate by its
\* committed name, if it has one.
ParentAgrees(G, H, pairs, u, c) ==
    IF H[c].parent = Root THEN G[u].parent = Root
    ELSE <<G[u].parent, H[c].parent>> \in pairs

\* fingerprint: kind and label of a node and of those above it.
Fingerprint(G) ==
    LET print[u \in DOMAIN G] ==
            <<G[u].kind, G[u].label,
              IF G[u].parent = Root THEN <<>> ELSE print[G[u].parent]>>
    IN print

\* compare_locators: the kind of what moved.
LocatorFindings(l, m) ==
    {x \in {"node_semantic_locator_changed"} : l.anchor # m.anchor \/ l.semantic # m.semantic}
    \cup {x \in {"diagnostic_locator_moved"} : l.diagnostic # m.diagnostic}

\* compare_matched.
MatchedFindings(G, H, pairs, u, c) ==
    {Finding(category, u) : category \in
        {x \in {"node_kind_changed"} : G[u].kind # H[c].kind}
        \cup {x \in {"node_parent_changed"} : ~ParentAgrees(G, H, pairs, u, c)}
        \cup {x \in {"node_ordinal_changed"} : G[u].ordinal # H[c].ordinal}
        \cup {x \in {"node_label_changed"} : G[u].label # H[c].label}
        \cup {x \in {"node_canonical_text_changed"} : G[u].text # H[c].text}
        \cup {x \in {"node_content_digest_changed"} : ContentKey(G)[u] # ContentKey(H)[c]}
        \cup {x \in {"node_structural_fingerprint_changed"} : Fingerprint(G)[u] # Fingerprint(H)[c]}
        \cup LocatorFindings(G[u].locator, H[c].locator)}

\* compare_nodes.
NodeFindings(G, H) ==
    LET primary == Reconciled(G, H)
        again == RePaired(G, H, primary)
        pairs == primary \cup again
    IN {Finding("node_unreconciled", pair[2]) : pair \in {p \in primary : AmbiguousIn(G, p[1])}}
       \cup (UNION {MatchedFindings(G, H, pairs, pair[1], pair[2]) :
                     pair \in {p \in primary : ~AmbiguousIn(G, p[1])} \cup again})
       \cup {Finding("node_added", c) : c \in DOMAIN H \ Candidates(pairs)}
       \cup {Finding("node_removed", u) : u \in DOMAIN G \ Committed(pairs)}

\* The candidate's recipe and input are those of the baseline, others, or not known.
SameRecipe == 1

\* The text extracted from a PDF: that of the baseline, other text, or none.
ExtractorOutputs == {"none", "same", "other"}

\* One candidate patch against the committed one of its uid, in the order of the
\* code: the first answer counts.
PatchVerdict(old, new) ==
    IF ~new.recomputes THEN "patch_unappliable"
    ELSE IF <<new.target, new.tag, new.bound, new.recipe>> # <<old.target, old.tag, old.bound, old.recipe>>
         THEN "patch_changed"
    ELSE "same"

\* Faulty variant: of two records with one uid the first is taken.
Grouped_First(sets) == DOMAIN sets

\* group_candidate_uids: a uid with two distinct records counts as absent.
Grouped(sets) == {n \in DOMAIN sets : Cardinality(sets[n]) = 1}
TheOne(S) == CHOOSE x \in S : TRUE

\* The approved patches that are still the same, on top of the candidate graph.
Carried(cand) ==
    {n \in DOMAIN patches \cap Grouped(cand.patches) :
        /\ PatchVerdict(patches[n], TheOne(cand.patches[n])) = "same"
        /\ TheOne(cand.patches[n]).state = "approved"}

CandidateAfter(cand) ==
    LET after[n \in {0} \cup PatchUids] ==
            IF n = 0 THEN cand.graph
            ELSE IF n \notin Carried(cand) \/ Applied(after[n - 1], TheOne(cand.patches[n]), cand.recipe) = {}
                 THEN after[n - 1]
            ELSE TheOne(Applied(after[n - 1], TheOne(cand.patches[n]), cand.recipe))
    IN after

CandidateEffective(cand) == CandidateAfter(cand)[2]
Unappliable(cand) ==
    {n \in Carried(cand) :
        Applied(CandidateAfter(cand)[n - 1], TheOne(cand.patches[n]), cand.recipe) = {}}

\* What the review of a patch that is still the same has become.
StateFindings(old, new, n) ==
    {Finding(category, n) : category \in
        {x \in {"review_state_changed"} : new.state # old.state}
        \cup {x \in {"patch_stale"} : new.state = "stale"}
        \cup {x \in {"patch_rejected"} : new.state = "rejected"}}

\* compare_patches.
PatchFindings(cand) ==
    LET known == DOMAIN patches
        present == Grouped(cand.patches)
        one(n) == TheOne(cand.patches[n])
    IN {Finding("patch_unappliable", n) : n \in DOMAIN cand.patches \ present}
       \cup {Finding("patch_removed", n) : n \in known \ present}
       \cup {Finding("patch_added", n) : n \in present \ known}
       \cup {Finding(PatchVerdict(patches[n], one(n)), n) :
               n \in {n \in known \cap present : PatchVerdict(patches[n], one(n)) # "same"}}
       \cup (UNION {StateFindings(patches[n], one(n), n) :
               n \in {n \in known \cap present : PatchVerdict(patches[n], one(n)) = "same"}})
       \cup {Finding("patch_unappliable", n) : n \in Unappliable(cand)}

\* compare_reingestion; the baseline and the candidate graph must be valid and
\* the effective baseline must exist, or there is no report.
Comparable(cand) == SP!Valid(cand.graph) /\ Effective(SameRecipe) # {}

Findings(cand) ==
    {Finding("recipe_changed_or_unavailable", 0) : x \in {x \in {1} : cand.recipe # SameRecipe}}
    \cup {Finding("extractor_output_changed", 0) :
            x \in {x \in {1} : extractor # "none" /\ cand.extractor # extractor}}
    \cup NodeFindings(committed, cand.graph)
    \cup PatchFindings(cand)
    \cup {Finding("effective_graph_changed", 0) :
            x \in {x \in {1} : {CandidateEffective(cand)} # Effective(SameRecipe)}}

\* DriftReport::outcome.
Equal(cand) == Comparable(cand) /\ Findings(cand) = {}

-----------------------------------------------------------------------------
(* The behaviours.                                                         *)

Sole(node) == [parent |-> node.parent, kind |-> node.kind, ordinal |-> node.ordinal,
               label |-> node.label, text |-> node.text, locator |-> CHOOSE l \in Locators :
                   l.anchor = NoLabel /\ l.semantic = 0 /\ l.diagnostic = 0]

\* The candidate is the committed state until something drifts.
Unchanged(G, P) ==
    [graph |-> G, patches |-> [n \in DOMAIN P |-> {P[n]}], recipe |-> SameRecipe,
     extractor |-> extractor]

\* The graphs of an ingester are numbered in document order.
Ingested ==
    {G \in UNION {[1..n -> SP!Node] : n \in 0..2} : SP!Valid(G) /\ SP!LabelsUnique(G)}

ReingestionInit ==
    /\ committed \in {[u \in DOMAIN G |-> Sole(G[u])] : G \in Ingested}
    /\ \/ extractor = "none"
       \/ extractor = "same" /\ Cardinality(DOMAIN committed) <= 1   \* bound
    /\ patches = <<>>
    /\ candidate = Unchanged(committed, patches)
    /\ drift = 0

ReingestionIdle ==
    /\ committed = <<>> /\ extractor = "none" /\ patches = <<>>
    /\ candidate = Unchanged(committed, patches) /\ drift = 0

\* A patch of the committed graph is curated, and reviewed somehow.
CuratePatch ==
    /\ drift = 0
    /\ Cardinality({committed[u].text : u \in DOMAIN committed}) = 1     \* bound
    /\ \E n \in PatchUids \ DOMAIN patches, u \in DOMAIN committed, recipe \in {SameRecipe, 2},
          tag \in {"confirm", "replace_content", "remove"}, state \in States :
        /\ Approved = DOMAIN patches /\ (patches # <<>> => state = "approved")  \* bound
        /\ patches' = [m \in DOMAIN patches \cup {n} |->
                         IF m = n THEN Patch(committed, u, tag, recipe, state) ELSE patches[m]]
    /\ candidate' = Unchanged(committed, patches')
    /\ UNCHANGED <<committed, extractor, drift>>

Drifted(new) ==
    /\ drift + Cardinality(DOMAIN patches) < MaxDrift
    /\ candidate' = new
    /\ drift' = drift + 1
    /\ UNCHANGED <<committed, extractor, patches>>

\* A node of the document reads differently, moves, or disappears, or its uid is new.
Altered(G, u) ==
    {[G EXCEPT ![u] = [@ EXCEPT !.kind = k]] : k \in Kinds}
    \cup {[G EXCEPT ![u] = [@ EXCEPT !.label = l]] : l \in Labels \cup {NoLabel}}
    \cup {[G EXCEPT ![u] = [@ EXCEPT !.text = t]] : t \in Texts}
    \cup {[G EXCEPT ![u] = [@ EXCEPT !.locator = l]] : l \in Locators}
    \cup {[G EXCEPT ![u] = [@ EXCEPT !.parent = p, !.ordinal = o]] :
            p \in DOMAIN G \cup {Root}, o \in 0..Cardinality(DOMAIN G)}
    \cup {SP!Without(G, {u})}
    \cup {[w \in (DOMAIN G \ {u}) \cup {n} |-> IF w = n THEN G[u] ELSE G[w]] : n \in Uids \ DOMAIN G}

Reingest ==
    /\ \E u \in DOMAIN candidate.graph : \E G \in Altered(candidate.graph, u) :
        Drifted([candidate EXCEPT !.graph = G])

SwapSiblings ==
    /\ \E u, w \in DOMAIN candidate.graph :
        /\ u # w /\ candidate.graph[u].parent = candidate.graph[w].parent
        /\ Drifted([candidate EXCEPT !.graph[u].ordinal = candidate.graph[w].ordinal,
                                     !.graph[w].ordinal = candidate.graph[u].ordinal])

ChangeRecipe == \E recipe \in {2, 3} : Drifted([candidate EXCEPT !.recipe = recipe])

ChangeExtractor ==
    /\ Cardinality(DOMAIN committed) <= 1       \* bound
    /\ \E output \in ExtractorOutputs \ {candidate.extractor} :
        Drifted([candidate EXCEPT !.extractor = output])

\* The patch plane of the candidate: a record is gone, new, damaged, doubled, or
\* has another state of review.
RedoPatch ==
    /\ DOMAIN candidate.patches # {}
    /\ \E n \in DOMAIN candidate.patches :
        LET p == TheOne(candidate.patches[n])
        IN \/ Drifted([candidate EXCEPT !.patches =
                        [m \in DOMAIN candidate.patches \ {n} |-> candidate.patches[m]]])
           \/ Drifted([candidate EXCEPT !.patches[n] = {p, [p EXCEPT !.tag = "remove"]}])
           \/ \E q \in {[p EXCEPT !.tag = "confirm"], [p EXCEPT !.recomputes = FALSE]}
                        \cup {[p EXCEPT !.state = s] : s \in States} :
                Drifted([candidate EXCEPT !.patches[n] = {q}])

ReingestionNext ==
    CuratePatch \/ Reingest \/ SwapSiblings \/ ChangeRecipe \/ ChangeExtractor \/ RedoPatch

-----------------------------------------------------------------------------
(* Properties.                                                             *)

\* Equality is never claimed of something else: a report without findings means
\* that the second ingestion gave the very same nodes under the same uids, with
\* the same recipe, the same patches in the same state of review, and the same
\* extracted text if the baseline has any, although nodes are matched by structure
\* and text and never by uid (compare_reingestion).
EqualMeansIdentical ==
    Equal(candidate) =>
        /\ extractor # "none" => candidate.extractor = extractor
        /\ [candidate EXCEPT !.extractor = extractor] = Unchanged(committed, patches)

\* No two approved contents are composed and none is dropped, although the boundary
\* applies each approved patch alone and the effective graph chains them: an
\* effective graph is the committed one, or what one approved patch makes of it
\* alone, and then every other approved patch leaves the committed graph as it is;
\* all of them pass the boundary and were reviewed under the recipe presented
\* (effective_source_graph, validate_effective_curated_content).
EffectiveIsOnePatch ==
    LET alone(p) == Applied(committed, patches[p], patches[p].recipe)
    IN \A G \in Effective(SameRecipe) :
        /\ BoundaryPasses
        /\ \A p \in Approved : patches[p].recipe = SameRecipe
        /\ \A p \in Approved : alone(p) # {committed} => alone(p) = {G}
        /\ \A p, q \in Approved : p # q => committed \in alone(p) \cup alone(q)
        /\ G # committed => \E p \in Approved : alone(p) = {G}

\* What the two modules say of approved content under the baseline's recipe: "two
\* approved patches on one revision cannot both apply" (effective_graph.rs:22-23),
\* and once the boundary has passed "any effective curated content is proven
\* approved and producible" (approval_boundary.rs:398-399).
ApprovedContentIsSettled ==
    (\A p \in Approved : patches[p].recipe = SameRecipe) =>
        /\ Approved = PatchUids => Effective(SameRecipe) = {}
        /\ BoundaryPasses => Effective(SameRecipe) # {}
=============================================================================
