------------------------------ MODULE PlanActions ------------------------------
(***************************************************************************)
(* Plan actions (qorl.plans.catalog, qorl.plans.schemas): what a policy    *)
(* proposes for a query, how the proposal is validated and normalised, and *)
(* the hints it compiles to.                                               *)
(*                                                                         *)
(* A relation is a number and a join tree is <<r>> or <<left, right>>.     *)
(* The value of a correction of a row estimate, and a cost, is the         *)
(* exponent of a power of ten.                                             *)
(***************************************************************************)
EXTENDS Integers, SequencesExt

CONSTANTS Relations,     \* aliases of the query
          Edges,         \* {a, b}: the query joins a with b
          Indexes,       \* of each relation, from PostgreSQL's catalog
          JoinTrees,     \* trees that a policy may write
          Proposals,     \* values the policy may send
          MaxItems       \* bound: items of one proposal

ASSUME CatalogAssumption ==
    /\ Relations \subseteq Nat \ {0}
    /\ Edges \subseteq SUBSET Relations /\ Indexes \in [Relations -> SUBSET STRING]
    /\ \A t \in JoinTrees : \/ Len(t) = 1
                            \/ Len(t) = 2 /\ {t[1], t[2]} \subseteq JoinTrees

AUTO == "auto"
JoinMethod == {"hash", "merge", "nestloop"}
IndexMethod == {"index", "index_only", "bitmap"}
ScanMethod == {"seq"} \cup IndexMethod

\* Mutant: two of the hints for two methods are exchanged.
JOIN_METHOD_HINTS_Exchanged ==
    [m \in (SUBSET JoinMethod) \ {{}, JoinMethod} |->
       CASE m = {"hash"} -> "HashJoin"     [] m = {"merge", "nestloop"} -> "NoHashJoin"
         [] m = {"merge"} -> "MergeJoin"   [] m = {"hash", "nestloop"} -> "NoNestLoop"
         [] m = {"nestloop"} -> "NestLoop" [] m = {"hash", "merge"} -> "NoMergeJoin"]

\* What allowed_methods can be told by one hint, and the hint.
JOIN_METHOD_HINTS ==
    [m \in (SUBSET JoinMethod) \ {{}, JoinMethod} |->
       CASE m = {"hash"} -> "HashJoin"     [] m = {"merge", "nestloop"} -> "NoHashJoin"
         [] m = {"merge"} -> "MergeJoin"   [] m = {"hash", "nestloop"} -> "NoMergeJoin"
         [] m = {"nestloop"} -> "NestLoop" [] m = {"hash", "merge"} -> "NoNestLoop"]

SCAN_METHOD_HINTS ==
    [m \in {{"seq"}, {"index"}, {"index_only"}, {"index", "index_only"}, {"bitmap"},
            {"seq", "bitmap"}, IndexMethod, ScanMethod \ {"index_only"},
            ScanMethod \ {"bitmap"}} |->
       CASE m = {"seq"} -> "SeqScan"       [] m = IndexMethod -> "NoSeqScan"
         [] m = {"index"} -> "IndexScan"   [] m = {"seq", "bitmap"} -> "NoIndexScan"
         [] m \in {{"index_only"}, {"index", "index_only"}} -> "IndexOnlyScan"
         [] m = ScanMethod \ {"index_only"} -> "NoIndexOnlyScan"
         [] m = {"bitmap"} -> "BitmapScan" [] m = ScanMethod \ {"bitmap"} -> "NoBitmapScan"]

BOOLEAN_SETTINGS ==
    {"enable_bitmapscan", "enable_gathermerge", "enable_group_by_reordering",
     "enable_hashagg", "enable_hashjoin", "enable_incremental_sort",
     "enable_indexonlyscan", "enable_indexscan", "enable_material",
     "enable_memoize", "enable_mergejoin", "enable_nestloop",
     "enable_parallel_hash", "enable_self_join_elimination", "enable_seqscan",
     "enable_sort"}
NUMERIC_SETTINGS ==
    {"seq_page_cost", "random_page_cost", "cpu_tuple_cost",
     "cpu_index_tuple_cost", "cpu_operator_cost", "parallel_setup_cost",
     "parallel_tuple_cost"}
INTEGER_SETTINGS == {"effective_cache_size"}
MAX_COST_EXPONENT == 6
CacheExponents == 0 .. 6
MAX_PARALLEL_WORKERS == 2
MIN_JOIN_RELATIONS == 2
MultiplierExponents == -3 .. 3
RowCountExponents == 0 .. 12

----------------------------------------------------------------------------
(* The catalog of one query (plans/catalog.py).                            *)

Adjacent(a, b) == {a, b} \in Edges

\* require_relations: the walk from the first relation over the selected ones
\* leaves none unvisited.
ReachesAll(first, selected) ==
    \A visited \in SUBSET selected :
        /\ first \in visited
        /\ \A r \in visited, s \in selected : Adjacent(r, s) => s \in visited
        => visited = selected

RequireRelations(values) ==
    /\ Len(values) >= MIN_JOIN_RELATIONS
    /\ IsInjective(values)
    /\ ToSet(values) \subseteq Relations
    /\ ReachesAll(values[1], ToSet(values))

RequireIndexes(indexes, relation) == indexes \subseteq Indexes[relation]

----------------------------------------------------------------------------
(* The values of a proposal (plans/schemas.py).                            *)

JoinConstraint ==
    [relations : Seq(Nat), force : {AUTO} \cup JoinMethod, forbid : SUBSET JoinMethod,
     memoize : {AUTO, "force", "forbid"}]
ScanConstraint ==
    [relation : Nat, force : {AUTO} \cup ScanMethod, forbid : SUBSET ScanMethod,
     indexes : SUBSET STRING]
DisabledIndexes == [relation : Nat, indexes : SUBSET STRING]
RowCorrection ==
    [relations : Seq(Nat), mode : {"absolute", "add", "subtract", "multiply"}, value : Int]
ParallelRequest == [relation : Nat, workers : Int, mode : {"soft", "hard"}]

ASSUME ProposalAssumption ==
    /\ Proposals.leading \subseteq JoinTrees
    /\ Proposals.joins \subseteq JoinConstraint /\ Proposals.scans \subseteq ScanConstraint
    /\ Proposals.disabled \subseteq DisabledIndexes /\ Proposals.rows \subseteq RowCorrection
    /\ Proposals.parallel \subseteq ParallelRequest

----------------------------------------------------------------------------
(* Validation (plans/schemas.py).                                          *)

AllowedMethods(c, methods) ==
    (IF c.force = AUTO THEN methods ELSE {c.force}) \ c.forbid

\* JoinConstraint.validate_constraint
JoinOk(c) ==
    /\ RequireRelations(c.relations)
    /\ c.forbid # JoinMethod
    /\ c.force \notin c.forbid
    /\ c.memoize = "force" => "nestloop" \in AllowedMethods(c, JoinMethod)
    /\ ~(c.force = AUTO /\ c.forbid = {} /\ c.memoize = AUTO)

\* ScanConstraint.validate_constraint
ScanOk(c) ==
    /\ c.relation \in Relations
    /\ RequireIndexes(c.indexes, c.relation)
    /\ c.forbid # ScanMethod
    /\ c.force \notin c.forbid
    /\ c.indexes # {} => c.force \in IndexMethod
    /\ ~(c.force = AUTO /\ c.forbid = {})
    /\ AllowedMethods(c, ScanMethod) \in DOMAIN SCAN_METHOD_HINTS

\* DisabledIndexes.validate_indexes
DisabledOk(d) ==
    /\ d.relation \in Relations
    /\ RequireIndexes(d.indexes, d.relation)
    /\ d.indexes # {}

\* RowCorrection.validate_correction
RowsOk(c) ==
    /\ RequireRelations(c.relations)
    /\ c.value \in IF c.mode = "multiply" THEN MultiplierExponents
                                          ELSE RowCountExponents

ParallelOk(p) == p.relation \in Relations /\ p.workers \in 0 .. MAX_PARALLEL_WORKERS

SettingsOk(settings) ==
    /\ DOMAIN settings \subseteq BOOLEAN_SETTINGS \cup NUMERIC_SETTINGS \cup INTEGER_SETTINGS
    /\ \A name \in DOMAIN settings :
          IF name \in BOOLEAN_SETTINGS THEN settings[name] \in BOOLEAN
          ELSE IF name \in NUMERIC_SETTINGS THEN settings[name] <= MAX_COST_EXPONENT
          ELSE settings[name] \in CacheExponents

\* Leaves of a tree in order, and the relations under each of its inner nodes.
Leaves[tree \in JoinTrees] ==
    IF Len(tree) = 1 THEN tree ELSE Leaves[tree[1]] \o Leaves[tree[2]]

Subtrees[tree \in JoinTrees] ==
    IF Len(tree) = 1 THEN {}
    ELSE {ToSet(Leaves[tree])} \cup Subtrees[tree[1]] \cup Subtrees[tree[2]]

Joinable[tree \in JoinTrees] ==
    Len(tree) = 2 =>
        /\ Joinable[tree[1]] /\ Joinable[tree[2]]
        /\ \E a \in ToSet(Leaves[tree[1]]), b \in ToSet(Leaves[tree[2]]) :
              Adjacent(a, b)

\* PlanAction.validate_leading
LeadingOk(tree) ==
    /\ Len(tree) = 2
    /\ ToSet(Leaves[tree]) \subseteq Relations
    /\ Joinable[tree]
    /\ IsInjective(Leaves[tree])
    /\ ToSet(Leaves[tree]) = Relations

NoDuplicates(items, Target(_)) ==
    \A i, j \in DOMAIN items : i # j => Target(items[i]) # Target(items[j])

\* _reject_duplicate_targets, which sees the relations after their sort, and
\* _reject_duplicate_relations
RelationsOf(item) == ToSet(item.relations)
RelationOf(item) == item.relation
\* Mutant: the targets of row corrections are compared as they are listed.
TargetsAsListed(raw) ==
    LET RelationList(item) == item.relations
    IN  /\ NoDuplicates(raw.joins, RelationsOf) /\ NoDuplicates(raw.rows, RelationList)
        /\ NoDuplicates(raw.scans, RelationOf) /\ NoDuplicates(raw.disabled, RelationOf)
        /\ NoDuplicates(raw.parallel, RelationOf)

TargetsOnce(raw) ==
    /\ NoDuplicates(raw.joins, RelationsOf) /\ NoDuplicates(raw.rows, RelationsOf)
    /\ NoDuplicates(raw.scans, RelationOf) /\ NoDuplicates(raw.disabled, RelationOf)
    /\ NoDuplicates(raw.parallel, RelationOf)

JoinsInLeading(raw) ==
    raw.leading # <<>> =>
        \A j \in ToSet(raw.joins) : RelationsOf(j) \in Subtrees[raw.leading]

JoinSetting == [hash |-> "enable_hashjoin", merge |-> "enable_mergejoin",
                nestloop |-> "enable_nestloop"]
ScanSetting == [seq |-> "enable_seqscan", index |-> "enable_indexscan",
                index_only |-> "enable_indexonlyscan",
                bitmap |-> "enable_bitmapscan"]

Off(settings, name) == name \in DOMAIN settings /\ settings[name] = FALSE

DisabledFor(action, relation) ==
    UNION {d.indexes : d \in {e \in ToSet(action.disabled) : e.relation = relation}}

\* PlanAction._validate_cross_family_conflicts
JoinAgrees(raw, j) ==
    /\ \A m \in JoinMethod :
          AllowedMethods(j, JoinMethod) = {m} => ~Off(raw.settings, JoinSetting[m])
    /\ j.memoize = "force" => ~Off(raw.settings, "enable_memoize")

ScanAgrees(raw, s) ==
    LET disabled == DisabledFor(raw, s.relation)
    IN  /\ \A m \in ScanMethod :
              AllowedMethods(s, ScanMethod) = {m} =>
                  /\ ~Off(raw.settings, ScanSetting[m])
                  /\ m \in IndexMethod /\ disabled # {} => disabled # Indexes[s.relation]
        /\ disabled \cap s.indexes = {}

\* Mutant: only the joins are compared with the other families.
JoinsAgreeOnly(raw) == \A j \in ToSet(raw.joins) : JoinAgrees(raw, j)

NoConflict(raw) ==
    /\ \A j \in ToSet(raw.joins) : JoinAgrees(raw, j)
    /\ \A s \in ToSet(raw.scans) : ScanAgrees(raw, s)

\* PlanAction.from_raw: the fields, each item, then the action as a whole.
Accepts(raw) ==
    /\ raw.leading # <<>> => LeadingOk(raw.leading)
    /\ \A j \in ToSet(raw.joins) : JoinOk(j)
    /\ \A s \in ToSet(raw.scans) : ScanOk(s)
    /\ \A d \in ToSet(raw.disabled) : DisabledOk(d)
    /\ \A c \in ToSet(raw.rows) : RowsOk(c)
    /\ \A p \in ToSet(raw.parallel) : ParallelOk(p)
    /\ SettingsOk(raw.settings)
    /\ TargetsOnce(raw) /\ JoinsInLeading(raw) /\ NoConflict(raw)

\* Lists of relations in the order of Python's lists.
Before(s, t) ==
    \E k \in DOMAIN t :
        /\ \A i \in 1 .. k - 1 : i \in DOMAIN s /\ s[i] = t[i]
        /\ k \in DOMAIN s => s[k] < t[k]

\* sorted, which is stable: each place of the result takes the item that as many
\* others come before.  precedes holds the pairs of indices whose first item is less.
Ahead(n, precedes, i) ==
    {j \in 1 .. n : <<j, i>> \in precedes \/ (j < i /\ <<i, j>> \notin precedes)}
Arrangement(n, precedes) ==
    [k \in 1 .. n |-> CHOOSE i \in 1 .. n : Cardinality(Ahead(n, precedes, i)) = k - 1]
Arranged(items, precedes) ==
    [k \in 1 .. Len(items) |-> items[Arrangement(Len(items), precedes)[k]]]
Sort(items, Less(_, _)) ==
    Arranged(items, {p \in (1 .. Len(items)) \X (1 .. Len(items)) :
                       Less(items[p[1]], items[p[2]])})

SortRelations(items) ==
    [i \in DOMAIN items |->
        [items[i] EXCEPT !.relations = Sort(@, LAMBDA a, b : a < b)]]
ByRelations(items) ==
    Sort(SortRelations(items), LAMBDA x, y : Before(x.relations, y.relations))
ByRelation(items) == Sort(items, LAMBDA x, y : x.relation < y.relation)

\* What the validators of an accepted proposal leave in the action.
Normal(raw) ==
    [leading |-> raw.leading, joins |-> ByRelations(raw.joins),
     scans |-> ByRelation(raw.scans), disabled |-> ByRelation(raw.disabled),
     rows |-> ByRelations(raw.rows), parallel |-> ByRelation(raw.parallel),
     settings |-> raw.settings]

----------------------------------------------------------------------------
(* Hints (PlanAction.compile), one tuple each; a hint without a name is    *)
(* left out.                                                               *)

JoinHints(j) ==
    LET allowed == AllowedMethods(j, JoinMethod)
    IN  (IF allowed \in DOMAIN JOIN_METHOD_HINTS
         THEN <<<<JOIN_METHOD_HINTS[allowed], j.relations>>>> ELSE <<>>)
        \o (CASE j.memoize = AUTO -> <<>>
              [] j.memoize = "force" -> <<<<"Memoize", j.relations>>>>
              [] j.memoize = "forbid" -> <<<<"NoMemoize", j.relations>>>>)

ScanHint(s) ==
    <<SCAN_METHOD_HINTS[AllowedMethods(s, ScanMethod)], s.relation, s.indexes>>

Each(items, Hint(_)) == [i \in DOMAIN items |-> Hint(items[i])]

Compile(action) ==
    [hints |->
        (IF action.leading = <<>> THEN <<>> ELSE <<<<"Leading", action.leading>>>>)
        \o FlattenSeq(Each(action.joins, JoinHints))
        \o Each(action.scans, ScanHint)
        \o Each(action.disabled, LAMBDA d : <<"DisableIndex", d.relation, d.indexes>>)
        \o Each(action.rows, LAMBDA c : <<"Rows", c.relations, c.mode, c.value>>)
        \o Each(action.parallel,
                LAMBDA p : <<"Parallel", p.relation, p.workers, p.mode>>),
     settings |-> action.settings]

\* Methods that PostgreSQL may choose under a hint of pg_hint_plan.
MethodsUnder(hint) ==
    CASE hint = "HashJoin" -> {"hash"}        [] hint = "NoHashJoin" -> JoinMethod \ {"hash"}
      [] hint = "MergeJoin" -> {"merge"}      [] hint = "NoMergeJoin" -> JoinMethod \ {"merge"}
      [] hint = "NestLoop" -> {"nestloop"}    [] hint = "NoNestLoop" -> JoinMethod \ {"nestloop"}
      [] hint = "SeqScan" -> {"seq"}          [] hint = "NoSeqScan" -> IndexMethod
      [] hint = "IndexScan" -> {"index"}
      [] hint = "NoIndexScan" -> {"seq", "bitmap"}
      [] hint = "IndexOnlyScan" -> {"index", "index_only"}
      [] hint = "NoIndexOnlyScan" -> ScanMethod \ {"index_only"}
      [] hint = "BitmapScan" -> {"bitmap"}    [] hint = "NoBitmapScan" -> ScanMethod \ {"bitmap"}

\* The constraint itself, as verify_action reads it.
MethodMeets(c, method) ==
    (c.force = AUTO \/ method = c.force) /\ method \notin c.forbid

----------------------------------------------------------------------------
(* One proposal from the policy to the action validated from it.           *)

VARIABLES raw,     \* the proposal, then the action
          stage    \* "drafted", "accepted" or "rejected"

actionVars == <<raw, stage>>

Families == {"joins", "scans", "disabled", "rows", "parallel"}

Items(r) == (IF r.leading = <<>> THEN 0 ELSE 1) + Cardinality(DOMAIN r.settings)
            + Len(r.joins) + Len(r.scans) + Len(r.disabled) + Len(r.rows)
            + Len(r.parallel)

Merged(s, t) ==
    [name \in DOMAIN s \cup DOMAIN t |-> IF name \in DOMAIN s THEN s[name] ELSE t[name]]

ActionInit ==
    /\ raw = [leading |-> <<>>, joins |-> <<>>, scans |-> <<>>, disabled |-> <<>>,
              rows |-> <<>>, parallel |-> <<>>, settings |-> <<>>]
    /\ stage = "drafted"

\* The policy's words, one item at a time.
Draft ==
    /\ stage = "drafted" /\ Items(raw) < MaxItems
    /\ \/ raw.leading = <<>> /\ \E t \in Proposals.leading : raw' = [raw EXCEPT !.leading = t]
       \/ \E f \in Families : \E item \in Proposals[f] :
             raw' = [raw EXCEPT ![f] = Append(@, item)]
       \/ \E s \in Proposals.settings :
             /\ DOMAIN s \cap DOMAIN raw.settings = {}
             /\ raw' = [raw EXCEPT !.settings = Merged(s, @)]
    /\ UNCHANGED stage

\* PlanAction.from_raw
Validate ==
    /\ stage = "drafted"
    /\ \/ Accepts(raw) /\ stage' = "accepted" /\ raw' = Normal(raw)
       \/ ~Accepts(raw) /\ stage' = "rejected" /\ UNCHANGED raw

ActionNext == Draft \/ Validate

ActionSpec == ActionInit /\ [][ActionNext]_actionVars

----------------------------------------------------------------------------
(* Properties.                                                             *)

(* The hints of an accepted action leave PostgreSQL exactly the methods    *)
(* the constraint allows (JOIN_METHOD_HINTS and SCAN_METHOD_HINTS), no     *)
(* hint meaning all of them; only index_only alone also permits the        *)
(* ordinary index, which the constraint itself does not.                   *)
HintsSayTheAction ==
    stage = "accepted" =>
        /\ \A j \in ToSet(raw.joins) :
              LET allowed == AllowedMethods(j, JoinMethod)
                  named == {h \in ToSet(JoinHints(j)) :
                              h[1] \notin {"Memoize", "NoMemoize"}}
              IN  /\ allowed # {}
                  /\ named = {} => allowed = JoinMethod
                  /\ \A h \in named : MethodsUnder(h[1]) = allowed
        /\ \A s \in ToSet(raw.scans) :
              LET allowed == AllowedMethods(s, ScanMethod)
                  permitted == MethodsUnder(ScanHint(s)[1])
              IN  \/ permitted = allowed
                  \/ /\ allowed = {"index_only"} /\ permitted = {"index", "index_only"}
                     /\ ~MethodMeets(s, "index")

(* The order in which a policy lists its items and their relations decides *)
(* nothing: not the verdict of the validation, nor the action, from which  *)
(* its hints and the key of its timing are made; and an accepted action is *)
(* accepted again as it is (PlanAction.validate_action).                   *)
Turned(items) ==
    [i \in DOMAIN items |-> [items[i] EXCEPT !.relations = Reverse(@)]]
Shuffled(r) ==
    [leading |-> r.leading, joins |-> Reverse(Turned(r.joins)),
     scans |-> Reverse(r.scans), disabled |-> Reverse(r.disabled),
     rows |-> Reverse(Turned(r.rows)), parallel |-> Reverse(r.parallel),
     settings |-> r.settings]
OrderIsIrrelevant ==
    stage = "drafted" =>
        /\ Accepts(Shuffled(raw)) = Accepts(raw)
        /\ Accepts(raw) =>
              LET action == Normal(raw)
              IN  /\ Normal(Shuffled(raw)) = action
                  /\ Accepts(action) /\ Normal(action) = action

(* Both of every proposal and of every action made of it.                  *)
ActionsAreSound == HintsSayTheAction /\ OrderIsIrrelevant
=============================================================================
