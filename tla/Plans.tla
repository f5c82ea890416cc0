--------------------------------- MODULE Plans ---------------------------------
(***************************************************************************)
(* Plans under an action (qorl.plans.verify, qorl.plans.fingerprint): how  *)
(* a plan that PostgreSQL explains under the hints of an accepted action   *)
(* (PlanActions) is verified against it and identified.                    *)
(*                                                                         *)
(* A node of a plan is a record: its type, alias (0 if none), the index it *)
(* names, whether it is parallel aware, its planned workers, its estimate  *)
(* and observation, and its children.                                      *)
(***************************************************************************)
EXTENDS PlanActions

CONSTANTS PlanSpace,     \* plans PostgreSQL may answer with
          MaxExplained   \* bound: items of a proposal that is explained

----------------------------------------------------------------------------
(* Explained plans (plans/verify.py).                                      *)

JOIN_METHODS == [HashJoin |-> "hash", MergeJoin |-> "merge", NestedLoop |-> "nestloop"]
SCAN_METHODS == [SeqScan |-> "seq", IndexScan |-> "index",
                 IndexOnlyScan |-> "index_only", BitmapHeapScan |-> "bitmap"]
IsJoin(node) == node.type \in DOMAIN JOIN_METHODS
IsScan(node) == node.type \in DOMAIN SCAN_METHODS

\* Nodes of a plan, parents before children (nodes).
RECURSIVE Nodes(_)
Nodes(plan) == <<plan>> \o FlattenSeq(Each(plan.plans, Nodes))

RelationSet(plan) == {n.alias : n \in ToSet(Nodes(plan))} \ {0}
IndexNames(plan) == {n.index : n \in ToSet(Nodes(plan))} \ {""}

\* The first node that matches, as a sequence of at most one.
First(nodes) == IF nodes = <<>> THEN <<>> ELSE <<Head(nodes)>>
MatchingJoin(plan, relations) ==
    First(SelectSeq(Nodes(plan),
                    LAMBDA n : IsJoin(n) /\ RelationSet(n) = ToSet(relations)))
MatchingScan(plan, relation) ==
    First(SelectSeq(Nodes(plan), LAMBDA n : IsScan(n) /\ n.alias = relation))

\* plan_join_tree; <<>> is None
RECURSIVE PlanJoinTree(_)
PlanJoinTree(plan) ==
    IF IsJoin(plan) /\ Len(plan.plans) >= 2
    THEN <<PlanJoinTree(plan.plans[1]), PlanJoinTree(plan.plans[2])>>
    ELSE IF IsScan(plan) /\ plan.alias # 0 THEN <<plan.alias>>
    ELSE LET trees == SelectSeq(Each(plan.plans, PlanJoinTree), LAMBDA t : t # <<>>)
         IN  IF Len(trees) = 1 THEN trees[1] ELSE <<>>

MemoizedInner(join) == Len(join.plans) >= 2 /\ join.plans[2].type = "Memoize"

\* The checks of verify_action for one item of each family.
JoinVerified(plan, c) ==
    \E join \in ToSet(MatchingJoin(plan, c.relations)) :
        /\ MethodMeets(c, JOIN_METHODS[join.type])
        /\ c.memoize = "force" => MemoizedInner(join)
        /\ c.memoize = "forbid" => ~MemoizedInner(join)

ScanVerified(plan, c) ==
    \E scan \in ToSet(MatchingScan(plan, c.relation)) :
        /\ MethodMeets(c, SCAN_METHODS[scan.type])
        /\ c.indexes # {} =>
              IndexNames(scan) # {} /\ IndexNames(scan) \subseteq c.indexes

DisabledVerified(plan, d) ==
    \E scan \in ToSet(MatchingScan(plan, d.relation)) :
        IndexNames(scan) \cap d.indexes = {}

\* Mutant: the workers of any Gather of the plan.
AllWorkerCounts(plan, relation) ==
    {n.workers : n \in {g \in ToSet(Nodes(plan)) : g.type = "Gather"}}

WorkerCounts(plan, relation) ==
    {n.workers : n \in {g \in ToSet(Nodes(plan)) :
                          g.type = "Gather" /\ relation \in RelationSet(g)}}

ParallelVerified(plan, p) ==
    \E scan \in ToSet(MatchingScan(plan, p.relation)) :
        /\ p.workers = 0 => ~scan.aware
        /\ p.workers > 0 /\ p.mode = "hard" =>
              scan.aware /\ p.workers \in WorkerCounts(plan, p.relation)

\* Whether to_wire keeps more than the version.
Steers(action) ==
    \/ action.leading # <<>> \/ DOMAIN action.settings # {}
    \/ Len(action.joins) + Len(action.scans) + Len(action.disabled)
       + Len(action.rows) + Len(action.parallel) > 0

\* parse_hint_diagnostics: "absent", "clean", or with hints it complains of
DumpVerified(action, dump) ==
    IF dump = "absent" THEN ~Steers(action) ELSE dump = "clean"

\* verify_action
Verified(action, plan, dump) ==
    /\ DumpVerified(action, dump)
    /\ action.leading # <<>> => action.leading = PlanJoinTree(plan)
    /\ \A c \in ToSet(action.joins) : JoinVerified(plan, c)
    /\ \A c \in ToSet(action.scans) : ScanVerified(plan, c)
    /\ \A d \in ToSet(action.disabled) : DisabledVerified(plan, d)
    /\ \A p \in ToSet(action.parallel) : ParallelVerified(plan, p)

----------------------------------------------------------------------------
(* Identity (plans/fingerprint.py).                                        *)

RECURSIVE CanonicalPlan(_, _)
CanonicalPlan(plan, structural) ==
    [plan EXCEPT !.observed = 0, !.estimate = IF structural THEN 0 ELSE @,
                 !.plans = [i \in DOMAIN @ |-> CanonicalPlan(@[i], structural)]]

TimingReuseKey(action, plan) ==
    [plan |-> CanonicalPlan(plan, FALSE), parallel |-> action.parallel,
     settings |-> action.settings]

----------------------------------------------------------------------------
(* One proposal from the policy to its verdict.                            *)

VARIABLES plan,    \* <<the explained plan>>
          dump,    \* what pg_hint_plan reported
          verdict  \* "none", "explained", "valid" or "invalid"

planVars == <<plan, dump, verdict>>
vars == <<actionVars, planVars>>

Init == ActionInit /\ plan = <<>> /\ dump = "absent" /\ verdict = "none"

\* PostgreSQL explains the query under the hints, with whatever plan it likes.
Explain ==
    /\ stage = "accepted" /\ verdict = "none" /\ Items(raw) <= MaxExplained
    /\ \E p \in PlanSpace : plan' = <<p>>
    /\ dump' \in {"absent", "clean", "complaint"}
    /\ verdict' = "explained" /\ UNCHANGED actionVars

\* verify_action
Verify ==
    /\ verdict = "explained"
    /\ verdict' = IF Verified(raw, plan[1], dump) THEN "valid" ELSE "invalid"
    /\ UNCHANGED <<actionVars, plan, dump>>

Next == (ActionNext /\ UNCHANGED planVars) \/ Explain \/ Verify

Spec == Init /\ [][Next]_vars

----------------------------------------------------------------------------
(* Properties.                                                             *)

\* A plan made for an action: its join tree, and methods it allows.
Trees == {t \in JoinTrees : IsInjective(Leaves[t]) /\ ToSet(Leaves[t]) = Relations}
Targets(action) == {RelationsOf(j) : j \in ToSet(action.joins)}
TreeFor(action) ==
    IF action.leading # <<>> THEN action.leading
    ELSE CHOOSE t \in Trees : Targets(action) \subseteq Subtrees[t]

Node(type, plans) == [type |-> type, alias |-> 0, index |-> "", aware |-> FALSE,
                      workers |-> 0, estimate |-> 0, observed |-> 0, plans |-> plans]
Named(methods, m) == CHOOSE n \in DOMAIN methods : methods[n] = m
Chosen(constraints, methods) ==
    LET allowed == {m \in methods : \A c \in constraints : MethodMeets(c, m)}
    IN  IF allowed \ {"seq"} # {} THEN CHOOSE m \in allowed \ {"seq"} : TRUE ELSE "seq"
UsableIndexes(action, r) ==
    LET asked == {s.indexes : s \in {x \in ToSet(action.scans) :
                                       x.relation = r /\ x.indexes # {}}}
    IN  (IF asked = {} THEN Indexes[r] ELSE UNION asked) \ DisabledFor(action, r)

LeafFor(action, r) ==
    LET usable == UsableIndexes(action, r)
        method == Chosen({s \in ToSet(action.scans) : s.relation = r},
                         IF usable = {} THEN {"seq"} ELSE ScanMethod)
        hard == {p \in ToSet(action.parallel) :
                   p.relation = r /\ p.workers > 0 /\ p.mode = "hard"}
        scan == [Node(Named(SCAN_METHODS, method), <<>>) EXCEPT
                    !.alias = r, !.aware = hard # {},
                    !.index = IF method = "seq" THEN "" ELSE CHOOSE i \in usable : TRUE]
    IN  IF hard = {} THEN scan
        ELSE [Node("Gather", <<scan>>) EXCEPT !.workers = (CHOOSE p \in hard : TRUE).workers]

RECURSIVE PlanFor(_, _)
PlanFor(action, tree) ==
    IF Len(tree) = 1 THEN LeafFor(action, tree[1])
    ELSE LET on == {j \in ToSet(action.joins) : RelationsOf(j) = ToSet(Leaves[tree])}
             memoize == \E j \in on : j.memoize = "force"
             inner == PlanFor(action, tree[2])
         IN  Node(Named(JOIN_METHODS,
                        IF memoize THEN "nestloop" ELSE Chosen(on, JoinMethod)),
                  <<PlanFor(action, tree[1]),
                    IF memoize THEN Node("Memoize", <<inner>>) ELSE inner>>)

(* An accepted action can be obeyed: there is a plan that verifies. What   *)
(* validation does not see is left to verification: joins without a leading *)
(* tree whose targets cross, and a scan of several index methods, or of a   *)
(* relation without indexes, that has no usable index.                      *)
TargetsCross(action) ==
    /\ action.leading = <<>>
    /\ \E s, t \in Targets(action) : s \cap t \notin {{}, s, t}
NoIndexLeft(action) ==
    \E s \in ToSet(action.scans) :
        /\ "seq" \notin AllowedMethods(s, ScanMethod)
        /\ UsableIndexes(action, s.relation) = {}
        /\ Cardinality(AllowedMethods(s, ScanMethod)) > 1 \/ Indexes[s.relation] = {}
AcceptedIsSatisfiable ==
    stage = "accepted" /\ verdict = "none" =>
        \/ TargetsCross(raw) \/ NoIndexLeft(raw)
        \/ Verified(raw, PlanFor(raw, TreeFor(raw)), "clean")

\* What an action asks of a plan, told by the sets of relations its nodes join.
Scans(p, r) == {n \in ToSet(Nodes(p)) : IsScan(n) /\ n.alias = r}
Joins(p) == {n \in ToSet(Nodes(p)) : IsJoin(n)}
Splits(p) == {<<RelationSet(n.plans[1]), RelationSet(n.plans[2])>> : n \in Joins(p)}
RECURSIVE SplitsOf(_)
SplitsOf(tree) ==
    IF Len(tree) = 1 THEN {}
    ELSE {<<ToSet(Leaves[tree[1]]), ToSet(Leaves[tree[2]])>>}
         \cup SplitsOf(tree[1]) \cup SplitsOf(tree[2])

Obeys(action, p) ==
    /\ action.leading # <<>> => Splits(p) = SplitsOf(action.leading)
    /\ \A c \in ToSet(action.joins) : \E n \in Joins(p) :
          /\ RelationSet(n) = RelationsOf(c)
          /\ JOIN_METHODS[n.type] \in AllowedMethods(c, JoinMethod)
          /\ c.memoize = AUTO \/ (c.memoize = "force") = (n.plans[2].type = "Memoize")
    /\ \A c \in ToSet(action.scans) : \A n \in Scans(p, c.relation) :
          /\ SCAN_METHODS[n.type] \in AllowedMethods(c, ScanMethod)
          /\ c.indexes # {} => \E i \in c.indexes : IndexNames(n) = {i}
    /\ \A d \in ToSet(action.disabled) : \A n \in Scans(p, d.relation) :
          IndexNames(n) \cap d.indexes = {}
    /\ \A c \in ToSet(action.parallel) : \A n \in Scans(p, c.relation) :
          /\ c.workers = 0 => ~n.aware
          /\ c.workers > 0 /\ c.mode = "hard" =>
                n.aware /\ \E g \in ToSet(Nodes(p)) :
                    g.type = "Gather" /\ g.workers = c.workers /\ n \in ToSet(Nodes(g))

Everywhere(p, f, v) == [p EXCEPT ![f] = v]
RECURSIVE Observe(_, _, _)
Observe(p, f, v) ==
    [Everywhere(p, f, v) EXCEPT !.plans = [i \in DOMAIN @ |-> Observe(@[i], f, v)]]

(* A plan is valid exactly if it does what the action asks, and its        *)
(* identity does not depend on what was observed when it ran, nor its      *)
(* structural identity on estimates; so plans of one identity get one      *)
(* verdict (verify_action, canonical_plan).                                *)
VerdictIsMeaning ==
    verdict \in {"valid", "invalid"} =>
        /\ (verdict = "valid") = (Obeys(raw, plan[1]) /\ DumpVerified(raw, dump))
        /\ LET ran == Observe(plan[1], "observed", 1)
               other == Observe(ran, "estimate", 1)
           IN  /\ TimingReuseKey(raw, ran) = TimingReuseKey(raw, plan[1])
               /\ CanonicalPlan(other, FALSE) # CanonicalPlan(ran, FALSE)
               /\ CanonicalPlan(other, TRUE) = CanonicalPlan(ran, TRUE)
               /\ Verified(raw, other, dump) = Verified(raw, plan[1], dump)
=============================================================================
