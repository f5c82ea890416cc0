----------------------------- MODULE TaskSelection -----------------------------
(***************************************************************************)
(* The task selections of an experiment (qorl.taskset, and                 *)
(* resolve_selections of qorl.experiment.create): the tasks of the splits  *)
(* are sampled from the catalogs after exclusions, or train and validation *)
(* are those of a prepared dataset, and no topology of a query may be in   *)
(* two splits.                                                             *)
(*                                                                         *)
(* A task is a record of its benchmark, template and SQL text; two tasks   *)
(* may have the same text.  A template has a topology, which templates of  *)
(* both benchmarks may share.                                              *)
(***************************************************************************)
EXTENDS FiniteSetsExt, SequencesExt, Integers

CONSTANTS Catalog,      \* of each benchmark: its tasks
          Topology,     \* of each template
          Expressions,  \* selections a user may write
          Imports,      \* prepared datasets: selections of train and validation
          Earlier,      \* selections a user may exclude
          MaxExpressions  \* bound: of one request

TaskRole == <<"train", "validation", "test">>

ASSUME TaskAssumption ==
    /\ \A b \in DOMAIN Catalog :
          /\ IsFiniteSet(Catalog[b])
          /\ \A t \in Catalog[b] :
                /\ t.benchmark = b /\ t.template \in DOMAIN Topology /\ t.id \in Int
                \* The topology of a task is that of its text.
                /\ \A c \in DOMAIN Catalog : \A u \in Catalog[c] :
                      /\ t.id = u.id => t = u
                      /\ t.sql = u.sql => Topology[t.template] = Topology[u.template]
    /\ \A e \in Expressions :
          e.role \in {"train", "validation", "test"} /\ e.benchmark \in DOMAIN Catalog
    \* TaskSelection.validate_task_ids, TaskSet.resolve: what is not so is not read.
    /\ \A i \in Imports :
          /\ DOMAIN i = {"train", "validation"}
          /\ \A r \in DOMAIN i :
                /\ i[r].tasks # <<>> /\ i[r].tasks \in Seq(Catalog[i[r].benchmark])
                /\ IsInjective(i[r].tasks)

ExperimentMethod == {"sft", "rl", "eval", "calibrate"}

VARIABLES request,     \* what the user asks for
          selections,  \* the tasks of each role that has been selected
          resolving    \* "request", "select", "resolved", "rejected"

selectionVars == <<request, selections, resolving>>

\* The tasks of a selection (TaskSet.resolve).
TasksOf(selection) == ToSet(selection.tasks)

SelectionInit ==
    /\ request = [method |-> "none", import |-> <<>>, exclude |-> {}, tasksets |-> <<>>]
    /\ selections = <<>> /\ resolving = "request"

\* create_experiment: a dataset, for SFT only, fixes train and validation, and nothing
\* is excluded from it.
Request ==
    /\ resolving = "request"
    /\ \E method \in ExperimentMethod, import \in {<<>>} \cup {<<i>> : i \in Imports},
          exclude \in SUBSET Earlier, n \in 0 .. MaxExpressions :
          \E tasksets \in [1 .. n -> Expressions] :
             /\ request' = [method |-> method, import |-> import,
                            exclude |-> exclude, tasksets |-> tasksets]
             /\ selections' = IF import = <<>> THEN <<>> ELSE import[1]
             /\ resolving' =
                   IF /\ import # <<>>
                      /\ method # "sft" \/ exclude # {} \/ \E e \in ToSet(tasksets) : e.role # "test"
                   THEN "rejected" ELSE "select"

-----------------------------------------------------------------------------
(* select_tasks.                                                           *)

ExcludedTasks == UNION {TasksOf(s) : s \in request.exclude}

\* Mutant: only the IDs are excluded.
AvailableById(benchmark) == Catalog[benchmark] \ ExcludedTasks

Available(benchmark) ==
    {t \in Catalog[benchmark] : t.sql \notin {x.sql : x \in ExcludedTasks}}

OfTemplate(benchmark, template) ==
    {t \in Available(benchmark) : t.template = template}

\* parse_selection: <<template, count>> for each term; none select the benchmark.
TermsOk(e) ==
    /\ \A i, j \in DOMAIN e.terms : i # j => e.terms[i][1] # e.terms[j][1]
    /\ \A term \in ToSet(e.terms) :
          /\ term[2] >= 1
          /\ \E t \in Catalog[e.benchmark] : t.template = term[1]
          /\ term[2] <= Cardinality(OfTemplate(e.benchmark, term[1]))

\* The ways to sample.
Samples(e) ==
    IF e.terms = <<>> THEN {Available(e.benchmark)}
    ELSE {s \in SUBSET {t \in Available(e.benchmark) :
                          \E term \in ToSet(e.terms) : t.template = term[1]} :
             \A term \in ToSet(e.terms) :
                Cardinality({t \in s : t.template = term[1]}) = term[2]}

\* The tasks in the order of their IDs: one sequence, as no two have the same.
Sorted(tasks) ==
    {s \in [1 .. Cardinality(tasks) -> tasks] :
        \A i, j \in DOMAIN s : i < j => s[i].id < s[j].id}

RejectRequest == resolving' = "rejected" /\ UNCHANGED <<request, selections>>

\* One expression; the roles of the dataset are not seen by select_tasks.
SelectTasks ==
    /\ resolving = "select" /\ request.tasksets # <<>>
    /\ LET e == Head(request.tasksets)
       IN  \/ /\ e.role \notin DOMAIN selections /\ TermsOk(e)
              /\ \E tasks \in Samples(e) \ {{}} : \E listing \in Sorted(tasks) :
                    selections' =
                       [r \in DOMAIN selections \cup {e.role} |->
                           IF r = e.role THEN [benchmark |-> e.benchmark, tasks |-> listing]
                           ELSE selections[r]]
              /\ request' = [request EXCEPT !.tasksets = Tail(@)]
              /\ UNCHANGED resolving
           \/ /\ e.role \in DOMAIN selections \/ ~TermsOk(e) \/ Samples(e) \subseteq {{}}
              /\ RejectRequest

-----------------------------------------------------------------------------
(* validate_splits, in the order of the roles.                             *)

TopologiesOf(selection) == {Topology[t.template] : t \in TasksOf(selection)}

\* An owner of each topology that the roles before have.
ValidateSplits ==
    LET Owners[i \in 0 .. Len(TaskRole)] ==
          IF i = 0 THEN {}
          ELSE IF TaskRole[i] \notin DOMAIN selections THEN Owners[i - 1]
          ELSE Owners[i - 1] \cup
               {<<TaskRole[i], h>> : h \in {x \in TopologiesOf(selections[TaskRole[i]]) :
                                             \A o \in Owners[i - 1] : o[2] # x}}
    IN  \A i \in DOMAIN TaskRole :
            TaskRole[i] \in DOMAIN selections =>
                \A h \in TopologiesOf(selections[TaskRole[i]]) :
                    <<TaskRole[i], h>> \in Owners[Len(TaskRole)]

ExclusionsSelected ==
    \A x \in request.exclude :
        \E r \in DOMAIN selections : selections[r].benchmark = x.benchmark

\* The rest of resolve_selections.
Resolve ==
    /\ resolving = "select" /\ request.tasksets = <<>>
    /\ IF /\ ExclusionsSelected
          /\ IF request.method \in {"sft", "rl"}
             THEN {"train", "validation"} \subseteq DOMAIN selections
             ELSE DOMAIN selections = {"test"}
          /\ ValidateSplits
       THEN resolving' = "resolved" /\ UNCHANGED <<request, selections>>
       ELSE RejectRequest

SelectionNext == Request \/ SelectTasks \/ Resolve

SelectionSpec == SelectionInit /\ [][SelectionNext]_selectionVars

-----------------------------------------------------------------------------
(* What is resolved keeps what it is for: no query is evaluated whose      *)
(* topology, hence whose text, was trained on, nothing that was excluded   *)
(* comes back under another ID, and a test is taken from its own           *)
(* benchmark, once (taskset.selection.select_tasks, validate_splits).      *)
SplitsAreDisjoint ==
    resolving = "resolved" =>
        /\ \A r, s \in DOMAIN selections :
              r # s => \A a \in TasksOf(selections[r]), b \in TasksOf(selections[s]) :
                          a # b /\ Topology[a.template] # Topology[b.template]
        /\ \A r \in DOMAIN selections :
              /\ selections[r].tasks # <<>> /\ IsInjective(selections[r].tasks)
              /\ TasksOf(selections[r]) \subseteq Catalog[selections[r].benchmark]
              /\ \A x \in ExcludedTasks, t \in TasksOf(selections[r]) : t.sql # x.sql

=============================================================================
