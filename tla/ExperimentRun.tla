----------------------------- MODULE ExperimentRun -----------------------------
(***************************************************************************)
(* The stages of an experiment (qorl.experiment.run): every invocation of  *)
(* the entrypoint reads the experiment's inputs, claims or reopens a       *)
(* numbered run, and prepares a dataset (qorl.sft.dataset), trains         *)
(* (qorl.sft.train, qorl.rl.train), evaluates or calibrates in it.         *)
(* Invocations run side by side and share nothing but the files; any of    *)
(* them may fail or be killed at any step, and the next one finds what it  *)
(* left.                                                                   *)
(*                                                                         *)
(* Content is a version: of the inputs (config and task selections), of    *)
(* the world (base weights, tokenizer and code), of the adapter that       *)
(* --init-adapter names.  What is rendered or packed is the world that     *)
(* rendered it.  A file that may be missing is a sequence of at most one.  *)
(***************************************************************************)
EXTENDS Integers, FiniteSetsExt, SequencesExt

CONSTANTS Processes,
          Methods,         \* of the experiments considered
          Commands,        \* arguments an invocation may be given
          MaxInvocations,  \* bound: invocations of an experiment, by method
          MaxVersion,      \* bound: versions of inputs, world and adapter
          Unusable,        \* worlds in which a split has no accepted conversation
          Steps            \* optimizer steps of a training

ASSUME ExperimentAssumption ==
    /\ IsFiniteSet(Processes)
    /\ Methods \subseteq {"sft", "rl", "eval", "calibrate"}
    /\ \A m \in Methods : MaxInvocations[m] \in Nat
    /\ {MaxVersion, Steps} \subseteq Nat \ {0}

METHOD_STAGES == [sft |-> <<"prepare", "train", "evaluate">>, rl |-> <<"train", "evaluate">>,
                  eval |-> <<"evaluate">>, calibrate |-> <<"calibrate">>]
Splits == <<"training", "validation">>
New == -1                 \* no --run
Absent == <<>>
Bare == <<0, 0>>          \* a directory without its identity
Edited == MaxVersion + 1  \* a file changed by hand

VARIABLES method,   \* of the experiment
          current,  \* its inputs, in the experiment's directory
          world, adapter,
          runs,     \* the numbered outputs
          begun,    \* invocations so far
          proc      \* the processes

vars == <<method, current, world, adapter, runs, begun, proc>>
outside == <<method, current, world, adapter>>

Versions == 1 .. MaxVersion
Numbers == 0 .. MaxInvocations[method]  \* each invocation claims at most one

NoRun ==
    [exists |-> FALSE, inputs |-> 0,
     dataset |-> Absent, rendered |-> [s \in ToSet(Splits) |-> 0],
     packed |-> [s \in ToSet(Splits) |-> 0], report |-> Absent,
     training |-> FALSE, snapshot |-> Absent, identity |-> Absent, config |-> Absent,
     attempts |-> {},  \* history: the attempts recorded, with their settings
     checkpoints |-> [k \in 1 .. Steps |-> Absent],
     adapters |-> [k \in 1 .. Steps |-> Absent],
     outcome |-> "none", slots |-> {}, calibration |-> FALSE]

Idle == [pc |-> "idle", id |-> 0, command |-> Absent, run |-> New, target |-> New,
         inputs |-> 0, world |-> 0, adapter |-> 0, at |-> 0,
         config |-> Absent]  \* what its trainer has read

Command(p) == proc[p].command[1]
Run(p) == runs[proc[p].run]

\* What earlier invocations may have left in run 0: a prepared dataset, a training.
PreparedRun ==
    [NoRun EXCEPT !.exists = TRUE, !.inputs = 1, !.dataset = <<1, 1>>,
                  !.rendered = [s \in DOMAIN @ |-> 1], !.packed = [s \in DOMAIN @ |-> 1],
                  !.report = <<[s \in ToSet(Splits) |-> 1]>>]

TrainedRun ==
    LET config == [initial |-> FALSE, source |-> Absent]
        checkpoint == [by |-> 0, rows |-> PreparedRun.packed, base |-> 1,
                       initial |-> 0, source |-> Absent]
    IN  [PreparedRun EXCEPT
            !.training = TRUE,
            !.identity = <<[by |-> 0, inputs |-> 1, report |-> PreparedRun.report, base |-> 1,
                            source |-> Absent, initial |-> 0, config |-> config,
                            began |-> 0]>>,
            !.config = <<config>>,
            !.attempts = {[by |-> 0, config |-> config]},
            !.checkpoints = [k \in 1 .. Steps |-> <<checkpoint>>],
            !.adapters[Steps] = <<checkpoint>>,
            !.outcome = "complete"]

TrainedByRl ==
    [TrainedRun EXCEPT !.dataset = Absent, !.rendered = NoRun.rendered, !.packed = NoRun.packed,
                       !.report = Absent, !.identity[1].report = Absent]

Past == [sft |-> {PreparedRun, TrainedRun}, rl |-> {TrainedByRl}, eval |-> {}, calibrate |-> {}]

Init ==
    /\ method \in Methods
    /\ current = 1 /\ world = 1 /\ adapter = 1
    /\ \E r \in {NoRun} \cup Past[method] :
          runs = [n \in Numbers |-> IF n = 0 THEN r ELSE NoRun]
    /\ begun = 0
    /\ proc = [p \in Processes |-> Idle]

-----------------------------------------------------------------------------
(* Steps of an invocation.                                                 *)

Goto(p, pc) == proc' = [proc EXCEPT ![p].pc = pc]
End(p) == proc' = [proc EXCEPT ![p] = Idle]
Write(p, field, value) == runs' = [runs EXCEPT ![proc[p].run][field] = value]

\* A check that fails raises: the invocation ends, what it wrote stays.
Require(p, condition, pc) == IF condition THEN Goto(p, pc) ELSE End(p)

At(p, pc) == proc[p].pc = pc /\ UNCHANGED <<outside, begun>>

\* validate_stage, and the refusal to resume a calibration.
ValidStage(c) ==
    /\ c.adapter => method = "sft" /\ c.stage = "train" /\ c.source = Absent
    /\ c.source # Absent => method = "sft" /\ c.stage = "train"
    /\ c.stage \in ToSet(METHOD_STAGES[method])
    /\ c.resume => c.stage = "prepare" /\ c.run # New
    /\ c.run = New => c.stage = METHOD_STAGES[method][1]
    /\ (c.step # 0) = (c.stage = "evaluate" /\ method \in {"sft", "rl"})

\* load_inputs of a run whose copies are whole, compared with the experiment's.
SameInputs(n) == runs[n].inputs = current

\* The part of run_experiment before the stage.
Invoke(p) ==
    /\ proc[p].pc = "idle" /\ begun < MaxInvocations[method]
    /\ \E c \in Commands :
          /\ ValidStage(c)
          /\ c.run # New =>
                /\ c.run \in Numbers
                /\ SameInputs(c.run)
                /\ c.stage = "calibrate" => ~runs[c.run].calibration
          /\ proc' = [proc EXCEPT ![p] =
                [Idle EXCEPT !.pc = IF c.run = New THEN "list" ELSE c.stage,
                             !.id = begun + 1, !.command = <<c>>, !.run = c.run,
                             !.inputs = current]]
    /\ begun' = begun + 1
    /\ UNCHANGED <<outside, runs>>

\* numbered_output: the next number of a listing, then a mkdir that may find it taken.
NextNumber(numbers) == Max(numbers \cup {-1}) + 1
Existing == {n \in Numbers : runs[n].exists}

ListRuns(p) ==
    /\ At(p, "list")
    /\ proc' = [proc EXCEPT ![p].pc = "make", ![p].target = NextNumber(Existing)]
    /\ UNCHANGED runs

\* Mutant: mkdir(exist_ok=True).
MakeRunOver(p) ==
    /\ At(p, "make")
    /\ proc' = [proc EXCEPT ![p].pc = "copy", ![p].run = proc[p].target]
    /\ runs' = [runs EXCEPT ![proc[p].target].exists = TRUE]

\* Mutant: a number that is taken is tried again.
MakeRunAgain(p) ==
    /\ At(p, "make")
    /\ IF proc[p].target \in Existing
       THEN UNCHANGED <<proc, runs>>
       ELSE /\ proc' = [proc EXCEPT ![p].pc = "copy", ![p].run = proc[p].target]
            /\ runs' = [runs EXCEPT ![proc[p].target].exists = TRUE]

MakeRun(p) ==
    /\ At(p, "make")
    /\ IF proc[p].target \in Existing
       THEN Goto(p, "list") /\ UNCHANGED runs
       ELSE /\ proc' = [proc EXCEPT ![p].pc = "copy", ![p].run = proc[p].target]
            /\ runs' = [runs EXCEPT ![proc[p].target].exists = TRUE]

\* create_run; the last copy makes the run one that can be reopened.
CopyInputs(p) ==
    /\ At(p, "copy")
    /\ Write(p, "inputs", proc[p].inputs)
    /\ Goto(p, Command(p).stage)

-----------------------------------------------------------------------------
(* prepare_dataset.                                                        *)

Trainable(report) == \A s \in ToSet(Splits) : <<s, report[s]>> \notin Unusable
Unchanged(r) == r.report = <<r.packed>>

Prepare(p) ==
    /\ At(p, "prepare")
    /\ Require(p, Run(p).dataset = Absent \/ Command(p).resume, "identify")
    /\ UNCHANGED runs

\* The source and the tokenizer are loaded, and compared with those of an earlier
\* preparation.
Identify(p) ==
    /\ At(p, "identify")
    /\ \/ /\ Run(p).dataset = Absent
          /\ Write(p, "dataset", Bare)
          /\ proc' = [proc EXCEPT ![p].world = world, ![p].pc = "claimed"]
       \/ /\ Run(p).dataset = <<proc[p].inputs, world>>
          /\ proc' = [proc EXCEPT ![p].world = world, ![p].pc = "reuse"]
          /\ UNCHANGED runs
       \/ /\ Run(p).dataset \notin {Absent, <<proc[p].inputs, world>>}
          /\ End(p) /\ UNCHANGED runs

RecordPreparation(p) ==
    /\ At(p, "claimed")
    /\ Write(p, "dataset", <<proc[p].inputs, proc[p].world>>)
    /\ Goto(p, "reuse")

\* A report ends the preparation, whether or not its files are unchanged; without
\* one the first split is rendered.
Reuse(p) ==
    /\ At(p, "reuse")
    /\ IF Run(p).report = Absent
       THEN proc' = [proc EXCEPT ![p].pc = "render", ![p].at = 1]
       ELSE End(p)
    /\ UNCHANGED runs

\* Renderings that are there are kept.
Render(p) ==
    /\ At(p, "render")
    /\ LET split == Splits[proc[p].at]
       IN  IF Run(p).rendered[split] = 0
           THEN Write(p, "rendered", [Run(p).rendered EXCEPT ![split] = proc[p].world])
           ELSE UNCHANGED runs
    /\ Goto(p, "pack")

Pack(p) ==
    /\ At(p, "pack")
    /\ LET split == Splits[proc[p].at]
       IN  Write(p, "packed", [Run(p).packed EXCEPT ![split] = Run(p).rendered[split]])
    /\ IF proc[p].at < Len(Splits)
       THEN proc' = [proc EXCEPT ![p].pc = "render", ![p].at = @ + 1]
       ELSE Goto(p, "report")

ReportPreparation(p) ==
    /\ At(p, "report")
    /\ Write(p, "report", <<Run(p).packed>>)
    /\ End(p)

-----------------------------------------------------------------------------
(* train.  What SFT trains on is in the run; RL has no dataset.            *)

\* Mutant: the checksums of the files are not compared.
PreparedUnverified(n) ==
    /\ runs[n].dataset # Absent /\ runs[n].dataset[1] = runs[n].inputs
    /\ runs[n].report # Absent
    /\ Trainable(runs[n].report[1])

\* prepared_report
Prepared(n) ==
    /\ runs[n].dataset # Absent /\ runs[n].dataset[1] = runs[n].inputs
    /\ runs[n].report # Absent /\ Unchanged(runs[n])
    /\ Trainable(runs[n].report[1])

AdapterOnBase(file) == file[1].base = world

\* Mutant: that there is a configuration is enough.
CheckedThere(r) == r.identity # Absent /\ r.config # Absent

\* The trainer's configuration has the checksum that the identity gives.
Checked(r) == r.identity # Absent /\ r.config = <<r.identity[1].config>>

\* continuation_source: the completed run and its final checkpoint, the same rows,
\* tokenizer and base, and more epochs (a later version of the inputs).
Continues(n, source) ==
    LET r == runs[source]
    IN  /\ source \in Numbers \ {n} /\ r.outcome = "complete" /\ Checked(r)
        /\ r.identity[1].inputs = r.inputs
        /\ Prepared(source) /\ r.identity[1].report = r.report
        /\ r.packed = runs[n].packed
        /\ r.dataset[2] = runs[n].dataset[2]
        /\ r.inputs < runs[n].inputs
        /\ r.identity[1].base = world
        /\ r.checkpoints[Steps] # Absent
        /\ r.adapters[Steps] = r.checkpoints[Steps] /\ AdapterOnBase(r.adapters[Steps])

\* Mutant: an attempt that has not ended is trained over.
TrainAgain(p) ==
    /\ At(p, "train") /\ method = "sft"
    /\ LET source == Command(p).source
       IN  Require(p, /\ Run(p).outcome = "none"
                      /\ Prepared(proc[p].run)
                      /\ source # Absent => Continues(proc[p].run, source[1]),
                   IF Command(p).adapter THEN "initialize" ELSE "attempt")
    /\ UNCHANGED runs

Train(p) ==
    /\ At(p, "train") /\ method = "sft"
    /\ LET source == Command(p).source
       IN  Require(p, /\ ~Run(p).training
                      /\ Prepared(proc[p].run)
                      /\ source # Absent => Continues(proc[p].run, source[1]),
                   IF Command(p).adapter THEN "initialize" ELSE "attempt")
    /\ UNCHANGED runs

TrainRl(p) ==
    /\ At(p, "train") /\ method = "rl"
    /\ Require(p, ~Run(p).training, "claim")
    /\ UNCHANGED runs

\* RL: training.mkdir().
ClaimTraining(p) ==
    /\ At(p, "claim")
    /\ Require(p, ~Run(p).training, "attempt")
    /\ IF Run(p).training THEN UNCHANGED runs ELSE Write(p, "training", TRUE)

\* initialization_source verifies the adapter there is now.
VerifyAdapter(p) ==
    /\ At(p, "initialize")
    /\ proc' = [proc EXCEPT ![p].adapter = adapter, ![p].pc = "snapshot"]
    /\ UNCHANGED runs

\* SFT: the verified adapter is copied into a directory that must be new, and must
\* not have changed meanwhile.
CopyAdapter(p) ==
    /\ At(p, "snapshot")
    /\ IF Run(p).snapshot = Absent
       THEN runs' = [runs EXCEPT ![proc[p].run].training = TRUE,
                                 ![proc[p].run].snapshot = <<adapter>>]
       ELSE UNCHANGED runs
    /\ Require(p, Run(p).snapshot = Absent /\ adapter = proc[p].adapter, "attempt")

\* What of the trainer's configuration is the invocation's own: whether it starts from
\* the run's snapshot of an adapter, and the run that it continues.
Configuration(p) == [initial |-> Command(p).adapter, source |-> Command(p).source]

\* The identity, with the checksum of the configuration that is written next.
RecordAttempt(p) ==
    /\ At(p, "attempt")
    /\ runs' = [runs EXCEPT ![proc[p].run].training = TRUE,
                            ![proc[p].run].identity =
          <<[by |-> proc[p].id, inputs |-> proc[p].inputs, report |-> Run(p).report,
             base |-> world, source |-> Command(p).source,
             initial |-> IF Command(p).adapter THEN proc[p].adapter ELSE 0,
             config |-> Configuration(p),
             began |-> begun]>>,  \* history: the invocations there were
                            ![proc[p].run].attempts =
          @ \cup {[by |-> proc[p].id, config |-> Configuration(p)]}]
    /\ Goto(p, "configure")

\* One file in the run, whoever else trains there.
WriteConfig(p) ==
    /\ At(p, "configure")
    /\ Write(p, "config", <<Configuration(p)>>)
    /\ Goto(p, "launch")

\* The trainer's process starts and reads the configuration that is there by then.
StartTrainer(p) ==
    /\ At(p, "launch")
    /\ proc' = [proc EXCEPT ![p].pc = "trainer", ![p].at = 1, ![p].config = Run(p).config]
    /\ UNCHANGED runs

\* What that configuration makes it read.
TrainerInput(p) ==
    LET config == proc[p].config[1]
    IN  [rows |-> Run(p).packed, base |-> world, source |-> config.source,
         initial |-> IF config.initial THEN Run(p).snapshot[1] ELSE 0]

\* The trainer, external code, saves its next checkpoint.
SaveCheckpoint(p) ==
    /\ At(p, "trainer") /\ proc[p].at <= Steps
    /\ LET read == TrainerInput(p)
           checkpoint == [by |-> proc[p].id, rows |-> read.rows, base |-> read.base,
                          initial |-> read.initial, source |-> read.source]
       IN  Write(p, "checkpoints",
                 [Run(p).checkpoints EXCEPT ![proc[p].at] = <<checkpoint>>])
    /\ proc' = [proc EXCEPT ![p].at = @ + 1]

TrainerEnds(p) ==
    /\ At(p, "trainer") /\ method = "sft"
    /\ proc' = IF proc[p].at > Steps
               THEN [proc EXCEPT ![p].at = Steps, ![p].pc = "select"]
               ELSE [proc EXCEPT ![p] = Idle]
    /\ UNCHANGED runs

\* RL reports on its trainer however that ended, and if it was never started.
LaunchEnds(p) ==
    /\ proc[p].pc \in {"configure", "launch", "trainer"} /\ method = "rl"
    /\ UNCHANGED <<outside, begun>>
    /\ Write(p, "outcome", "partial")
    /\ Require(p, proc[p].at > Steps, "finish")

FinishTraining(p) ==
    /\ At(p, "finish") /\ method = "sft"
    /\ Write(p, "outcome", "complete")
    /\ End(p)

FinishRl(p) ==
    /\ At(p, "finish") /\ method = "rl"
    /\ End(p)
    /\ IF Run(p).checkpoints[Steps] # Absent
       THEN Write(p, "outcome", "complete") ELSE UNCHANGED runs

-----------------------------------------------------------------------------
(* checkpoint_model and export_adapter, for an evaluation and for the end  *)
(* of an SFT training.                                                     *)

AfterExport(p) == IF Command(p).stage = "train" THEN "finish" ELSE "slot"

CheckpointModel(p) ==
    /\ At(p, "select")
    /\ LET r == Run(p)
           k == proc[p].at
       IN  IF /\ Checked(r) /\ r.identity[1].base = world
              /\ k \in DOMAIN r.checkpoints /\ r.checkpoints[k] # Absent
              /\ r.adapters[k] # Absent =>
                    AdapterOnBase(r.adapters[k]) /\ r.adapters[k] = r.checkpoints[k]
           THEN proc' = [proc EXCEPT ![p].world = world,
                    ![p].pc = IF r.adapters[k] = Absent THEN "export" ELSE AfterExport(p)]
           ELSE End(p)
    /\ UNCHANGED runs

Select(p) == method = "sft" /\ CheckpointModel(p)
SelectRl(p) == method = "rl" /\ CheckpointModel(p)

\* The staged adapter is renamed to a name that must be free.
Export(p) ==
    /\ At(p, "export")
    /\ LET r == Run(p)
           k == proc[p].at
       IN  /\ Require(p, r.adapters[k] = Absent, AfterExport(p))
           /\ IF r.adapters[k] = Absent
              THEN Write(p, "adapters", [r.adapters EXCEPT ![k] = r.checkpoints[k]])
              ELSE UNCHANGED runs

Evaluate(p) ==
    /\ At(p, "evaluate")
    /\ proc' = IF Command(p).step = 0 THEN [proc EXCEPT ![p].pc = "slot"]
               ELSE [proc EXCEPT ![p].pc = "select", ![p].at = Command(p).step]
    /\ UNCHANGED runs

\* numbered_output again, for the results of this invocation.
ListSlots(p) ==
    /\ At(p, "slot")
    /\ proc' = [proc EXCEPT ![p].pc = "open", ![p].target = NextNumber(Run(p).slots)]
    /\ UNCHANGED runs

MakeSlot(p) ==
    /\ At(p, "open")
    /\ Goto(p, IF proc[p].target \in Run(p).slots THEN "slot" ELSE "measure")
    /\ Write(p, "slots", Run(p).slots \cup {proc[p].target})

\* calibrate makes its directory, which must be new.
Calibrate(p) ==
    /\ At(p, "calibrate")
    /\ Require(p, ~Run(p).calibration, "measure")
    /\ Write(p, "calibration", TRUE)

\* evaluate and measure have modules of their own.
Measure(p) == At(p, "measure") /\ End(p) /\ UNCHANGED runs

-----------------------------------------------------------------------------
(* An exception, an interrupt or a signal that kills the process and its   *)
(* trainer.                                                                *)
Fail(p) ==
    /\ proc[p].pc \notin {"idle", "trainer"}
    /\ End(p)
    /\ IF proc[p].pc = "copy"
       THEN runs' = [runs EXCEPT ![proc[p].run] = NoRun]  \* rmtree
       ELSE UNCHANGED runs
    /\ UNCHANGED <<outside, begun>>

Kill(p) ==
    /\ proc[p].pc # "idle"
    /\ End(p)
    /\ UNCHANGED <<outside, begun, runs>>

\* The user edits the experiment; the adapter of another project, when that matters;
\* and between invocations a prepared file, the base or the installed code.
EditInputs ==
    /\ current < MaxVersion /\ current' = current + 1
    /\ UNCHANGED <<method, world, adapter, runs, begun, proc>>

Quiet == \A p \in Processes : proc[p].pc = "idle"

Upgrade ==
    /\ method \in {"sft", "rl"}
    /\ Quiet /\ world < MaxVersion /\ world' = world + 1
    /\ UNCHANGED <<method, current, adapter, runs, begun, proc>>

EditAdapter ==
    /\ adapter < MaxVersion /\ adapter' = adapter + 1
    /\ \E p \in Processes : proc[p].pc = "snapshot"
    /\ UNCHANGED <<method, current, world, runs, begun, proc>>

EditRows ==
    /\ Quiet
    /\ \E n \in Numbers, s \in ToSet(Splits) :
          /\ runs[n].packed[s] \in Versions
          /\ runs' = [runs EXCEPT ![n].packed[s] = Edited]
    /\ UNCHANGED <<outside, begun, proc>>

Step(p) ==
    \/ ListRuns(p) \/ MakeRun(p) \/ CopyInputs(p)
    \/ Prepare(p) \/ Identify(p) \/ RecordPreparation(p) \/ Reuse(p)
    \/ Render(p) \/ Pack(p) \/ ReportPreparation(p)
    \/ Train(p) \/ VerifyAdapter(p) \/ CopyAdapter(p) \/ TrainRl(p) \/ ClaimTraining(p)
    \/ RecordAttempt(p) \/ WriteConfig(p) \/ StartTrainer(p)
    \/ SaveCheckpoint(p) \/ TrainerEnds(p) \/ LaunchEnds(p)
    \/ FinishTraining(p) \/ FinishRl(p)
    \/ Evaluate(p) \/ Select(p) \/ SelectRl(p) \/ Export(p) \/ ListSlots(p) \/ MakeSlot(p)
    \/ Calibrate(p) \/ Measure(p)

Next ==
    \/ \E p \in Processes : Invoke(p) \/ Step(p) \/ Fail(p) \/ Kill(p)
    \/ EditInputs \/ Upgrade \/ EditAdapter \/ EditRows

Spec == Init /\ [][Next]_vars

\* Processes run; trainings, evaluations and calibrations end.
FairSpec == Spec /\ \A p \in Processes : WF_vars(Step(p))

-----------------------------------------------------------------------------
TypeOK ==
    /\ method \in Methods /\ begun \in 0 .. MaxInvocations[method]
    /\ {current, world, adapter} \subseteq Versions
    /\ DOMAIN runs = Numbers /\ DOMAIN proc = Processes
    /\ \A n \in Numbers :
          /\ runs[n].inputs \in 0 .. MaxVersion
          /\ runs[n].slots \subseteq Numbers
          /\ runs[n].outcome \in {"none", "partial", "complete"}

\* Nobody else has the directory that an invocation has claimed, and a run is used
\* when its inputs are whole, by invocations that have read the same.
Claims(p) ==
    IF proc[p].pc = "measure"
    THEN {<<proc[p].run, IF Command(p).stage = "calibrate" THEN New ELSE proc[p].target>>}
    ELSE {}
ClaimsRun(p) == proc[p].run # New /\ Command(p).run = New

OutputsAreOwned ==
    /\ \A p, q \in Processes :
          p # q => /\ Claims(p) \cap Claims(q) = {}
                   /\ ClaimsRun(p) /\ ClaimsRun(q) => proc[p].run # proc[q].run
    /\ \A p \in Processes :
          proc[p].run # New /\ proc[p].pc # "copy" => Run(p).inputs = proc[p].inputs

\* What is in a dataset was rendered with one tokenizer, that of its identity, and the
\* report of a dataset names everything that identity prepares.
DatasetsAreOfAPiece ==
    \A n \in Numbers :
        LET r == runs[n]
        IN  IF r.dataset \in {Absent, Bare}
            THEN r.rendered = NoRun.rendered /\ r.packed = NoRun.packed /\ r.report = Absent
            ELSE /\ r.dataset[1] = r.inputs
                 /\ \A s \in ToSet(Splits) :
                       /\ r.rendered[s] \in {0, r.dataset[2]}
                       /\ r.packed[s] \in {0, r.dataset[2], Edited}
                       /\ r.report # Absent => r.report[1][s] = r.dataset[2]

(* Runs, results and calibrations have one owner each, no run mixes inputs *)
(* or tokenizers, and a report of a preparation is of all of it: whatever  *)
(* runs beside it, and wherever an earlier invocation was interrupted      *)
(* (experiment.run.numbered_output, create_run, sft.dataset).              *)
ExperimentInv == TypeOK /\ OutputsAreOwned /\ DatasetsAreOfAPiece

\* The checksum tells the settings of the attempt on record from those of the others in
\* the run: nobody else has the same, or everybody has.
Telling(r) ==
    LET i == r.identity[1]
    IN  \/ \A a \in r.attempts : a.config = i.config => a.by = i.by
        \/ \A a \in r.attempts : a.config = i.config

\* What a training is recorded to have used is what it used: the rows of the report and
\* the base weights, whoever trained beside it; the initial adapter and the training it
\* continues, of a run that passes the check of its configuration.  A training that is
\* complete has its final checkpoint; one that continues another continues a complete
\* one.
TrainedAsRecorded ==
    \A n \in {m \in Numbers : runs[m].identity # Absent} :
        LET r == runs[n]
            i == r.identity[1]
        IN  /\ i.inputs = r.inputs
            /\ method = "sft" => i.report # Absent
            /\ \A k \in {l \in 1 .. Steps : r.checkpoints[l] # Absent} :
                  LET c == r.checkpoints[k][1]
                  IN  /\ c.base = i.base
                      /\ method = "sft" => c.rows = i.report[1]
                      /\ Checked(r) /\ Telling(r) /\ c.by = i.by =>
                            c.initial = i.initial /\ c.source = i.source
            /\ r.outcome = "complete" => r.checkpoints[Steps] # Absent
            /\ i.source # Absent => runs[i.source[1]].outcome = "complete"

\* An evaluation serves an adapter on the base weights it was trained on.
ServedOnItsBase ==
    \A p \in Processes :
        proc[p].pc = "measure" /\ Command(p).step # 0 =>
            /\ Run(p).adapters[Command(p).step] # Absent
            /\ Run(p).adapters[Command(p).step][1].base = proc[p].world

(* What a training is recorded to have used is what it used: the rows of   *)
(* the report and the base weights, whoever trained beside it; and, of a   *)
(* run whose configuration still has the recorded checksum, the adapter or *)
(* the complete training it starts from, although trainings beside it      *)
(* write the file that its trainer reads.  An evaluation serves an adapter *)
(* on the base it was trained on (sft.train.train,                         *)
(* sft.train.checkpoint_model, rl.train).                                  *)
Provenance == TrainedAsRecorded /\ ServedOnItsBase

(* A training attempt is never replaced by a later one, however it ended;  *)
(* of RL not even by one that began beside it (sft.train.train,            *)
(* rl.train.train).                                                        *)
AttemptStands ==
    [][\A n \in Numbers :
          runs[n].identity # Absent /\ runs'[n].identity # runs[n].identity =>
              /\ method = "sft"
              /\ runs'[n].identity[1].by <= runs[n].identity[1].began]_vars

(* Every invocation ends, the loop over numbers that others take included  *)
(* (experiment.run.numbered_output).                                       *)
InvocationsEnd ==
    \A p \in Processes : proc[p].pc # "idle" ~> proc[p].pc = "idle"
=============================================================================
