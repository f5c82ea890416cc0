---------------------------- MODULE MCExperimentRun ----------------------------
(***************************************************************************)
(* Instances of ExperimentRun for TLC.                                     *)
(***************************************************************************)
EXTENDS ExperimentRun

Plain(stage, run) ==
    [stage |-> stage, run |-> run, resume |-> FALSE, step |-> 0,
     source |-> Absent, adapter |-> FALSE]

AllCommands ==
    {Plain("prepare", New), [Plain("prepare", 0) EXCEPT !.resume = TRUE],
     Plain("prepare", 0),
     Plain("train", New), Plain("train", 0), [Plain("train", 0) EXCEPT !.adapter = TRUE],
     [Plain("train", 1) EXCEPT !.source = <<0>>],
     [Plain("evaluate", 0) EXCEPT !.step = Steps],
     Plain("evaluate", New), Plain("evaluate", 0),
     Plain("calibrate", New), Plain("calibrate", 0)}

Invocations == [sft |-> 2, rl |-> 2, eval |-> 3, calibrate |-> 3]

\* In the second world nothing of the validation split is accepted.
UnusableSplits == {<<"validation", 2>>}
=============================================================================
