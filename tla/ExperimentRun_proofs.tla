------------------------- MODULE ExperimentRun_proofs -------------------------
(***************************************************************************)
(* Invocations of an experiment that run beside each other, for any number *)
(* of processes, invocations, versions and training steps: ExperimentInv   *)
(* and Provenance hold in every state, and AttemptStands of every step.    *)
(*                                                                         *)
(* IInv says what a process has found or made in its run (Placed), what a  *)
(* run is whoever uses it (RunStands), and what two processes in a run do  *)
(* not share (Apart).  A step of a process keeps it when the others in the *)
(* run keep what they rely on (TouchInv).  Two of its parts are counts:    *)
(* every number that is taken or tried is below the number of invocations  *)
(* less those that still want one, so that the numbers suffice.            *)
(*                                                                         *)
(* AttemptInv: an identity is only there with the training directory; who  *)
(* has passed the check for that directory was invoked before any identity *)
(* that it finds later was recorded; and of RL only the one process that   *)
(* has made the directory gets that far.                                   *)
(*                                                                         *)
(* ProvInv: every checkpoint of a run, whoever saved it, is of the rows    *)
(* and the base of the identity that is there (RunTrained).  That lasts    *)
(* while two attempts are in one run because nobody who trains lives       *)
(* through a change of the base, so that both have the same, and because   *)
(* the rows of a report that names them are packed again as they were      *)
(* (Grown).  Its adapter and its source are those of the settings of its   *)
(* own attempt, or that attempt is Overtaken: the configuration in the run *)
(* is no longer its own, or is also that of another (Configured).  That    *)
(* stays so once it is (OvertakenGrows), it is so of a trainer that has    *)
(* read another's configuration (Configures), and where the checksum tells *)
(* it is not so of the attempt on record.  A checkpoint that was found     *)
(* stays until it is exported and served (Trains), and what a training     *)
(* continues stays complete (Sourced).                                     *)
(***************************************************************************)
EXTENDS ExperimentRun, FiniteSetTheorems, WellFoundedInduction, TLAPS

-----------------------------------------------------------------------------
(* The inductive invariant.                                                *)

Preparing == {"reuse", "render", "pack", "report"}

\* Runs and processes are records with the fields of NoRun and Idle.
Shapes ==
    /\ runs = [n \in Numbers |-> runs[n]]
    /\ \A n \in Numbers : runs[n] = [f \in DOMAIN NoRun |-> runs[n][f]]
    /\ \A p \in Processes : proc[p] = [f \in DOMAIN Idle |-> proc[p][f]]

\* A run, whoever uses it.
RunStands(r) ==
    /\ r.inputs \in 0 .. MaxVersion
    /\ r.slots \subseteq Numbers
    /\ r.outcome \in {"none", "partial", "complete"}
    /\ ~r.exists => r.inputs = 0 /\ r.dataset = Absent
    /\ DOMAIN r.rendered = {"training", "validation"}
    /\ DOMAIN r.packed = {"training", "validation"}
    /\ IF r.dataset \in {Absent, Bare}
       THEN r.rendered = NoRun.rendered /\ r.packed = NoRun.packed /\ r.report = Absent
       ELSE /\ r.dataset[1] = r.inputs
            /\ \A t \in {"training", "validation"} :
                  /\ r.rendered[t] \in {0, r.dataset[2]}
                  /\ r.packed[t] \in {0, r.dataset[2], Edited}
                  /\ r.report # Absent => r.report[1][t] = r.dataset[2]

\* The state s of a process, and what that process has found or made in its run r.
Placed(s, r) ==
    /\ s.run \in Numbers \cup {New}
    /\ s.run = New <=> s.pc \in {"idle", "list", "make"}
    /\ s.pc # "idle" => s.inputs \in Versions
    /\ s.pc \in {"list", "make", "copy"} =>
          /\ s.command[1].run = New
          /\ s.command[1].stage \in {"prepare", "train", "evaluate", "calibrate"}
    /\ s.pc = "calibrate" => s.command[1].stage = "calibrate"
    /\ s.pc # "idle" /\ s.command[1].stage = "calibrate" =>
          s.pc \in {"list", "make", "copy", "calibrate", "measure"}
    /\ s.run # New =>
          /\ r.exists
          /\ IF s.pc = "copy" THEN r.inputs = 0 /\ r.dataset = Absent
             ELSE r.inputs = s.inputs
    /\ s.pc = "measure" =>
          IF s.command[1].stage = "calibrate" THEN r.calibration = TRUE
          ELSE s.target \in r.slots
    /\ s.pc = "claimed" => r.dataset = Bare /\ s.world \in Versions
    /\ s.pc \in Preparing => r.dataset = <<s.inputs, s.world>> /\ s.world \in Versions
    /\ s.pc \in {"render", "pack"} =>
          /\ s.at \in {1, 2}
          /\ s.at = 2 => r.packed["training"] = s.world
    /\ s.pc = "pack" => r.rendered[Splits[s.at]] = s.world
    /\ s.pc = "report" => \A t \in {"training", "validation"} : r.packed[t] = s.world

\* Two processes share no run, results or preparation that both have claimed.
Claimed(s) == s.run # New /\ s.command[1].run = New

Apart(s, t) ==
    s.run = t.run =>
        /\ ~(Claimed(s) /\ Claimed(t))
        /\ ~(s.pc = "claimed" /\ t.pc = "claimed")
        /\ s.pc = "measure" /\ t.pc = "measure" =>
              /\ ~(s.command[1].stage = "calibrate" /\ t.command[1].stage = "calibrate")
              /\ s.command[1].stage # "calibrate" /\ t.command[1].stage # "calibrate" =>
                    s.target # t.target

\* There are numbers left for those who still take one.
Numbering == {p \in Processes : proc[p].pc \in {"list", "make"}}
Working == {p \in Processes : proc[p].pc \notin {"idle", "measure"}}

RunsCounted ==
    /\ \A n \in Existing \cup {-1} : n + Cardinality(Numbering) <= begun
    /\ \A p \in Processes : proc[p].pc = "make" =>
          proc[p].target \in Nat /\ proc[p].target + Cardinality(Numbering) <= begun + 1

SlotsCounted ==
    /\ \A m \in Numbers : \A n \in runs[m].slots \cup {-1} :
          n + Cardinality(Working) <= begun
    /\ \A p \in Processes : proc[p].pc = "open" =>
          proc[p].target \in Nat /\ proc[p].target + Cardinality(Working) <= begun + 1

Base ==
    /\ method \in Methods /\ begun \in 0 .. MaxInvocations[method]
    /\ {current, world, adapter} \subseteq Versions
    /\ DOMAIN runs = Numbers /\ DOMAIN proc = Processes

IInv ==
    /\ Base /\ Shapes /\ RunsCounted /\ SlotsCounted
    /\ \A n \in Numbers : RunStands(runs[n])
    /\ \A p \in Processes : Placed(proc[p], runs[proc[p].run])
    /\ \A p, q \in Processes : p # q => Apart(proc[p], proc[q])

-----------------------------------------------------------------------------
(* Facts about constants and sets.                                         *)

\* The splits of a dataset, in the order in which they are rendered.
LEMMA SplitFacts ==
    /\ ToSet(Splits) = {"training", "validation"}
    /\ DOMAIN Splits = {1, 2} /\ Len(Splits) = 2
    /\ Splits[1] = "training" /\ Splits[2] = "validation"
BY DEF Splits, ToSet

\* The next number of a listing is above all of it, and one above the highest
\* (experiment.run.numbered_output).
LEMMA Highest ==
    ASSUME NEW S, S \subseteq Nat, NEW k \in Nat, \A n \in S : n <= k
    PROVE  /\ NextNumber(S) \in Nat
           /\ NextNumber(S) - 1 \in S \cup {-1}
           /\ NextNumber(S) \notin S
<1> DEFINE Below == {k - n : n \in S \cup {-1}}
<1>1. Below \subseteq Nat /\ Below # {}
  OBVIOUS
<1>2. PICK x \in Below : \A y \in Below : ~(<<y, x>> \in OpToRel(<, Nat))
  BY <1>1, NatLessThanWellFounded, WFMin, Zenon
<1>3. \A y \in Below : ~(y < x)
  BY <1>1, <1>2 DEF OpToRel
<1>4. PICK m \in S \cup {-1} : x = k - m
  OBVIOUS
<1>5. \A n \in S \cup {-1} : m >= n
  BY <1>3, <1>4
<1>6. PICK top \in S \cup {-1} : /\ top = Max(S \cup {-1})
                                 /\ \A n \in S \cup {-1} : top >= n
  BY <1>5 DEF Max
<1>7. NextNumber(S) = top + 1
  BY <1>6 DEF NextNumber
<1>8. top \in Int /\ top >= -1 /\ (top + 1) - 1 = top /\ top + 1 \in Nat
  BY <1>6
<1>9. top + 1 \notin S
  BY <1>6, <1>8
<1> QED  BY <1>6, <1>7, <1>8, <1>9

\* There are finitely many processes.
LEMMA Counts ==
    /\ IsFiniteSet(Numbering) /\ Cardinality(Numbering) \in Nat
    /\ IsFiniteSet(Working) /\ Cardinality(Working) \in Nat
BY ExperimentAssumption, FS_Subset, FS_CardinalityType DEF Numbering, Working

\* The number of those who still take a number, when p alone moves.
LEMMA CountsMove ==
    ASSUME NEW p \in Processes,
           \A q \in Processes \ {p} : proc'[q].pc = proc[q].pc
    PROVE  /\ Cardinality(Numbering)' \in Nat
           /\ Cardinality(Working)' \in Nat
           /\ Cardinality(Numbering)' <= Cardinality(Numbering) + 1
           /\ Cardinality(Working)' <= Cardinality(Working) + 1
           /\ p \notin Numbering' \/ p \in Numbering =>
                 Cardinality(Numbering)' <= Cardinality(Numbering)
           /\ p \notin Working' \/ p \in Working =>
                 Cardinality(Working)' <= Cardinality(Working)
           /\ p \notin Numbering' /\ p \in Numbering =>
                 Cardinality(Numbering)' = Cardinality(Numbering) - 1
           /\ p \notin Working' /\ p \in Working =>
                 Cardinality(Working)' = Cardinality(Working) - 1
<1>1. Numbering' \in {Numbering, Numbering \cup {p}, Numbering \ {p}}
  BY DEF Numbering
<1>2. Working' \in {Working, Working \cup {p}, Working \ {p}}
  BY DEF Working
<1>3. /\ Numbering' = Numbering \cup {p} => Cardinality(Numbering)' = 
            IF p \in Numbering THEN Cardinality(Numbering) ELSE Cardinality(Numbering) + 1
      /\ Numbering' = Numbering \ {p} => Cardinality(Numbering)' = 
            IF p \in Numbering THEN Cardinality(Numbering) - 1 ELSE Cardinality(Numbering)
  BY Counts, FS_AddElement, FS_RemoveElement
<1>4. /\ Working' = Working \cup {p} => Cardinality(Working)' = 
            IF p \in Working THEN Cardinality(Working) ELSE Cardinality(Working) + 1
      /\ Working' = Working \ {p} => Cardinality(Working)' = 
            IF p \in Working THEN Cardinality(Working) - 1 ELSE Cardinality(Working)
  BY Counts, FS_AddElement, FS_RemoveElement
<1>5. Cardinality(Numbering)' \in Nat /\ Cardinality(Working)' \in Nat
  <2>1. IsFiniteSet(Numbering') /\ IsFiniteSet(Working')
    BY ExperimentAssumption, FS_Subset DEF Numbering, Working
  <2> QED  BY <2>1, FS_CardinalityType
<1> QED  BY <1>1, <1>2, <1>3, <1>4, <1>5, Counts

-----------------------------------------------------------------------------
(* A step of one process.                                                  *)

\* What t relies on in its run r is there in what becomes of the run.
Kept(t, r, new) ==
    /\ new.exists /\ new.inputs = r.inputs
    /\ r.slots \subseteq new.slots
    /\ r.calibration = TRUE => new.calibration = TRUE
    /\ t.pc \in Preparing \cup {"copy", "claimed"} => new.dataset = r.dataset
    /\ t.pc \in Preparing => \A split \in {"training", "validation"} :
          /\ r.rendered[split] = t.world => new.rendered[split] = r.rendered[split]
          /\ r.packed[split] = t.world => new.packed[split] = r.packed[split]

\* What is kept of a run keeps those in it where they are.
LEMMA KeptPlaced ==
    ASSUME NEW t, NEW r, NEW new, Placed(t, r), t.run # New => Kept(t, r, new)
    PROVE  Placed(t, new)
<1>1. CASE t.run = New
  BY <1>1, SplitFacts DEF Placed, Preparing
<1>2. CASE t.run # New
  BY <1>2, SplitFacts DEF Placed, Kept, Preparing
<1> QED  BY <1>1, <1>2

\* Numbers stay left for those who want one when p takes none and nobody begins.
LEMMA Counted ==
    ASSUME IInv, NEW p \in Processes, UNCHANGED <<method, begun>>,
           \A q \in Processes \ {p} : proc'[q] = proc[q],
           proc'[p].pc \notin {"list", "make", "open"},
           proc[p].pc \notin {"idle", "measure"} \/ proc'[p].pc \in {"idle", "measure"},
           \A n \in Numbers : /\ runs'[n].exists => runs[n].exists
                              /\ runs'[n].slots \subseteq runs[n].slots
    PROVE  RunsCounted' /\ SlotsCounted'
<1>1. /\ Cardinality(Numbering)' <= Cardinality(Numbering)
      /\ Cardinality(Working)' <= Cardinality(Working)
      /\ Cardinality(Numbering)' \in Nat /\ Cardinality(Working)' \in Nat
  <2>1. p \notin Numbering' /\ (p \notin Working' \/ p \in Working)
    BY DEF Numbering, Working
  <2>2. \A q \in Processes \ {p} : proc'[q].pc = proc[q].pc
    OBVIOUS
  <2> QED  BY <2>1, <2>2, CountsMove
<1>2. \A q \in Processes : proc'[q].pc \in {"make", "open"} => proc'[q] = proc[q]
  OBVIOUS
<1>3. Numbers' = Numbers /\ begun \in Nat
  BY ExperimentAssumption DEF Numbers, IInv, Base
<1>4. RunsCounted'
  <2>1. Existing' \subseteq Existing
    BY <1>3 DEF Existing
  <2>2. \A n \in Existing \cup {-1} : n \in Int
    BY DEF Existing, Numbers
  <2> QED  BY <1>1, <1>2, <1>3, <2>1, <2>2, Counts DEF IInv, RunsCounted
<1>5. SlotsCounted'
  <2>1. \A n \in Numbers : \A k \in runs[n].slots \cup {-1} : k \in Int
    BY DEF IInv, RunStands, Numbers
  <2> QED  BY <1>1, <1>2, <1>3, <2>1, Counts DEF IInv, SlotsCounted
<1> QED  BY <1>4, <1>5

(* A step of p makes n what it is now, and p what it is now.               *)
Touches(p, n, r, m) ==
    /\ UNCHANGED outside
    /\ proc' = [proc EXCEPT ![p] = m] /\ runs' = [runs EXCEPT ![n] = r]
    /\ m = [f \in DOMAIN Idle |-> m[f]] /\ r = [f \in DOMAIN NoRun |-> r[f]]
    /\ m.run \in {n, New}

\* A step of p keeps the invariant when it fits what p and its run become, and the
\* others in the run keep what they rely on.
LEMMA TouchInv ==
    ASSUME IInv, NEW p \in Processes, NEW n \in Numbers, NEW r, NEW m,
           Touches(p, n, r, m), begun' \in 0 .. MaxInvocations[method],
           RunStands(r), Placed(m, r), RunsCounted', SlotsCounted',
           \A q \in Processes \ {p} : proc[q].run = n =>
              Kept(proc[q], runs[n], r) /\ Apart(m, proc[q])
    PROVE  IInv'
<1>1. /\ proc'[p] = m /\ DOMAIN proc' = Processes
      /\ \A q \in Processes \ {p} : proc'[q] = proc[q]
      /\ runs'[n] = r /\ DOMAIN runs' = Numbers
      /\ \A k \in Numbers \ {n} : runs'[k] = runs[k]
      /\ UNCHANGED <<method, Numbers, Versions>>
  BY DEF IInv, Base, Touches, outside, Numbers, Versions
<1>2. Base'
  BY <1>1 DEF IInv, Base, Touches, outside
<1>3. Shapes'
  BY <1>1 DEF IInv, Shapes, Touches, Idle, NoRun
<1>4. ASSUME NEW k \in Numbers PROVE RunStands(runs[k])'
  <2>1. RunStands(runs'[k])
    BY <1>1 DEF IInv
  <2> QED  BY <1>1, <2>1 DEF RunStands
<1>5. ASSUME NEW q \in Processes PROVE Placed(proc[q], runs[proc[q].run])'
  <2>1. Placed(proc'[q], runs'[proc'[q].run])
    <3>1. CASE q = p /\ m.run = n
      BY <1>1, <3>1
    <3>2. CASE q = p /\ m.run = New
      BY <1>1, <3>2, KeptPlaced
    <3>3. CASE q # p
      <4>1. Placed(proc[q], runs[proc[q].run]) /\ proc'[q] = proc[q]
        BY <1>1, <3>3 DEF IInv
      <4>2. CASE proc[q].run = n
        BY <1>1, <3>3, <4>1, <4>2, KeptPlaced
      <4>3. CASE proc[q].run \in Numbers \ {n}
        BY <1>1, <4>1, <4>3
      <4>4. CASE proc[q].run = New
        BY <4>1, <4>4, KeptPlaced
      <4> QED  BY <4>1, <4>2, <4>3, <4>4 DEF Placed
    <3> QED  BY <3>1, <3>2, <3>3 DEF Touches
  <2> QED  BY <1>1, <2>1 DEF Placed
<1>6. ASSUME NEW q \in Processes \ {p} PROVE Apart(m, proc[q]) /\ Apart(proc[q], m)
  <2>1. Placed(proc[q], runs[proc[q].run])
    BY DEF IInv
  <2>2. Apart(m, proc[q])
    BY <1>6, <2>1 DEF Apart, Claimed, Placed, Touches
  <2> QED  BY <2>2 DEF Apart
<1>7. ASSUME NEW q \in Processes, NEW t \in Processes, q # t
      PROVE  Apart(proc[q], proc[t])'
  BY <1>1, <1>6, <1>7 DEF IInv, Apart, Claimed
<1> QED  BY <1>1, <1>2, <1>3, <1>4, <1>5, <1>7 DEF IInv

-----------------------------------------------------------------------------
(* Steps that claim nothing and leave the dataset alone.                   *)

Mild == {"prepare", "identify", "train", "claim", "initialize", "snapshot", "attempt",
         "configure", "launch", "trainer", "select", "export", "finish", "evaluate", "slot"}

\* A run of which nothing has changed that matters here.
Same(r, new) ==
    /\ new = [f \in DOMAIN NoRun |-> new[f]]
    /\ new.exists = r.exists /\ new.inputs = r.inputs /\ new.dataset = r.dataset
    /\ new.rendered = r.rendered /\ new.packed = r.packed /\ new.report = r.report
    /\ new.slots = r.slots
    /\ r.calibration = TRUE => new.calibration = TRUE
    /\ new.outcome \in {"none", "partial", "complete"}

\* The process ends, or goes on between such steps.
MildMove(p) ==
    \E m : /\ proc' = [proc EXCEPT ![p] = m]
           /\ \/ m = Idle
              \/ /\ m = [f \in DOMAIN Idle |-> m[f]]
                 /\ proc[p].pc \in Mild /\ m.pc \in Mild
                 /\ m.command = proc[p].command /\ m.run = proc[p].run
                 /\ m.inputs = proc[p].inputs

RunSame(n) == \E r : runs' = [runs EXCEPT ![n] = r] /\ Same(runs[n], r)

\* A step that claims nothing and leaves the dataset alone keeps the invariant.
LEMMA MildStep ==
    ASSUME IInv, NEW p \in Processes, NEW n \in Numbers,
           UNCHANGED <<outside, begun>>,
           proc[p].pc # "idle", MildMove(p), RunSame(n),
           proc[p].run \in {n, New}
    PROVE  IInv'
<1>1. PICK s : s = proc[p]
  OBVIOUS
<1>2. PICK m : /\ proc' = [proc EXCEPT ![p] = m]
               /\ m = [f \in DOMAIN Idle |-> m[f]]
               /\ \/ m = Idle
                  \/ /\ s.pc \in Mild /\ m.pc \in Mild
                     /\ m.command = s.command /\ m.run = s.run /\ m.inputs = s.inputs
  BY <1>1 DEF MildMove, Idle
<1>3. PICK r : runs' = [runs EXCEPT ![n] = r] /\ Same(runs[n], r)
  BY DEF RunSame
<1>4. Placed(s, runs[s.run]) /\ RunStands(runs[n])
  BY <1>1 DEF IInv
<1>5. m = Idle \/ s.run = n
  BY <1>1, <1>2, <1>4 DEF Placed, Mild
<1>6. Touches(p, n, r, m)
  BY <1>2, <1>3, <1>5 DEF Touches, Same, Idle
<1>7. RunStands(r)
  BY <1>3, <1>4 DEF RunStands, Same
<1>8. Placed(m, r)
  <2>1. CASE m = Idle
    BY <2>1 DEF Placed, Idle, Preparing
  <2>2. CASE m # Idle
    BY <1>2, <1>3, <1>4, <1>5, <2>2 DEF Placed, Same, Mild, Preparing
  <2> QED  BY <2>1, <2>2
<1>9. ASSUME NEW q \in Processes \ {p}, proc[q].run = n
      PROVE  Kept(proc[q], runs[n], r) /\ Apart(m, proc[q])
  <2>1. Placed(proc[q], runs[n]) /\ Apart(s, proc[q])
    BY <1>1, <1>9 DEF IInv
  <2>2. Kept(proc[q], runs[n], r)
    BY <1>3, <1>9, <2>1 DEF Kept, Same, Placed, Numbers, New
  <2>3. Apart(m, proc[q])
    BY <1>2, <1>9, <2>1 DEF Apart, Claimed, Mild, Idle, Numbers, New
  <2> QED  BY <2>2, <2>3
<1>10. RunsCounted' /\ SlotsCounted'
  <2>1. m.pc \in Mild \cup {"idle"} /\ (m.pc = "idle" \/ proc[p].pc \in Mild)
    BY <1>1, <1>2 DEF Idle
  <2>2. \A k \in Numbers : /\ runs'[k].exists => runs[k].exists
                           /\ runs'[k].slots \subseteq runs[k].slots
    BY <1>3 DEF Same, IInv, Base
  <2>3. proc'[p] = m /\ (\A q \in Processes \ {p} : proc'[q] = proc[q])
    BY <1>2 DEF IInv, Base
  <2> QED  BY <2>1, <2>2, <2>3, Counted DEF Mild, outside
<1>11. begun' \in 0 .. MaxInvocations[method]
  BY DEF IInv, Base
<1> QED  BY <1>6, <1>7, <1>8, <1>9, <1>10, <1>11, TouchInv

\* A step that leaves the runs alone leaves each of them the same.
LEMMA SameRun == ASSUME IInv, NEW n \in Numbers, UNCHANGED runs PROVE RunSame(n)
<1>1. runs' = [runs EXCEPT ![n] = runs[n]]
  BY DEF IInv, Shapes
<1>2. Same(runs[n], runs[n])
  BY DEF Same, IInv, Shapes, RunStands
<1> QED  BY <1>1, <1>2 DEF RunSame

\* What trainings and exports write is no part of inputs, claims or datasets.
LEMMA WriteSame ==
    ASSUME IInv, NEW p \in Processes, NEW v, proc[p].run \in Numbers,
           NEW field \in {"training", "identity", "config", "checkpoints", "adapters", "outcome"},
           field = "outcome" => v \in {"none", "partial", "complete"},
           Write(p, field, v)
    PROVE  RunSame(proc[p].run)
<1>1. PICK r : r = runs[proc[p].run]
  OBVIOUS
<1>2. runs' = [runs EXCEPT ![proc[p].run] = [r EXCEPT ![field] = v]]
  BY <1>1 DEF IInv, Base, Write
<1>3. r = [f \in DOMAIN NoRun |-> r[f]] /\ r.outcome \in {"none", "partial", "complete"}
  BY <1>1 DEF IInv, Shapes, RunStands
<1>4. Same(r, [r EXCEPT ![field] = v])
  BY <1>3 DEF Same, NoRun
<1> QED  BY <1>1, <1>2, <1>4 DEF RunSame

\* Ending, going on, and going on if a check succeeds are such moves.
LEMMA Moves ==
    ASSUME IInv, NEW p \in Processes, NEW pc \in Mild, NEW condition
    PROVE  /\ End(p) => MildMove(p)
           /\ proc[p].pc \in Mild /\ Goto(p, pc) => MildMove(p)
           /\ proc[p].pc \in Mild /\ Require(p, condition, pc) => MildMove(p)
<1>1. End(p) => MildMove(p)
  BY DEF End, MildMove
<1>2. proc[p].pc \in Mild /\ Goto(p, pc) => MildMove(p)
  <2>1. PICK s : s = proc[p]
    OBVIOUS
  <2>2. s = [f \in DOMAIN Idle |-> s[f]]
    BY <2>1 DEF IInv, Shapes
  <2>3. PICK m : m = [s EXCEPT !.pc = pc]
    OBVIOUS
  <2>4. m = [f \in DOMAIN Idle |-> m[f]] /\ m.pc = pc /\ m.command = s.command
        /\ m.run = s.run /\ m.inputs = s.inputs
    BY <2>2, <2>3 DEF Idle
  <2>5. Goto(p, pc) => proc' = [proc EXCEPT ![p] = m]
    BY <2>1, <2>3 DEF Goto, IInv, Base
  <2> QED  BY <2>1, <2>4, <2>5 DEF MildMove
<1> QED  BY <1>1, <1>2 DEF Require

\* Steps that claim nothing and leave the dataset alone.
MildSteps(p) ==
    \/ Prepare(p) \/ Train(p) \/ VerifyAdapter(p) \/ CopyAdapter(p) \/ TrainRl(p)
    \/ ClaimTraining(p) \/ RecordAttempt(p) \/ WriteConfig(p) \/ StartTrainer(p)
    \/ SaveCheckpoint(p) \/ TrainerEnds(p) \/ LaunchEnds(p) \/ FinishTraining(p)
    \/ FinishRl(p) \/ Evaluate(p) \/ Select(p) \/ SelectRl(p) \/ Export(p) \/ Measure(p)

\* p goes on, with these.
Going(p, pc, at, w, a, c) ==
    proc' = [proc EXCEPT ![p] = [proc[p] EXCEPT !.pc = pc, !.at = at, !.world = w,
                                                !.adapter = a, !.config = c]]

\* The processes move so in the steps of trainings and evaluations that claim nothing
\* (sft.train.train, rl.train.train).
LEMMA MildMoves ==
    ASSUME IInv, NEW p \in Processes, MildSteps(p)
    PROVE  MildMove(p) /\ proc[p].pc # "idle" /\ UNCHANGED <<outside, begun>>
<1> USE DEF At, Mild
<1>1. ASSUME NEW pc \in Mild, NEW at, NEW w, NEW a, NEW c, proc[p].pc \in Mild,
             Going(p, pc, at, w, a, c)
      PROVE  MildMove(p)
  <2>1. PICK s : s = proc[p]
    OBVIOUS
  <2>2. s = [f \in DOMAIN Idle |-> s[f]]
    BY <2>1 DEF IInv, Shapes
  <2>3. PICK m : m = [s EXCEPT !.pc = pc, !.at = at, !.world = w, !.adapter = a, !.config = c]
    OBVIOUS
  <2>4. /\ m = [f \in DOMAIN Idle |-> m[f]]
        /\ m.pc = pc /\ m.command = s.command /\ m.run = s.run /\ m.inputs = s.inputs
    BY <2>2, <2>3 DEF Idle
  <2> QED  BY <1>1, <2>1, <2>3, <2>4 DEF MildMove, Going
<1>2. CASE Prepare(p) \/ Train(p) \/ TrainRl(p) \/ ClaimTraining(p)
  BY <1>2, Moves DEF Prepare, Train, TrainRl, ClaimTraining
<1>3. CASE \/ CopyAdapter(p) \/ RecordAttempt(p) \/ WriteConfig(p) \/ LaunchEnds(p)
           \/ FinishTraining(p) \/ FinishRl(p) \/ Measure(p)
  BY <1>3, Moves DEF CopyAdapter, RecordAttempt, WriteConfig, LaunchEnds, FinishTraining,
     FinishRl, Measure
<1>4. CASE Export(p)
  BY <1>4, Moves DEF Export, AfterExport
<1> DEFINE r == proc[p]
<1>5. CASE VerifyAdapter(p)
  <2>1. Going(p, "snapshot", r.at, r.world, adapter, r.config)
    BY <1>5 DEF VerifyAdapter, Going, IInv, Base, Shapes, Idle
  <2> QED  BY <1>1, <1>5, <2>1 DEF VerifyAdapter
<1>6. CASE StartTrainer(p)
  <2>1. Going(p, "trainer", 1, r.world, r.adapter, Run(p).config)
    BY <1>6, ZenonT(60) DEF StartTrainer, Going, IInv, Base, Shapes, Idle
  <2> QED  BY <1>1, <1>6, <2>1 DEF StartTrainer
<1>7. CASE SaveCheckpoint(p)
  <2>1. Going(p, "trainer", r.at + 1, r.world, r.adapter, r.config)
    BY <1>7, ZenonT(60) DEF SaveCheckpoint, Going, IInv, Base, Shapes, Idle
  <2> QED  BY <1>1, <1>7, <2>1 DEF SaveCheckpoint
<1>8. CASE TrainerEnds(p)
  <2>1. Going(p, "select", Steps, r.world, r.adapter, r.config) \/ End(p)
    BY <1>8 DEF TrainerEnds, End, Going, IInv, Base, Shapes, Idle
  <2> QED  BY <1>1, <1>8, <2>1, Moves DEF TrainerEnds
<1>9. CASE Evaluate(p)
  <2>1. \/ Going(p, "select", Command(p).step, r.world, r.adapter, r.config)
        \/ Goto(p, "slot")
    BY <1>9 DEF Evaluate, Goto, Going, IInv, Base, Shapes, Idle
  <2> QED  BY <1>1, <1>9, <2>1, Moves DEF Evaluate
<1>10. CASE Select(p) \/ SelectRl(p)
  <2>1. \/ Going(p, "export", r.at, world, r.adapter, r.config)
        \/ Going(p, "finish", r.at, world, r.adapter, r.config)
        \/ Going(p, "slot", r.at, world, r.adapter, r.config)
        \/ End(p)
    BY <1>10 DEF Select, SelectRl, CheckpointModel, AfterExport, End, Going,
       IInv, Base, Shapes, Idle
  <2>2. proc[p].pc = "select" /\ UNCHANGED <<outside, begun>>
    BY <1>10 DEF Select, SelectRl, CheckpointModel
  <2> QED  BY <1>1, <2>1, <2>2, Moves
<1> HIDE DEF At, Mild
<1> QED  BY <1>2, <1>3, <1>4, <1>5, <1>6, <1>7, <1>8, <1>9, <1>10 DEF MildSteps

\* The runs are left so in these steps.
LEMMA MildRuns ==
    ASSUME IInv, NEW p \in Processes, MildSteps(p)
    PROVE  proc[p].run \in Numbers /\ RunSame(proc[p].run)
<1>1. proc[p].run \in Numbers
  <2>1. Placed(proc[p], runs[proc[p].run])
    BY DEF IInv
  <2> QED
    BY <2>1 DEF Placed, MildSteps, Prepare, Train, VerifyAdapter, CopyAdapter, TrainRl,
       ClaimTraining, RecordAttempt, WriteConfig, StartTrainer, SaveCheckpoint, TrainerEnds,
       LaunchEnds, FinishTraining, FinishRl, Evaluate, Select, SelectRl, CheckpointModel, Export,
       Measure, At
<1>2. CASE \/ Prepare(p) \/ Train(p) \/ VerifyAdapter(p) \/ TrainRl(p) \/ StartTrainer(p)
           \/ TrainerEnds(p) \/ Evaluate(p) \/ Select(p) \/ SelectRl(p) \/ Measure(p)
  BY <1>1, <1>2, SameRun DEF Prepare, Train, VerifyAdapter, TrainRl, StartTrainer, TrainerEnds,
     Evaluate, Select, SelectRl, CheckpointModel, Measure
<1>3. CASE ClaimTraining(p)
  BY <1>1, <1>3, SameRun, WriteSame DEF ClaimTraining
<1>4. CASE LaunchEnds(p) \/ FinishTraining(p) \/ FinishRl(p)
  BY <1>1, <1>4, SameRun, WriteSame DEF LaunchEnds, FinishTraining, FinishRl
<1>5. CASE SaveCheckpoint(p) \/ WriteConfig(p)
  BY <1>1, <1>5, WriteSame DEF SaveCheckpoint, WriteConfig
<1>6. CASE Export(p)
  BY <1>1, <1>6, SameRun, WriteSame DEF Export
<1>7. PICK r : r = runs[proc[p].run]
  OBVIOUS
<1>8. r = [f \in DOMAIN NoRun |-> r[f]] /\ r.outcome \in {"none", "partial", "complete"}
  BY <1>1, <1>7 DEF IInv, Shapes, RunStands
<1>9. CASE CopyAdapter(p)
  <2>1. \/ UNCHANGED runs
        \/ runs' = [runs EXCEPT ![proc[p].run] =
                      [r EXCEPT !.training = TRUE, !.snapshot = <<adapter>>]]
    BY <1>1, <1>7, <1>9 DEF CopyAdapter, IInv, Base
  <2>2. Same(r, [r EXCEPT !.training = TRUE, !.snapshot = <<adapter>>])
    BY <1>8 DEF Same, NoRun
  <2> QED  BY <1>1, <1>7, <2>1, <2>2, SameRun DEF RunSame
<1>10. CASE RecordAttempt(p)
  <2>1. PICK v, a : runs' = [runs EXCEPT ![proc[p].run].training = TRUE,
                                         ![proc[p].run].identity = v,
                                         ![proc[p].run].attempts = @ \cup a]
    BY <1>10 DEF RecordAttempt
  <2>2. PICK new : new = [r EXCEPT !.training = TRUE, !.identity = v, !.attempts = @ \cup a]
    OBVIOUS
  <2>3. runs' = [runs EXCEPT ![proc[p].run] = new] /\ Same(r, new)
    BY <1>1, <1>7, <1>8, <2>1, <2>2 DEF IInv, Base, Same, NoRun
  <2>4. RunSame(proc[p].run)
    BY <1>7, <2>3 DEF RunSame
  <2> QED  BY <1>1, <2>4
<1> QED  BY <1>1, <1>2, <1>3, <1>4, <1>5, <1>6, <1>9, <1>10 DEF MildSteps

\* They keep the invariant.
LEMMA MildInv ==
    ASSUME IInv, NEW p \in Processes, MildSteps(p)
    PROVE  IInv'
BY MildMoves, MildRuns, MildStep

(* A process that ends, for whatever reason, leaves what it made.          *)
LEMMA EndInv ==
    ASSUME IInv, NEW p \in Processes, proc[p].pc # "idle", End(p),
           UNCHANGED <<outside, begun, runs>>
    PROVE  IInv'
<1>1. proc[p].run \in Numbers \cup {New}
  BY DEF IInv, Placed
<1>2. \E n \in Numbers : proc[p].run \in {n, New}
  <2>1. 0 \in Numbers
    BY ExperimentAssumption DEF IInv, Base, Numbers
  <2> QED  BY <1>1, <2>1
<1>3. MildMove(p)
  BY DEF End, MildMove
<1> QED  BY <1>2, <1>3, SameRun, MildStep

-----------------------------------------------------------------------------
(* The preparation of a dataset.                                           *)

\* What a step from s to m, with the run from r to new, leaves to those beside it.
Compatible(s, m, r, new) ==
    \A t : Placed(t, r) /\ t.run = s.run /\ Apart(s, t) => Kept(t, r, new) /\ Apart(m, t)

\* A step on the dataset keeps the invariant if the others in the run can go on.
LEMMA DataStep ==
    ASSUME IInv, NEW p \in Processes, NEW n \in Numbers, NEW m, NEW new,
           proc[p].run = n,
           proc[p].pc \in Preparing \cup {"identify", "claimed", "copy", "calibrate"},
           Touches(p, n, new, m), UNCHANGED begun,
           m.pc \notin {"list", "make", "open"},
           RunStands(new), Placed(m, new), Compatible(proc[p], m, runs[n], new),
           new.slots \subseteq runs[n].slots
    PROVE  IInv'
<1>1. runs[n].exists
  BY DEF IInv, Placed, Preparing, Numbers, New
<1>2. /\ proc'[p] = m /\ runs'[n] = new
      /\ \A q \in Processes \ {p} : proc'[q] = proc[q]
      /\ \A k \in Numbers \ {n} : runs'[k] = runs[k]
  BY DEF IInv, Base, Touches
<1>3. RunsCounted' /\ SlotsCounted'
  <2>1. \A k \in Numbers : /\ runs'[k].exists => runs[k].exists
                           /\ runs'[k].slots \subseteq runs[k].slots
    BY <1>1, <1>2
  <2> QED  BY <1>2, <2>1, Counted DEF Preparing, Touches, outside
<1>4. begun' \in 0 .. MaxInvocations[method]
  BY DEF IInv, Base
<1>5. ASSUME NEW q \in Processes \ {p}, proc[q].run = n
      PROVE  Kept(proc[q], runs[n], new) /\ Apart(m, proc[q])
  BY <1>5 DEF IInv, Compatible
<1> QED  BY <1>3, <1>4, <1>5, TouchInv

\* What is known of a process that has a run.
LEMMA Situated ==
    ASSUME IInv, NEW p \in Processes, proc[p].run # New
    PROVE  /\ Placed(proc[p], runs[proc[p].run]) /\ proc[p].run \in Numbers
           /\ RunStands(runs[proc[p].run])
           /\ proc[p] = [f \in DOMAIN Idle |-> proc[p][f]]
           /\ runs[proc[p].run] = [f \in DOMAIN NoRun |-> runs[proc[p].run][f]]
BY DEF IInv, Shapes, Placed

\* The records of p and of its run, when it is at pc.
Shaped(s, r) == s = [f \in DOMAIN Idle |-> s[f]] /\ r = [f \in DOMAIN NoRun |-> r[f]]
State(p, s, r) == s = proc[p] /\ r = runs[s.run]
Found(p, pc, s, r) ==
    /\ State(p, s, r) /\ Shaped(s, r)
    /\ s.pc = pc /\ s.run \in Numbers
    /\ Placed(s, r) /\ RunStands(r)
    /\ UNCHANGED <<outside, begun>>

\* The same, of a process at pc, in the words of the steps below.
LEMMA Finds ==
    ASSUME IInv, NEW p \in Processes, NEW pc, pc \notin {"idle", "list", "make"}, At(p, pc)
    PROVE  \E s, r : Found(p, pc, s, r)
<1>1. proc[p].run # New
  BY DEF IInv, Placed, At
<1> QED  BY <1>1, Situated DEF Found, At, Shaped, State

\* A dataset with its identity is not one without, and no version is that of an edit.
LEMMA Identified ==
    ASSUME NEW i \in Versions, NEW w
    PROVE  /\ <<i, w>> \notin {Absent, Bare}
           /\ \A v \in Versions : v # 0 /\ v # Edited
<1>1. MaxVersion \in Nat
  BY ExperimentAssumption
<1>2. \A v \in Versions : v # 0 /\ v # Edited
  BY <1>1 DEF Versions, Edited
<1> QED  BY <1>2 DEF Absent, Bare

\* A rendering that is there is of the tokenizer of the identity, and a new one is of
\* the same (sft.dataset.prepare_dataset).
LEMMA RenderInv == ASSUME IInv, NEW p \in Processes, Render(p) PROVE IInv'
<1>1. PICK s, r : Found(p, "render", s, r)
  BY Finds DEF Render
<1>2. PICK split : split = Splits[s.at] /\ split \in {"training", "validation"}
  BY <1>1, SplitFacts DEF Found, Placed
<1>3. PICK m : m = [s EXCEPT !.pc = "pack"]
  OBVIOUS
<1>4. PICK new : new = IF r.rendered[split] = 0
                       THEN [r EXCEPT !.rendered = [r.rendered EXCEPT ![split] = s.world]]
                       ELSE r
  OBVIOUS
<1>5. Touches(p, s.run, new, m)
  <2>1. proc' = [proc EXCEPT ![p] = m]
    BY <1>1, <1>3 DEF Found, State, Render, Goto, IInv, Shapes
  <2>2. runs' = [runs EXCEPT ![s.run] = new]
    BY <1>1, <1>2, <1>4 DEF Found, State, Render, Write, Run, IInv, Shapes
  <2> QED  BY <1>1, <1>3, <1>4, <2>1, <2>2 DEF Found, Shaped, Touches, Idle, NoRun
<1>6. /\ r.dataset = <<s.inputs, s.world>> /\ r.dataset \notin {Absent, Bare}
      /\ s.world \in Versions /\ s.world # 0
  BY <1>1, Identified DEF Found, Placed, Preparing
<1>7. /\ new.exists = r.exists /\ new.inputs = r.inputs /\ new.slots = r.slots
      /\ new.outcome = r.outcome /\ new.dataset = r.dataset /\ new.packed = r.packed
      /\ new.report = r.report /\ new.calibration = r.calibration
      /\ DOMAIN new.rendered = {"training", "validation"}
      /\ new.rendered[split] = s.world
      /\ \A t \in {"training", "validation"} :
            /\ new.rendered[t] \in {0, s.world}
            /\ r.rendered[t] # 0 => new.rendered[t] = r.rendered[t]
  BY <1>1, <1>2, <1>4, <1>6 DEF Found, Shaped, NoRun, RunStands
<1>8. /\ m.pc = "pack" /\ m.run = s.run /\ m.inputs = s.inputs /\ m.world = s.world
      /\ m.at = s.at /\ m.command = s.command
  BY <1>1, <1>3 DEF Found, Shaped, Idle
<1>9. RunStands(new)
  BY <1>1, <1>6, <1>7 DEF Found, RunStands
<1>10. Placed(m, new)
  BY <1>1, <1>2, <1>6, <1>7, <1>8 DEF Found, Placed, Preparing
<1>11. Compatible(s, m, r, new)
  BY <1>1, <1>6, <1>7, <1>8 DEF Found, Compatible, Kept, Placed, Apart, Claimed, Preparing,
     Versions, New, Numbers
<1> QED  BY <1>1, <1>5, <1>7, <1>8, <1>9, <1>10, <1>11, DataStep DEF Found, State, Preparing

\* Packing keeps the tokenizer of the rendering; the second split follows the first.
LEMMA PackInv == ASSUME IInv, NEW p \in Processes, Pack(p) PROVE IInv'
<1>1. PICK s, r : Found(p, "pack", s, r)
  BY Finds DEF Pack
<1>2. PICK split : split = Splits[s.at] /\ split \in {"training", "validation"}
  BY <1>1, SplitFacts DEF Found, Placed
<1>3. PICK m : m = IF s.at < Len(Splits) THEN [s EXCEPT !.pc = "render", !.at = @ + 1]
                   ELSE [s EXCEPT !.pc = "report"]
  OBVIOUS
<1>4. PICK new : new = [r EXCEPT !.packed = [r.packed EXCEPT ![split] = r.rendered[split]]]
  OBVIOUS
<1>5. Touches(p, s.run, new, m)
  <2>1. proc' = [proc EXCEPT ![p] = m]
    BY <1>1, <1>3 DEF Found, State, Pack, Goto, IInv, Shapes
  <2>2. runs' = [runs EXCEPT ![s.run] = new]
    BY <1>1, <1>2, <1>4 DEF Found, State, Pack, Write, Run, IInv, Shapes
  <2> QED  BY <1>1, <1>3, <1>4, <2>1, <2>2 DEF Found, Shaped, Touches, Idle, NoRun
<1>6. /\ r.dataset = <<s.inputs, s.world>> /\ r.dataset \notin {Absent, Bare}
      /\ s.world \in Versions /\ s.world # 0 /\ s.world # Edited
      /\ r.rendered[split] = s.world
  BY <1>1, <1>2, Identified DEF Found, Placed, Preparing
<1>7. /\ new.exists = r.exists /\ new.inputs = r.inputs /\ new.slots = r.slots
      /\ new.outcome = r.outcome /\ new.dataset = r.dataset /\ new.rendered = r.rendered
      /\ new.report = r.report /\ new.calibration = r.calibration
      /\ DOMAIN new.packed = {"training", "validation"}
      /\ new.packed[split] = s.world
      /\ \A t \in {"training", "validation"} :
            t # split => new.packed[t] = r.packed[t]
  BY <1>1, <1>2, <1>4, <1>6 DEF Found, Shaped, NoRun, RunStands
<1>8. /\ m.run = s.run /\ m.inputs = s.inputs /\ m.world = s.world /\ m.command = s.command
      /\ \/ s.at = 1 /\ m.pc = "render" /\ m.at = 2
         \/ s.at = 2 /\ m.pc = "report"
  BY <1>1, <1>3, SplitFacts DEF Found, Shaped, Idle, Placed
<1>9. RunStands(new)
  BY <1>1, <1>2, <1>6, <1>7 DEF Found, RunStands
<1>10. Placed(m, new)
  BY <1>1, <1>2, <1>6, <1>7, <1>8, SplitFacts DEF Found, Placed, Preparing
<1>11. Compatible(s, m, r, new)
  BY <1>1, <1>2, <1>6, <1>7, <1>8 DEF Found, Compatible, Kept, Placed, Apart, Claimed, Preparing,
     Versions, New, Numbers
<1>12. m.pc \in {"render", "report"}
  BY <1>8
<1> QED  BY <1>1, <1>5, <1>7, <1>9, <1>10, <1>11, <1>12, DataStep DEF Found, State, Preparing

\* A process that has ended relies on nothing.
LEMMA IdleFits ==
    ASSUME NEW r
    PROVE  /\ Idle = [f \in DOMAIN Idle |-> Idle[f]] /\ Idle.pc = "idle" /\ Idle.run = New
           /\ Placed(Idle, r)
           /\ \A t : t.run # New => Apart(Idle, t)
BY DEF Idle, Placed, Apart, Preparing

\* A preparation goes on when there is no report.
LEMMA ReuseInv == ASSUME IInv, NEW p \in Processes, Reuse(p) PROVE IInv'
<1>1. PICK s, r : Found(p, "reuse", s, r)
  BY Finds DEF Reuse
<1>2. CASE r.report # Absent
  BY <1>1, <1>2, EndInv DEF Reuse, Found, State, Run
<1>3. CASE r.report = Absent
  <2>1. PICK m : m = [s EXCEPT !.pc = "render", !.at = 1]
    OBVIOUS
  <2>2. Touches(p, s.run, r, m)
    <3>1. proc' = [proc EXCEPT ![p] = m] /\ runs' = [runs EXCEPT ![s.run] = r]
      BY <1>1, <1>3, <2>1 DEF Found, State, Run, Reuse, Goto, IInv, Shapes
    <3> QED  BY <1>1, <2>1, <3>1 DEF Found, Shaped, Touches, Idle
  <2>3. /\ m.run = s.run /\ m.inputs = s.inputs /\ m.world = s.world /\ m.command = s.command
        /\ m.pc = "render" /\ m.at = 1
    BY <1>1, <2>1 DEF Found, Shaped, Idle
  <2>4. Placed(m, r)
    BY <1>1, <2>3 DEF Found, Placed, Preparing
  <2>5. Compatible(s, m, r, r)
    BY <1>1, <2>3 DEF Found, Compatible, Kept, Placed, Apart, Claimed, Numbers, New
  <2> QED  BY <1>1, <2>2, <2>3, <2>4, <2>5, DataStep DEF Found, State, Preparing
<1> QED  BY <1>2, <1>3

\* The report names both splits, which have been packed.
LEMMA ReportInv == ASSUME IInv, NEW p \in Processes, ReportPreparation(p) PROVE IInv'
<1>1. PICK s, r : Found(p, "report", s, r)
  BY Finds DEF ReportPreparation
<1>2. PICK new : new = [r EXCEPT !.report = <<r.packed>>]
  OBVIOUS
<1>3. Touches(p, s.run, new, Idle)
  <2>1. proc' = [proc EXCEPT ![p] = Idle] /\ runs' = [runs EXCEPT ![s.run] = new]
    BY <1>1, <1>2 DEF Found, State, Run, ReportPreparation, Write, End, IInv, Shapes
  <2> QED  BY <1>1, <1>2, <2>1, IdleFits DEF Found, Shaped, Touches, NoRun
<1>4. /\ r.dataset = <<s.inputs, s.world>> /\ r.dataset \notin {Absent, Bare}
      /\ \A t \in {"training", "validation"} : r.packed[t] = s.world
  BY <1>1, Identified DEF Found, Placed, Preparing
<1>5. /\ new.exists = r.exists /\ new.inputs = r.inputs /\ new.slots = r.slots
      /\ new.outcome = r.outcome /\ new.dataset = r.dataset /\ new.rendered = r.rendered
      /\ new.packed = r.packed /\ new.calibration = r.calibration
      /\ new.report[1] = r.packed
  BY <1>1, <1>2 DEF Found, Shaped, NoRun
<1>6. RunStands(new)
  BY <1>1, <1>4, <1>5 DEF Found, RunStands
<1>7. Compatible(s, Idle, r, new)
  <2>1. s.run # New
    BY <1>1 DEF Found, Numbers, New
  <2> QED  BY <1>1, <1>4, <1>5, <2>1, IdleFits, ZenonT(60) DEF Found, Compatible, Kept, Placed
<1> QED  BY <1>1, <1>3, <1>5, <1>6, <1>7, IdleFits, DataStep DEF Found, State, Preparing

\* The identity is recorded by the one process that has made the directory.
LEMMA RecordInv == ASSUME IInv, NEW p \in Processes, RecordPreparation(p) PROVE IInv'
<1>1. PICK s, r : Found(p, "claimed", s, r)
  BY Finds DEF RecordPreparation
<1>2. PICK m : m = [s EXCEPT !.pc = "reuse"]
  OBVIOUS
<1>3. PICK new : new = [r EXCEPT !.dataset = <<s.inputs, s.world>>]
  OBVIOUS
<1>4. Touches(p, s.run, new, m)
  <2>1. proc' = [proc EXCEPT ![p] = m] /\ runs' = [runs EXCEPT ![s.run] = new]
    BY <1>1, <1>2, <1>3 DEF Found, State, RecordPreparation, Write, Goto, IInv, Shapes
  <2> QED  BY <1>1, <1>2, <1>3, <2>1 DEF Found, Shaped, Touches, Idle, NoRun
<1>5. /\ r.dataset = Bare /\ s.world \in Versions /\ s.inputs \in Versions
      /\ r.inputs = s.inputs /\ s.run # New
  BY <1>1 DEF Found, Placed, Numbers, New
<1>6. /\ new.exists = r.exists /\ new.inputs = r.inputs /\ new.slots = r.slots
      /\ new.outcome = r.outcome /\ new.rendered = r.rendered /\ new.packed = r.packed
      /\ new.report = r.report /\ new.calibration = r.calibration
      /\ new.dataset = <<s.inputs, s.world>>
      /\ m.run = s.run /\ m.inputs = s.inputs /\ m.world = s.world /\ m.command = s.command
      /\ m.pc = "reuse"
  BY <1>1, <1>2, <1>3 DEF Found, Shaped, NoRun, Idle
<1>7. /\ new.dataset \notin {Absent, Bare}
      /\ \A t \in {"training", "validation"} : new.rendered[t] = 0 /\ new.packed[t] = 0
      /\ new.report = Absent
  BY <1>1, <1>5, <1>6, Identified, SplitFacts DEF Found, RunStands, NoRun
<1>8. RunStands(new)
  BY <1>1, <1>5, <1>6, <1>7 DEF Found, RunStands, Absent, Bare
<1>9. Placed(m, new)
  BY <1>1, <1>5, <1>6 DEF Found, Placed, Preparing
<1>10. Compatible(s, m, r, new)
  <2> SUFFICES ASSUME NEW t, Placed(t, r), t.run = s.run, Apart(s, t)
               PROVE  Kept(t, r, new) /\ Apart(m, t)
    BY DEF Compatible
  <2>1. t.pc # "claimed"
    BY <1>1 DEF Found, Apart
  <2>2. t.pc # "copy"
    BY <1>5 DEF Placed, Bare, Absent
  <2>3. t.pc \notin Preparing
    <3> SUFFICES ASSUME t.pc \in Preparing PROVE FALSE
      OBVIOUS
    <3>1. r.dataset = <<t.inputs, t.world>> /\ t.inputs \in Versions
      BY DEF Placed, Preparing
    <3> QED  BY <1>5, <3>1, Identified
  <2>4. Kept(t, r, new)
    BY <1>5, <1>6, <2>1, <2>2, <2>3 DEF Kept, Placed
  <2>5. Apart(m, t)
    BY <1>1, <1>6 DEF Found, Apart, Claimed
  <2> QED  BY <2>4, <2>5
<1> QED  BY <1>1, <1>4, <1>6, <1>8, <1>9, <1>10, DataStep DEF Found, State, Preparing

\* Nobody else has the run that s is making.
Alone(s, r) == \A t : ~(Placed(t, r) /\ t.run = s.run /\ Apart(s, t))

\* Nobody else is in a run that is being copied: its inputs are not there yet, and only
\* one process has made it (experiment.run.create_run).
LEMMA SoleOwner ==
    ASSUME NEW s, NEW r, Placed(s, r), s.pc = "copy", s.run # New
    PROVE  Alone(s, r)
<1> SUFFICES ASSUME NEW t, Placed(t, r), t.run = s.run, Apart(s, t) PROVE FALSE
  BY DEF Alone
<1>1. r.inputs = 0 /\ Claimed(s)
  BY DEF Placed, Claimed
<1>2. CASE t.pc = "copy"
  BY <1>1, <1>2 DEF Placed, Claimed, Apart
<1>3. CASE t.pc # "copy"
  <2>1. t.inputs \in Versions /\ r.inputs = t.inputs
    BY <1>3 DEF Placed
  <2> QED  BY <1>1, <2>1, Identified
<1> QED  BY <1>2, <1>3

\* The directory of a dataset is made by one process, and one with an identity is used
\* with its tokenizer.
LEMMA IdentifyInv == ASSUME IInv, NEW p \in Processes, Identify(p) PROVE IInv'
<1>1. PICK s, r : Found(p, "identify", s, r)
  BY Finds DEF Identify
<1>2. /\ s.inputs \in Versions /\ world \in Versions /\ s.run # New /\ r.exists
      /\ r.inputs = s.inputs
  BY <1>1 DEF Found, Placed, Numbers, New, IInv, Base
<1>3. CASE /\ r.dataset = Absent /\ Write(p, "dataset", Bare)
           /\ proc' = [proc EXCEPT ![p].world = world, ![p].pc = "claimed"]
  <2>1. PICK m : m = [s EXCEPT !.world = world, !.pc = "claimed"]
    OBVIOUS
  <2>2. PICK new : new = [r EXCEPT !.dataset = Bare]
    OBVIOUS
  <2>3. Touches(p, s.run, new, m)
    <3>1. proc' = [proc EXCEPT ![p] = m] /\ runs' = [runs EXCEPT ![s.run] = new]
      BY <1>1, <1>3, <2>1, <2>2 DEF Found, State, Write, IInv, Shapes
    <3> QED  BY <1>1, <2>1, <2>2, <3>1 DEF Found, Shaped, Touches, Idle, NoRun
  <2>4. /\ new.exists = r.exists /\ new.inputs = r.inputs /\ new.slots = r.slots
        /\ new.outcome = r.outcome /\ new.rendered = r.rendered /\ new.packed = r.packed
        /\ new.report = r.report /\ new.calibration = r.calibration
        /\ new.dataset = Bare
        /\ m.run = s.run /\ m.inputs = s.inputs /\ m.world = world /\ m.command = s.command
        /\ m.pc = "claimed"
    BY <1>1, <2>1, <2>2 DEF Found, Shaped, NoRun, Idle
  <2>5. RunStands(new)
    BY <1>1, <1>2, <1>3, <2>4 DEF Found, RunStands
  <2>6. Placed(m, new)
    BY <1>1, <1>2, <2>4 DEF Found, Placed, Preparing
  <2>7. Compatible(s, m, r, new)
    <3> SUFFICES ASSUME NEW t, Placed(t, r), t.run = s.run, Apart(s, t)
                 PROVE  Kept(t, r, new) /\ Apart(m, t)
      BY DEF Compatible
    <3>1. t.pc # "claimed"
      BY <1>3 DEF Placed, Absent, Bare
    <3>2. t.pc # "copy"
      <4> SUFFICES ASSUME t.pc = "copy" PROVE FALSE
        OBVIOUS
      <4>1. r.inputs = 0
        BY <1>2 DEF Placed
      <4> QED  BY <1>2, <4>1, Identified
    <3>3. t.pc \notin Preparing
      BY <1>3 DEF Placed, Preparing, Absent
    <3>4. Kept(t, r, new)
      BY <1>2, <2>4, <3>1, <3>2, <3>3 DEF Kept, Placed
    <3>5. Apart(m, t)
      BY <1>1, <2>4, <3>1 DEF Found, Apart, Claimed
    <3> QED  BY <3>4, <3>5
  <2> QED  BY <1>1, <2>3, <2>4, <2>5, <2>6, <2>7, DataStep DEF Found, State
<1>4. CASE /\ r.dataset = <<s.inputs, world>> /\ UNCHANGED runs
           /\ proc' = [proc EXCEPT ![p].world = world, ![p].pc = "reuse"]
  <2>1. PICK m : m = [s EXCEPT !.world = world, !.pc = "reuse"]
    OBVIOUS
  <2>2. Touches(p, s.run, r, m)
    <3>1. proc' = [proc EXCEPT ![p] = m] /\ runs' = [runs EXCEPT ![s.run] = r]
      BY <1>1, <1>4, <2>1 DEF Found, State, IInv, Shapes
    <3> QED  BY <1>1, <2>1, <3>1 DEF Found, Shaped, Touches, Idle
  <2>3. /\ m.run = s.run /\ m.inputs = s.inputs /\ m.world = world /\ m.command = s.command
        /\ m.pc = "reuse"
    BY <1>1, <2>1 DEF Found, Shaped, Idle
  <2>4. Placed(m, r)
    BY <1>1, <1>2, <1>4, <2>3 DEF Found, Placed, Preparing
  <2>5. Compatible(s, m, r, r)
    BY <1>1, <1>2, <2>3 DEF Found, Compatible, Kept, Placed, Apart, Claimed
  <2> QED  BY <1>1, <2>2, <2>3, <2>4, <2>5, DataStep DEF Found, State
<1>5. CASE End(p) /\ UNCHANGED runs
  BY <1>1, <1>5, EndInv DEF Found, State
<1> QED  BY <1>1, <1>3, <1>4, <1>5 DEF Identify, Found, State, Run

-----------------------------------------------------------------------------
(* The making of a run.                                                    *)

\* The copy ends with the inputs that the invocation has read.
LEMMA CopyInv == ASSUME IInv, NEW p \in Processes, CopyInputs(p) PROVE IInv'
<1>1. PICK s, r : Found(p, "copy", s, r)
  BY Finds DEF CopyInputs
<1>2. PICK m : m = [s EXCEPT !.pc = s.command[1].stage]
  OBVIOUS
<1>3. PICK new : new = [r EXCEPT !.inputs = s.inputs]
  OBVIOUS
<1>4. Touches(p, s.run, new, m)
  <2>1. proc' = [proc EXCEPT ![p] = m] /\ runs' = [runs EXCEPT ![s.run] = new]
    BY <1>1, <1>2, <1>3 DEF Found, State, CopyInputs, Command, Write, Goto, IInv, Shapes
  <2> QED  BY <1>1, <1>2, <1>3, <2>1 DEF Found, Shaped, Touches, Idle, NoRun
<1>5. /\ r.exists /\ r.inputs = 0 /\ r.dataset = Absent
      /\ s.inputs \in Versions /\ s.inputs \in 0 .. MaxVersion /\ s.run # New
      /\ s.command[1].run = New
      /\ s.command[1].stage \in {"prepare", "train", "evaluate", "calibrate"}
  BY <1>1, ExperimentAssumption DEF Found, Placed, Numbers, New, Versions
<1>6. /\ new.exists = r.exists /\ new.inputs = s.inputs /\ new.slots = r.slots
      /\ new.outcome = r.outcome /\ new.rendered = r.rendered /\ new.packed = r.packed
      /\ new.report = r.report /\ new.dataset = r.dataset
      /\ m.run = s.run /\ m.inputs = s.inputs /\ m.command = s.command
      /\ m.pc = s.command[1].stage
  BY <1>1, <1>2, <1>3 DEF Found, Shaped, NoRun, Idle
<1>7. RunStands(new)
  BY <1>1, <1>5, <1>6 DEF Found, RunStands
<1>8. Placed(m, new)
  BY <1>1, <1>5, <1>6 DEF Found, Placed, Preparing
<1>9. Alone(s, r)
  BY <1>1, <1>5, SoleOwner DEF Found
<1>10. Compatible(s, m, r, new)
  BY <1>9 DEF Alone, Compatible
<1> QED  BY <1>1, <1>4, <1>5, <1>6, <1>7, <1>8, <1>10, DataStep DEF Found, State

\* A copy that fails removes a run that nobody else is in; other failures leave it.
LEMMA FailInv == ASSUME IInv, NEW p \in Processes, Fail(p) PROVE IInv'
<1>1. CASE proc[p].pc # "copy"
  BY <1>1, EndInv DEF Fail
<1>2. CASE proc[p].pc = "copy"
  <2>1. PICK s, r : Found(p, "copy", s, r)
    BY <1>2, Finds DEF Fail, At
  <2>2. Touches(p, s.run, NoRun, Idle)
    BY <1>2, <2>1, IdleFits DEF Fail, End, Touches, Found, State, NoRun
  <2>3. RunStands(NoRun)
    BY SplitFacts, ExperimentAssumption DEF RunStands, NoRun
  <2>4. Compatible(s, Idle, r, NoRun)
    <3>1. Alone(s, r)
      BY <2>1, SoleOwner DEF Found, Numbers, New
    <3> QED  BY <3>1 DEF Alone, Compatible
  <2>5. NoRun.slots \subseteq r.slots
    BY DEF NoRun
  <2> QED  BY <2>1, <2>2, <2>3, <2>4, <2>5, IdleFits, DataStep DEF Found, State
<1> QED  BY <1>1, <1>2

-----------------------------------------------------------------------------
(* Numbers.                                                                *)

\* What the steps that take a number share.
LEMMA NumberFacts ==
    ASSUME IInv
    PROVE  /\ MaxInvocations[method] \in Nat /\ begun \in Nat /\ 0 \in Numbers
           /\ Numbers \subseteq Nat /\ \A n \in Numbers : n <= MaxInvocations[method]
           /\ \A n \in Nat : n <= begun => n \in Numbers
BY ExperimentAssumption DEF IInv, Base, Numbers

\* A calibration has made its directory, which was not there.
LEMMA CalibrateInv == ASSUME IInv, NEW p \in Processes, Calibrate(p) PROVE IInv'
<1>1. PICK s, r : Found(p, "calibrate", s, r)
  BY Finds DEF Calibrate
<1>2. PICK new : new = [r EXCEPT !.calibration = TRUE]
  OBVIOUS
<1>3. PICK m : m = IF ~r.calibration THEN [s EXCEPT !.pc = "measure"] ELSE Idle
  OBVIOUS
<1>4. Touches(p, s.run, new, m)
  <2>1. proc' = [proc EXCEPT ![p] = m] /\ runs' = [runs EXCEPT ![s.run] = new]
    BY <1>1, <1>2, <1>3 DEF Found, State, Run, Calibrate, Require, Goto, End, Write, IInv, Shapes
  <2> QED  BY <1>1, <1>2, <1>3, <2>1 DEF Found, Shaped, Touches, Idle, NoRun
<1>5. /\ new.exists = r.exists /\ new.inputs = r.inputs /\ new.slots = r.slots
      /\ new.outcome = r.outcome /\ new.rendered = r.rendered /\ new.packed = r.packed
      /\ new.report = r.report /\ new.dataset = r.dataset /\ new.calibration = TRUE
  BY <1>1, <1>2 DEF Found, Shaped, NoRun
<1>6. \/ m = Idle
      \/ /\ m.run = s.run /\ m.inputs = s.inputs /\ m.command = s.command /\ m.pc = "measure"
         /\ r.calibration # TRUE
  BY <1>1, <1>3 DEF Found, Shaped, Idle
<1>7. s.command[1].stage = "calibrate" /\ s.run # New /\ r.exists /\ r.inputs = s.inputs
  BY <1>1 DEF Found, Placed, Numbers, New
<1>8. RunStands(new)
  BY <1>1, <1>5 DEF Found, RunStands
<1>9. Placed(m, new)
  BY <1>1, <1>5, <1>6, <1>7, IdleFits DEF Found, Placed, Preparing
<1>10. Compatible(s, m, r, new)
  <2> SUFFICES ASSUME NEW t, Placed(t, r), t.run = s.run, Apart(s, t)
               PROVE  Kept(t, r, new) /\ Apart(m, t)
    BY DEF Compatible
  <2>1. Kept(t, r, new)
    BY <1>5, <1>7 DEF Kept, Placed
  <2>2. Apart(m, t)
    BY <1>6, <1>7, IdleFits DEF Apart, Claimed, Placed
  <2> QED  BY <2>1, <2>2
<1>11. m.pc \in {"idle", "measure"}
  BY <1>6, IdleFits
<1> QED  BY <1>1, <1>4, <1>5, <1>8, <1>9, <1>10, <1>11, DataStep DEF Found, State

\* The number that is tried for the results is in bounds.
LEMMA ListSlotsInv == ASSUME IInv, NEW p \in Processes, ListSlots(p) PROVE IInv'
<1>1. PICK s, r : Found(p, "slot", s, r)
  BY Finds DEF ListSlots
<1>2. PICK m : m = [s EXCEPT !.pc = "open", !.target = NextNumber(r.slots)]
  OBVIOUS
<1>3. proc' = [proc EXCEPT ![p] = m] /\ runs' = [runs EXCEPT ![s.run] = r] /\ UNCHANGED runs
  BY <1>1, <1>2 DEF Found, State, Run, ListSlots, IInv, Shapes
<1>4. Touches(p, s.run, r, m)
  BY <1>1, <1>2, <1>3 DEF Found, Shaped, Touches, Idle
<1>5. /\ m.run = s.run /\ m.inputs = s.inputs /\ m.command = s.command /\ m.pc = "open"
      /\ m.target = NextNumber(r.slots)
  BY <1>1, <1>2 DEF Found, Shaped, Idle
<1>6. Placed(m, r)
  BY <1>1, <1>5 DEF Found, Placed, Preparing
<1>7. ASSUME NEW q \in Processes \ {p}, proc[q].run = s.run
      PROVE  Kept(proc[q], runs[s.run], r) /\ Apart(m, proc[q])
  <2>1. Placed(proc[q], r) /\ Apart(s, proc[q])
    BY <1>1, <1>7 DEF Found, State, IInv
  <2> QED  BY <1>1, <1>5, <1>7, <2>1 DEF Found, State, Kept, Placed, Apart, Claimed, Numbers, New
<1>8. RunsCounted' /\ SlotsCounted'
  <2>1. /\ proc'[p] = m /\ (\A q \in Processes \ {p} : proc'[q] = proc[q])
        /\ UNCHANGED <<runs, begun, Numbers, Existing>>
    BY <1>1, <1>3 DEF Found, IInv, Base, outside, Numbers, Existing
  <2>2. p \notin Numbering' /\ p \in Working
    BY <1>1, <1>5, <2>1 DEF Numbering, Working, Found, State
  <2>3. /\ Cardinality(Numbering)' \in Nat /\ Cardinality(Working)' \in Nat
        /\ Cardinality(Numbering)' <= Cardinality(Numbering)
        /\ Cardinality(Working)' <= Cardinality(Working)
    BY <2>1, <2>2, CountsMove
  <2>4. /\ m.target \in Nat /\ m.target - 1 \in r.slots \cup {-1}
        /\ r.slots \subseteq Numbers
    BY <1>1, <1>5, NumberFacts, Highest DEF Found, RunStands
  <2>5. (m.target - 1) + Cardinality(Working) <= begun
    BY <1>1, <2>4 DEF Found, State, IInv, SlotsCounted
  <2>6. RunsCounted'
    <3>1. \A n \in Existing \cup {-1} : n \in Int
      BY DEF Existing, Numbers
    <3> QED  BY <1>5, <2>1, <2>3, <3>1, Counts, NumberFacts DEF IInv, RunsCounted
  <2>7. SlotsCounted'
    <3>1. \A k \in Numbers : \A n \in runs[k].slots \cup {-1} : n \in Int
      BY NumberFacts DEF IInv, RunStands
    <3> QED  BY <1>5, <2>1, <2>3, <2>4, <2>5, <3>1, Counts, NumberFacts DEF IInv, SlotsCounted
  <2> QED  BY <2>6, <2>7
<1>9. begun' \in 0 .. MaxInvocations[method]
  BY <1>1 DEF Found, IInv, Base
<1> QED  BY <1>1, <1>4, <1>6, <1>7, <1>8, <1>9, TouchInv DEF Found

\* Results are measured in a directory that was not there (numbered_output).
LEMMA MakeSlotInv == ASSUME IInv, NEW p \in Processes, MakeSlot(p) PROVE IInv'
<1>1. PICK s, r : Found(p, "open", s, r)
  BY Finds DEF MakeSlot
<1>2. PICK m : m = [s EXCEPT !.pc = IF s.target \in r.slots THEN "slot" ELSE "measure"]
  OBVIOUS
<1>3. PICK new : new = [r EXCEPT !.slots = r.slots \cup {s.target}]
  OBVIOUS
<1>4. proc' = [proc EXCEPT ![p] = m] /\ runs' = [runs EXCEPT ![s.run] = new]
  BY <1>1, <1>2, <1>3 DEF Found, State, Run, MakeSlot, Goto, Write, IInv, Shapes
<1>5. Touches(p, s.run, new, m)
  BY <1>1, <1>2, <1>3, <1>4 DEF Found, Shaped, Touches, Idle, NoRun
<1>6. /\ m.run = s.run /\ m.inputs = s.inputs /\ m.command = s.command /\ m.target = s.target
      /\ m.pc = IF s.target \in r.slots THEN "slot" ELSE "measure"
      /\ new.exists = r.exists /\ new.inputs = r.inputs /\ new.slots = r.slots \cup {s.target}
      /\ new.outcome = r.outcome /\ new.rendered = r.rendered /\ new.packed = r.packed
      /\ new.report = r.report /\ new.dataset = r.dataset /\ new.calibration = r.calibration
  BY <1>1, <1>2, <1>3 DEF Found, Shaped, NoRun, Idle
<1>7. /\ proc'[p] = m /\ (\A q \in Processes \ {p} : proc'[q] = proc[q])
      /\ runs'[s.run] = new /\ (\A n \in Numbers \ {s.run} : runs'[n] = runs[n])
      /\ UNCHANGED <<begun, Numbers>> /\ Existing' = Existing
  BY <1>1, <1>4, <1>6 DEF Found, State, IInv, Base, outside, Numbers, Existing
<1>8. /\ Cardinality(Numbering)' \in Nat /\ Cardinality(Working)' \in Nat
      /\ Cardinality(Numbering)' <= Cardinality(Numbering)
      /\ Cardinality(Working)' <= Cardinality(Working)
      /\ m.pc = "measure" => Cardinality(Working)' = Cardinality(Working) - 1
  <2>1. p \notin Numbering' /\ p \in Working /\ (m.pc = "measure" => p \notin Working')
    BY <1>1, <1>6, <1>7 DEF Numbering, Working, Found, State
  <2> QED  BY <1>7, <2>1, CountsMove
<1>9. s.target \in Nat /\ s.target + Cardinality(Working) <= begun + 1
  BY <1>1 DEF Found, State, IInv, SlotsCounted
<1>10. s.target \in Numbers
  <2>1. CASE s.target \in r.slots
    BY <1>1, <2>1 DEF Found, RunStands
  <2>2. CASE s.target \notin r.slots
    BY <1>6, <1>8, <1>9, <2>2, Counts, NumberFacts
  <2> QED  BY <2>1, <2>2
<1>11. RunStands(new)
  BY <1>1, <1>6, <1>10 DEF Found, RunStands
<1>12. Placed(m, new)
  BY <1>1, <1>6 DEF Found, Placed, Preparing
<1>13. ASSUME NEW q \in Processes \ {p}, proc[q].run = s.run
       PROVE  Kept(proc[q], runs[s.run], new) /\ Apart(m, proc[q])
  <2>1. Placed(proc[q], r) /\ Apart(s, proc[q]) /\ s.run # New
    BY <1>1, <1>13 DEF Found, State, IInv, Numbers, New
  <2>2. Kept(proc[q], r, new)
    BY <1>6, <1>13, <2>1 DEF Kept, Placed
  <2>3. Apart(m, proc[q])
    BY <1>1, <1>6, <2>1 DEF Found, Apart, Claimed, Placed
  <2> QED  BY <1>1, <2>2, <2>3 DEF Found, State
<1>14. RunsCounted'
  <2>1. \A n \in Existing \cup {-1} : n \in Int
    BY DEF Existing, Numbers
  <2> QED  BY <1>6, <1>7, <1>8, <2>1, Counts, NumberFacts DEF IInv, RunsCounted
<1>15. SlotsCounted'
  <2>1. \A k \in Numbers : \A n \in runs[k].slots \cup {-1} :
           n \in Int /\ n + Cardinality(Working) <= begun
    BY NumberFacts DEF IInv, RunStands, SlotsCounted
  <2>2. \A n \in new.slots \cup {-1} : n + Cardinality(Working)' <= begun
    <3>1. CASE s.target \in r.slots
      BY <1>1, <1>6, <1>8, <2>1, <3>1, Counts, NumberFacts DEF Found, State
    <3>2. CASE s.target \notin r.slots
      BY <1>1, <1>6, <1>8, <1>9, <2>1, <3>2, Counts, NumberFacts DEF Found, State
    <3> QED  BY <3>1, <3>2
  <2>3. \A k \in Numbers : \A n \in runs'[k].slots \cup {-1} : n + Cardinality(Working)' <= begun
    BY <1>1, <1>7, <1>8, <2>1, <2>2, Counts, NumberFacts DEF Found
  <2>4. \A q \in Processes : proc'[q].pc = "open" =>
           proc'[q].target \in Nat /\ proc'[q].target + Cardinality(Working)' <= begun + 1
    BY <1>6, <1>7, <1>8, Counts, NumberFacts DEF IInv, SlotsCounted
  <2> QED  BY <1>7, <2>3, <2>4 DEF SlotsCounted
<1>16. begun' \in 0 .. MaxInvocations[method]
  BY <1>1 DEF Found, IInv, Base
<1> QED  BY <1>1, <1>5, <1>11, <1>12, <1>13, <1>14, <1>15, <1>16, TouchInv DEF Found

\* The number that is tried for a run is in bounds.
LEMMA ListRunsInv == ASSUME IInv, NEW p \in Processes, ListRuns(p) PROVE IInv'
<1>1. PICK s : s = proc[p]
  OBVIOUS
<1>2. PICK m : m = [s EXCEPT !.pc = "make", !.target = NextNumber(Existing)]
  OBVIOUS
<1>3. /\ s.pc = "list" /\ Placed(s, runs[s.run]) /\ s.run = New
      /\ s = [f \in DOMAIN Idle |-> s[f]]
      /\ UNCHANGED <<outside, begun, runs>>
  BY <1>1 DEF ListRuns, At, IInv, Placed, Shapes
<1>4. proc' = [proc EXCEPT ![p] = m] /\ runs' = [runs EXCEPT ![0] = runs[0]]
  BY <1>1, <1>2, <1>3 DEF ListRuns, IInv, Shapes
<1>5. /\ m.run = s.run /\ m.inputs = s.inputs /\ m.command = s.command /\ m.pc = "make"
      /\ m.target = NextNumber(Existing) /\ m = [f \in DOMAIN Idle |-> m[f]]
  BY <1>2, <1>3 DEF Idle
<1>6. Touches(p, 0, runs[0], m)
  BY <1>3, <1>4, <1>5, NumberFacts DEF Touches, IInv, Shapes
<1>7. Placed(m, runs[0])
  BY <1>3, <1>5 DEF Placed, Preparing
<1>8. ASSUME NEW q \in Processes \ {p}, proc[q].run = 0
      PROVE  Kept(proc[q], runs[0], runs[0]) /\ Apart(m, proc[q])
  <2>1. Placed(proc[q], runs[0])
    BY <1>8 DEF IInv
  <2> QED  BY <1>3, <1>5, <1>8, <2>1 DEF Kept, Placed, Apart, New
<1>9. /\ proc'[p] = m /\ (\A q \in Processes \ {p} : proc'[q] = proc[q])
      /\ UNCHANGED <<runs, begun, Numbers>> /\ Existing' = Existing
  BY <1>3, <1>4 DEF IInv, Base, outside, Numbers, Existing
<1>10. /\ Cardinality(Numbering)' \in Nat /\ Cardinality(Working)' \in Nat
       /\ Cardinality(Numbering)' <= Cardinality(Numbering)
       /\ Cardinality(Working)' <= Cardinality(Working)
  <2>1. p \in Numbering /\ p \in Working
    BY <1>1, <1>3 DEF Numbering, Working
  <2> QED  BY <1>9, <2>1, CountsMove
<1>11. RunsCounted'
  <2>1. /\ m.target \in Nat /\ m.target - 1 \in Existing \cup {-1}
    BY <1>5, NumberFacts, Highest DEF Existing
  <2>2. \A n \in Existing \cup {-1} : n \in Int /\ n + Cardinality(Numbering) <= begun
    BY NumberFacts DEF Existing, IInv, RunsCounted
  <2>3. m.target + Cardinality(Numbering) <= begun + 1
    BY <2>1, <2>2, Counts, NumberFacts
  <2> QED  BY <1>5, <1>9, <1>10, <2>1, <2>2, <2>3, Counts, NumberFacts DEF IInv, RunsCounted
<1>12. SlotsCounted'
  <2>1. \A k \in Numbers : \A n \in runs[k].slots \cup {-1} : n \in Int
    BY NumberFacts DEF IInv, RunStands
  <2> QED  BY <1>5, <1>9, <1>10, <2>1, Counts, NumberFacts DEF IInv, SlotsCounted
<1>13. begun' \in 0 .. MaxInvocations[method] /\ RunStands(runs[0])
  BY <1>3, NumberFacts DEF IInv, Base
<1> QED  BY <1>6, <1>7, <1>8, <1>11, <1>12, <1>13, NumberFacts, TouchInv

\* A run is claimed by making a directory that was not there (numbered_output).
LEMMA MakeRunInv == ASSUME IInv, NEW p \in Processes, MakeRun(p) PROVE IInv'
<1>1. PICK s : s = proc[p]
  OBVIOUS
<1>2. PICK n : n = s.target
  OBVIOUS
<1>3. /\ s.pc = "make" /\ Placed(s, runs[s.run]) /\ s.run = New
      /\ s = [f \in DOMAIN Idle |-> s[f]]
      /\ UNCHANGED <<outside, begun>>
  BY <1>1 DEF MakeRun, At, IInv, Placed, Shapes
<1>4. n \in Nat /\ n + Cardinality(Numbering) <= begun + 1
  BY <1>1, <1>2, <1>3 DEF IInv, RunsCounted
<1>5. p \in Numbering /\ p \in Working
  BY <1>1, <1>3 DEF Numbering, Working
<1>6. n \in Numbers
  <2>1. Cardinality(Numbering) # 0
    BY <1>5, Counts, FS_EmptySet
  <2> QED  BY <1>4, <2>1, Counts, NumberFacts
<1>7. PICK m : m = IF n \in Existing THEN [s EXCEPT !.pc = "list"]
                   ELSE [s EXCEPT !.pc = "copy", !.run = n]
  OBVIOUS
<1>8. PICK new : new = IF n \in Existing THEN runs[n] ELSE [runs[n] EXCEPT !.exists = TRUE]
  OBVIOUS
<1>9. proc' = [proc EXCEPT ![p] = m] /\ runs' = [runs EXCEPT ![n] = new]
  BY <1>1, <1>2, <1>7, <1>8 DEF MakeRun, Goto, IInv, Shapes
<1>10. /\ m.inputs = s.inputs /\ m.command = s.command /\ m = [f \in DOMAIN Idle |-> m[f]]
       /\ \/ n \in Existing /\ m.pc = "list" /\ m.run = New
          \/ n \notin Existing /\ m.pc = "copy" /\ m.run = n
  BY <1>3, <1>7 DEF Idle
<1>11. PICK r : r = runs[n]
  OBVIOUS
<1>12. /\ RunStands(r) /\ r = [f \in DOMAIN NoRun |-> r[f]]
       /\ (n \in Existing <=> r.exists)
  BY <1>6, <1>11 DEF IInv, Shapes, Existing
<1>13. /\ new.exists /\ new.inputs = r.inputs /\ new.slots = r.slots
       /\ new.outcome = r.outcome /\ new.rendered = r.rendered /\ new.packed = r.packed
       /\ new.report = r.report /\ new.dataset = r.dataset /\ new.calibration = r.calibration
       /\ new = [f \in DOMAIN NoRun |-> new[f]]
       /\ n \notin Existing => r.inputs = 0 /\ r.dataset = Absent
  BY <1>8, <1>11, <1>12 DEF NoRun, RunStands
<1>14. Touches(p, n, new, m)
  BY <1>3, <1>9, <1>10, <1>13 DEF Touches
<1>15. RunStands(new)
  BY <1>12, <1>13 DEF RunStands
<1>16. Placed(m, new)
  BY <1>3, <1>6, <1>10, <1>13, NumberFacts DEF Placed, Preparing, New
<1>17. ASSUME NEW q \in Processes \ {p}, proc[q].run = n
       PROVE  Kept(proc[q], runs[n], new) /\ Apart(m, proc[q])
  <2>1. Placed(proc[q], r) /\ proc[q].run # New
    BY <1>6, <1>11, <1>17 DEF IInv, Numbers, New
  <2>2. n \in Existing
    BY <1>12, <2>1 DEF Placed
  <2> QED  BY <1>10, <1>11, <1>13, <1>17, <2>1, <2>2 DEF Kept, Placed, Apart
<1>18. /\ proc'[p] = m /\ (\A q \in Processes \ {p} : proc'[q] = proc[q])
       /\ UNCHANGED <<begun, Numbers>> /\ Existing' = Existing \cup {n}
       /\ \A k \in Numbers : runs'[k].slots = runs[k].slots
  BY <1>3, <1>6, <1>9, <1>11, <1>13 DEF IInv, Base, outside, Numbers, Existing
<1>19. /\ Cardinality(Numbering)' \in Nat /\ Cardinality(Working)' \in Nat
       /\ Cardinality(Numbering)' <= Cardinality(Numbering)
       /\ Cardinality(Working)' <= Cardinality(Working)
       /\ n \notin Existing => Cardinality(Numbering)' = Cardinality(Numbering) - 1
  <2>1. n \notin Existing => p \notin Numbering'
    BY <1>10, <1>18 DEF Numbering
  <2> QED  BY <1>5, <1>18, <2>1, CountsMove
<1>20. RunsCounted'
  <2>1. \A k \in Existing \cup {-1} : k \in Int /\ k + Cardinality(Numbering) <= begun
    BY NumberFacts DEF Existing, IInv, RunsCounted
  <2>2. n + Cardinality(Numbering)' <= begun
    BY <1>4, <1>19, <2>1, Counts, NumberFacts
  <2>3. \A k \in Existing \cup {-1} : k + Cardinality(Numbering)' <= begun
    BY <1>19, <2>1, Counts, NumberFacts
  <2>4. \A q \in Processes : proc'[q].pc = "make" =>
           proc'[q].target \in Nat /\ proc'[q].target + Cardinality(Numbering)' <= begun + 1
    BY <1>10, <1>18, <1>19, Counts, NumberFacts DEF IInv, RunsCounted
  <2> QED  BY <1>18, <2>2, <2>3, <2>4 DEF RunsCounted
<1>21. SlotsCounted'
  <2>1. \A k \in Numbers : \A i \in runs[k].slots \cup {-1} : i \in Int
    BY NumberFacts DEF IInv, RunStands
  <2> QED  BY <1>10, <1>18, <1>19, <2>1, Counts, NumberFacts DEF IInv, SlotsCounted
<1>22. begun' \in 0 .. MaxInvocations[method]
  BY <1>3 DEF IInv, Base
<1> QED  BY <1>6, <1>14, <1>15, <1>16, <1>17, <1>20, <1>21, <1>22, TouchInv

-----------------------------------------------------------------------------
(* The beginning of an invocation, and what is edited outside.             *)

\* An invocation begins with the inputs there are, in no run or in one of those inputs.
LEMMA InvokeInv == ASSUME IInv, NEW p \in Processes, Invoke(p) PROVE IInv'
<1>1. PICK c \in Commands :
         /\ ValidStage(c)
         /\ c.run # New => c.run \in Numbers /\ SameInputs(c.run)
         /\ proc' = [proc EXCEPT ![p] =
               [Idle EXCEPT !.pc = IF c.run = New THEN "list" ELSE c.stage,
                            !.id = begun + 1, !.command = <<c>>, !.run = c.run,
                            !.inputs = current]]
  BY DEF Invoke
<1>2. /\ begun' = begun + 1 /\ begun < MaxInvocations[method]
      /\ UNCHANGED <<outside, runs>>
  BY DEF Invoke
<1>3. PICK m : m = [Idle EXCEPT !.pc = IF c.run = New THEN "list" ELSE c.stage,
                                !.id = begun + 1, !.command = <<c>>, !.run = c.run,
                                !.inputs = current]
  OBVIOUS
<1>4. /\ m = [f \in DOMAIN Idle |-> m[f]] /\ m.command[1] = c /\ m.run = c.run
      /\ m.inputs = current /\ m.pc = IF c.run = New THEN "list" ELSE c.stage
  BY <1>3 DEF Idle
<1>5. c.stage \in {"prepare", "train", "evaluate", "calibrate"}
  <2>1. method \in {"sft", "rl", "eval", "calibrate"}
    BY ExperimentAssumption DEF IInv, Base
  <2>2. ToSet(METHOD_STAGES[method]) \subseteq {"prepare", "train", "evaluate", "calibrate"}
    BY <2>1 DEF METHOD_STAGES, ToSet
  <2> QED  BY <1>1, <2>2 DEF ValidStage
<1>6. PICK n \in Numbers : c.run \in {n, New}
  BY <1>1, NumberFacts
<1>7. proc' = [proc EXCEPT ![p] = m] /\ runs' = [runs EXCEPT ![n] = runs[n]]
  BY <1>1, <1>2, <1>3 DEF IInv, Shapes
<1>8. Touches(p, n, runs[n], m)
  BY <1>2, <1>4, <1>6, <1>7 DEF Touches, IInv, Shapes
<1>9. RunStands(runs[n])
  BY DEF IInv
<1>10. Placed(m, runs[n])
  <2>1. current \in Versions
    BY DEF IInv, Base
  <2>2. CASE c.run = New
    BY <1>4, <1>5, <2>1, <2>2 DEF Placed, Preparing
  <2>3. CASE c.run # New
    <3>1. c.run = n /\ runs[n].inputs = current
      BY <1>1, <1>6, <2>3 DEF SameInputs
    <3>2. runs[n].exists
      BY <1>9, <2>1, <3>1, Identified DEF RunStands
    <3> QED  BY <1>4, <1>5, <2>1, <2>3, <3>1, <3>2 DEF Placed, Preparing
  <2> QED  BY <2>2, <2>3
<1>11. ASSUME NEW q \in Processes \ {p}, proc[q].run = n
       PROVE  Kept(proc[q], runs[n], runs[n]) /\ Apart(m, proc[q])
  <2>1. Placed(proc[q], runs[n]) /\ n # New
    BY <1>11 DEF IInv, Numbers, New
  <2> QED  BY <1>4, <1>5, <1>11, <2>1 DEF Kept, Placed, Apart, Claimed
<1>12. /\ proc'[p] = m /\ (\A q \in Processes \ {p} : proc'[q] = proc[q])
       /\ UNCHANGED <<runs, Numbers>> /\ Existing' = Existing
  BY <1>2, <1>7 DEF IInv, Base, outside, Numbers, Existing
<1>13. /\ Cardinality(Numbering)' \in Nat /\ Cardinality(Working)' \in Nat
       /\ Cardinality(Numbering)' <= Cardinality(Numbering) + 1
       /\ Cardinality(Working)' <= Cardinality(Working) + 1
  BY <1>12, CountsMove
<1>14. m.pc \notin {"make", "open"}
  BY <1>4, <1>5
<1>15. RunsCounted'
  <2>1. \A k \in Existing \cup {-1} : k \in Int
    BY NumberFacts DEF Existing
  <2> QED  BY <1>2, <1>12, <1>13, <1>14, <2>1, Counts, NumberFacts DEF IInv, RunsCounted
<1>16. SlotsCounted'
  <2>1. \A k \in Numbers : \A i \in runs[k].slots \cup {-1} : i \in Int
    BY NumberFacts DEF IInv, RunStands
  <2> QED  BY <1>2, <1>12, <1>13, <1>14, <2>1, Counts, NumberFacts DEF IInv, SlotsCounted
<1>17. begun' \in 0 .. MaxInvocations[method]
  BY <1>2, NumberFacts
<1> QED  BY <1>8, <1>9, <1>10, <1>11, <1>15, <1>16, <1>17, TouchInv

\* What no process does leaves the processes, and their numbers, alone.
LEMMA OutsideInv ==
    ASSUME IInv, UNCHANGED <<method, begun, proc>>, {current, world, adapter}' \subseteq Versions,
           UNCHANGED runs
    PROVE  IInv'
<1>1. UNCHANGED <<Numbers, Versions, Existing, Numbering, Working>>
  BY DEF Numbers, Versions, Existing, Numbering, Working
<1>2. Base' /\ Shapes'
  BY <1>1 DEF IInv, Base, Shapes, Idle, NoRun
<1>3. \A n \in Numbers : RunStands(runs[n])'
  BY <1>1 DEF IInv, RunStands
<1>4. \A p \in Processes : Placed(proc[p], runs[proc[p].run])'
  BY <1>1, SMTT(30) DEF IInv, Placed
<1>5. \A p, q \in Processes : p # q => Apart(proc[p], proc[q])'
  BY DEF IInv, Apart, Claimed
<1>6. RunsCounted' /\ SlotsCounted'
  BY <1>1 DEF IInv, RunsCounted, SlotsCounted
<1> QED  BY <1>1, <1>2, <1>3, <1>4, <1>5, <1>6 DEF IInv

\* Rows are edited when nobody runs, and an edit is recognized.
LEMMA EditRowsInv == ASSUME IInv, EditRows PROVE IInv'
<1>1. PICK n \in Numbers, t \in {"training", "validation"} :
         /\ runs[n].packed[t] \in Versions
         /\ runs' = [runs EXCEPT ![n].packed[t] = Edited]
  BY SplitFacts DEF EditRows
<1>2. UNCHANGED <<outside, begun, proc>> /\ \A p \in Processes : proc[p].pc = "idle"
  BY DEF EditRows, Quiet
<1>3. PICK r : r = runs[n]
  OBVIOUS
<1>4. PICK new : new = [r EXCEPT !.packed = [r.packed EXCEPT ![t] = Edited]]
  OBVIOUS
<1>5. r = [f \in DOMAIN NoRun |-> r[f]] /\ RunStands(r)
  BY <1>3 DEF IInv, Shapes
<1>6. runs' = [runs EXCEPT ![n] = new]
  BY <1>1, <1>3, <1>4, <1>5 DEF IInv, Shapes, NoRun
<1>7. /\ new.exists = r.exists /\ new.inputs = r.inputs /\ new.slots = r.slots
      /\ new.outcome = r.outcome /\ new.rendered = r.rendered /\ new.dataset = r.dataset
      /\ new.report = r.report
      /\ new = [f \in DOMAIN NoRun |-> new[f]]
      /\ DOMAIN new.packed = {"training", "validation"} /\ new.packed[t] = Edited
      /\ \A u \in {"training", "validation"} : u # t => new.packed[u] = r.packed[u]
  BY <1>4, <1>5 DEF NoRun, RunStands
<1>8. r.dataset \notin {Absent, Bare}
  <2> SUFFICES ASSUME r.dataset \in {Absent, Bare} PROVE FALSE
    OBVIOUS
  <2>1. r.packed[t] = 0
    BY <1>5, SplitFacts DEF RunStands, NoRun
  <2>2. \A i \in Versions : i # 0
    BY Identified
  <2> QED  BY <1>1, <1>3, <2>1, <2>2
<1>9. RunStands(new)
  BY <1>5, <1>7, <1>8 DEF RunStands
<1>10. /\ UNCHANGED <<method, begun, proc, Numbers, Versions, Numbering, Working>>
       /\ runs'[n] = new /\ (\A k \in Numbers \ {n} : runs'[k] = runs[k])
       /\ runs' = [k \in Numbers |-> runs'[k]]
  BY <1>2, <1>6 DEF IInv, Shapes, outside, Numbers, Versions, Numbering, Working
<1>11. Base'
  BY <1>2, <1>10 DEF IInv, Base, outside
<1>12. Shapes'
  BY <1>7, <1>10 DEF IInv, Shapes, Idle, NoRun
<1>13. ASSUME NEW k \in Numbers PROVE RunStands(runs[k])'
  <2>1. RunStands(runs'[k])
    BY <1>9, <1>10 DEF IInv
  <2> QED  BY <1>10, <2>1 DEF RunStands
<1>14. ASSUME NEW p \in Processes PROVE Placed(proc[p], runs[proc[p].run])'
  <2>1. Placed(proc[p], runs[proc[p].run]) /\ proc[p].run = New
    BY <1>2 DEF IInv, Placed
  <2>2. Placed(proc[p], runs'[proc[p].run])
    BY <2>1, KeptPlaced
  <2> QED  BY <1>10, <2>2, SMTT(30) DEF Placed
<1>15. \A p, q \in Processes : p # q => Apart(proc[p], proc[q])'
  BY <1>2 DEF IInv, Apart, Claimed
<1>16. RunsCounted' /\ SlotsCounted'
  <2>1. Existing' = Existing /\ \A k \in Numbers : runs'[k].slots = runs[k].slots
    BY <1>3, <1>7, <1>10 DEF Existing
  <2> QED  BY <1>10, <2>1 DEF IInv, RunsCounted, SlotsCounted
<1> QED  BY <1>10, <1>11, <1>12, <1>13, <1>14, <1>15, <1>16 DEF IInv

-----------------------------------------------------------------------------
(* The initial states.                                                     *)

\* What earlier invocations have left is in order.
LEMMA InitInv == Init => IInv
<1> SUFFICES ASSUME Init PROVE IInv
  OBVIOUS
<1>1. PICK past \in {NoRun} \cup Past[method] :
         runs = [n \in Numbers |-> IF n = 0 THEN past ELSE NoRun]
  BY DEF Init
<1>2. /\ method \in Methods /\ method \in {"sft", "rl", "eval", "calibrate"}
      /\ MaxInvocations[method] \in Nat /\ 1 \in Versions /\ MaxVersion \in Nat \ {0}
      /\ Steps \in Nat \ {0}
  BY ExperimentAssumption DEF Init, Versions
<1>3. past \in {NoRun, PreparedRun, TrainedRun, TrainedByRl}
  BY <1>1, <1>2 DEF Past
<1>4. NoRun = [f \in DOMAIN NoRun |-> NoRun[f]] /\ RunStands(NoRun) /\ NoRun.slots = {}
  <2>1. /\ NoRun.inputs = 0 /\ NoRun.dataset = Absent /\ NoRun.slots = {}
        /\ NoRun.outcome = "none" /\ NoRun.report = Absent
        /\ DOMAIN NoRun.rendered = {"training", "validation"}
        /\ DOMAIN NoRun.packed = {"training", "validation"}
        /\ NoRun = [f \in DOMAIN NoRun |-> NoRun[f]]
    BY SplitFacts DEF NoRun
  <2>2. 0 \in 0 .. MaxVersion
    BY <1>2
  <2> QED  BY <2>1, <2>2 DEF RunStands
<1>5. /\ PreparedRun = [f \in DOMAIN NoRun |-> PreparedRun[f]]
      /\ PreparedRun.exists /\ PreparedRun.inputs = 1 /\ PreparedRun.dataset = <<1, 1>>
      /\ PreparedRun.slots = {} /\ PreparedRun.outcome = "none"
      /\ PreparedRun.rendered = [t \in {"training", "validation"} |-> 1]
      /\ PreparedRun.packed = [t \in {"training", "validation"} |-> 1]
      /\ PreparedRun.report = <<[t \in {"training", "validation"} |-> 1]>>
  BY SplitFacts, ZenonT(60) DEF PreparedRun, NoRun
<1>6. <<1, 1>> \notin {Absent, Bare}
  BY <1>2, Identified
<1>7. RunStands(PreparedRun)
  <2>1. 1 \in 0 .. MaxVersion /\ <<1, 1>>[1] = 1 /\ <<1, 1>>[2] = 1
    BY <1>2
  <2>2. \A t \in {"training", "validation"} :
           PreparedRun.rendered[t] = 1 /\ PreparedRun.packed[t] = 1 /\ PreparedRun.report[1][t] = 1
    BY <1>5
  <2> QED  BY <1>5, <1>6, <2>1, <2>2 DEF RunStands
<1>8. /\ TrainedRun = [f \in DOMAIN NoRun |-> TrainedRun[f]]
      /\ TrainedRun.exists /\ TrainedRun.inputs = 1 /\ TrainedRun.dataset = <<1, 1>>
      /\ TrainedRun.slots = {} /\ TrainedRun.outcome = "complete"
      /\ TrainedRun.rendered = [t \in {"training", "validation"} |-> 1]
      /\ TrainedRun.packed = [t \in {"training", "validation"} |-> 1]
      /\ TrainedRun.report = <<[t \in {"training", "validation"} |-> 1]>>
  BY <1>5, ZenonT(60) DEF TrainedRun, NoRun
<1>9. RunStands(TrainedRun)
  <2>1. 1 \in 0 .. MaxVersion /\ <<1, 1>>[1] = 1 /\ <<1, 1>>[2] = 1
    BY <1>2
  <2>2. \A t \in {"training", "validation"} :
           TrainedRun.rendered[t] = 1 /\ TrainedRun.packed[t] = 1 /\ TrainedRun.report[1][t] = 1
    BY <1>8
  <2> QED  BY <1>6, <1>8, <2>1, <2>2 DEF RunStands
<1>10. /\ TrainedByRl = [f \in DOMAIN NoRun |-> TrainedByRl[f]]
       /\ TrainedByRl.exists /\ TrainedByRl.inputs = 1 /\ TrainedByRl.dataset = Absent
       /\ TrainedByRl.slots = {} /\ TrainedByRl.outcome = "complete"
       /\ TrainedByRl.rendered = NoRun.rendered /\ TrainedByRl.packed = NoRun.packed
       /\ TrainedByRl.report = Absent
  BY <1>8, ZenonT(60) DEF TrainedByRl, NoRun
<1>11. RunStands(TrainedByRl)
  BY <1>2, <1>10, SplitFacts DEF RunStands, NoRun
<1>12. Shapes
  <2>1. past = [f \in DOMAIN NoRun |-> past[f]]
    BY <1>3, <1>4, <1>5, <1>8, <1>10
  <2> QED  BY <1>1, <1>4, <2>1 DEF Init, Shapes, Idle
<1>13. \A n \in Numbers : RunStands(runs[n]) /\ runs[n].slots = {}
  BY <1>1, <1>3, <1>4, <1>5, <1>7, <1>8, <1>9, <1>10, <1>11
<1>14. ASSUME NEW p \in Processes PROVE Placed(proc[p], runs[proc[p].run])
  BY IdleFits DEF Init
<1>15. \A p, q \in Processes : p # q => Apart(proc[p], proc[q])
  BY IdleFits DEF Init, Apart, Claimed, Idle
<1>16. Base
  BY <1>1, <1>2 DEF Init, Base
<1>17. Numbering = {} /\ Working = {} /\ \A p \in Processes : proc[p].pc = "idle"
  BY IdleFits DEF Init, Numbering, Working
<1>18. Cardinality(Numbering) = 0 /\ Cardinality(Working) = 0 /\ begun = 0
  BY <1>17, FS_EmptySet DEF Init
<1>19. RunsCounted
  <2>1. Existing \subseteq {0}
    BY <1>1, <1>4 DEF Existing, NoRun
  <2> QED  BY <1>17, <1>18, <2>1 DEF RunsCounted
<1>20. SlotsCounted
  BY <1>13, <1>17, <1>18 DEF SlotsCounted
<1> QED  BY <1>12, <1>13, <1>14, <1>15, <1>16, <1>19, <1>20 DEF IInv

-----------------------------------------------------------------------------
(* The invariant of the specification.                                     *)

\* Every step keeps the invariant.
LEMMA NextInv == ASSUME IInv, [Next]_vars PROVE IInv'
<1>1. CASE UNCHANGED vars
  <2>1. {current, world, adapter}' \subseteq Versions
    BY <1>1 DEF vars, IInv, Base
  <2> QED  BY <1>1, <2>1, OutsideInv DEF vars
<1>2. ASSUME NEW p \in Processes, Invoke(p) \/ Step(p) \/ Fail(p) \/ Kill(p) PROVE IInv'
  <2>1. CASE Invoke(p)
    BY <2>1, InvokeInv
  <2>2. CASE Fail(p)
    BY <2>2, FailInv
  <2>3. CASE Kill(p)
    BY <2>3, EndInv DEF Kill
  <2>4. CASE Step(p)
    <3>1. CASE MildSteps(p)
      BY <3>1, MildInv
    <3>2. CASE ~MildSteps(p)
      BY <2>4, <3>2, ListRunsInv, MakeRunInv, CopyInv, IdentifyInv, RecordInv, ReuseInv, RenderInv,
         PackInv, ReportInv, ListSlotsInv, MakeSlotInv, CalibrateInv DEF Step, MildSteps
    <3> QED  BY <3>1, <3>2
  <2> QED  BY <1>2, <2>1, <2>2, <2>3, <2>4
<1>3. CASE EditInputs \/ Upgrade \/ EditAdapter
  <2>1. {current, world, adapter}' \subseteq Versions
    BY <1>3, ExperimentAssumption DEF EditInputs, Upgrade, EditAdapter, IInv, Base, Versions
  <2> QED  BY <1>3, <2>1, OutsideInv DEF EditInputs, Upgrade, EditAdapter
<1>4. CASE EditRows
  BY <1>4, EditRowsInv
<1> QED  BY <1>1, <1>2, <1>3, <1>4 DEF Next

\* The invariant implies what is promised of runs, results and datasets.
LEMMA Implied == IInv => ExperimentInv
<1> SUFFICES ASSUME IInv PROVE ExperimentInv
  OBVIOUS
<1>1. TypeOK
  BY DEF IInv, Base, TypeOK, RunStands
<1>2. OutputsAreOwned
  <2>1. ASSUME NEW p \in Processes, NEW q \in Processes, p # q
        PROVE  /\ Claims(p) \cap Claims(q) = {}
               /\ ClaimsRun(p) /\ ClaimsRun(q) => proc[p].run # proc[q].run
    <3>1. Apart(proc[p], proc[q])
      BY <2>1 DEF IInv
    <3>2. ASSUME NEW o \in {p, q}, proc[o].pc = "measure", Command(o).stage # "calibrate"
          PROVE  proc[o].target # New
      <4>1. Placed(proc[o], runs[proc[o].run]) /\ RunStands(runs[proc[o].run])
        BY <3>2 DEF IInv, Placed
      <4>2. proc[o].target \in Numbers
        BY <3>2, <4>1 DEF Placed, RunStands, Command
      <4>3. proc[o].target \in Nat
        BY <4>2, NumberFacts
      <4> QED  BY <4>3 DEF New
    <3>3. Claims(p) \cap Claims(q) = {}
      BY <3>1, <3>2 DEF Claims, Apart, Command
    <3> QED  BY <3>1, <3>3 DEF Apart, Claimed, ClaimsRun, Command
  <2>2. \A p \in Processes :
           proc[p].run # New /\ proc[p].pc # "copy" => Run(p).inputs = proc[p].inputs
    BY DEF IInv, Placed, Run
  <2> QED  BY <2>1, <2>2 DEF OutputsAreOwned
<1>3. DatasetsAreOfAPiece
  BY SplitFacts DEF IInv, RunStands, DatasetsAreOfAPiece
<1> QED  BY <1>1, <1>2, <1>3 DEF ExperimentInv

(* Runs, results and calibrations have one owner each, no run mixes inputs *)
(* or tokenizers, and a report of a preparation is of all of it            *)
(* (experiment.run.numbered_output, create_run, sft.dataset).              *)
THEOREM ExperimentInvariant == Spec => []ExperimentInv
<1>1. Init => IInv
  BY InitInv
<1>2. IInv /\ [Next]_vars => IInv'
  BY NextInv
<1>3. IInv => ExperimentInv
  BY Implied
<1> QED  BY <1>1, <1>2, <1>3, PTL DEF Spec

-----------------------------------------------------------------------------
(* Attempts.                                                               *)

AttemptInv ==
    /\ \A n \in Numbers : runs[n].identity # Absent =>
          runs[n].training = TRUE /\ runs[n].inputs # 0
    /\ \A p \in Processes :
          LET s == proc[p]
              r == runs[s.run]
          IN  /\ s.pc # "idle" => s.id \in 0 .. begun
              /\ s.pc \in {"initialize", "snapshot"} => method = "sft"
              /\ s.pc \in {"initialize", "snapshot", "attempt"} /\ r.identity # Absent =>
                    s.id <= r.identity[1].began
              /\ s.pc = "attempt" /\ method # "sft" =>
                    r.identity = Absent /\ r.training = TRUE
    /\ \A p, q \in Processes :
          p # q /\ method # "sft" /\ proc[p].pc = "attempt" /\ proc[q].pc = "attempt" =>
             proc[p].run # proc[q].run

Attempting == {"initialize", "snapshot", "attempt"}

\* A step of p that no attempt depends on.
Passive(p) ==
    /\ UNCHANGED <<method, begun>>
    /\ \A q \in Processes \ {p} : proc'[q] = proc[q]
    /\ proc'[p].pc = "idle" \/ (proc'[p].pc \notin Attempting /\ proc'[p].id = proc[p].id)
    /\ \A n \in Numbers :
          /\ runs'[n].identity = runs[n].identity
          /\ runs[n].training = TRUE => runs'[n].training = TRUE
          /\ runs[n].inputs # 0 => runs'[n].inputs # 0

AttemptKept ==
    \A n \in Numbers :
        runs[n].identity # Absent /\ runs'[n].identity # runs[n].identity =>
            method = "sft" /\ runs'[n].identity[1].by <= runs[n].identity[1].began

\* Such a step leaves every attempt.
LEMMA PassiveInv ==
    ASSUME IInv, AttemptInv, NEW p \in Processes, Passive(p), proc[p].pc # "idle"
    PROVE  AttemptInv' /\ AttemptKept
<1>1. AttemptKept
  BY DEF AttemptKept, Passive
<1>2. Numbers' = Numbers /\ begun \in Nat
  BY NumberFacts DEF Passive, Numbers
<1>3. \A q \in Processes : proc[q].pc \in Attempting => proc[q].run \in Numbers
  BY DEF IInv, Placed, Attempting
<1>4. \A n \in Numbers' :
         runs'[n].identity # Absent => runs'[n].training = TRUE /\ runs'[n].inputs # 0
  BY <1>2 DEF AttemptInv, Passive
<1>5. \A q \in Processes : proc'[q].pc \in Attempting => proc'[q] = proc[q]
  BY DEF Passive, Attempting
<1>6. \A q \in Processes : proc'[q].pc # "idle" => proc'[q].id \in 0 .. begun'
  BY DEF Passive, AttemptInv
<1>7. ASSUME NEW q \in Processes, proc'[q].pc \in Attempting
      PROVE  LET s == proc'[q]
                 r == runs'[s.run]
             IN  /\ s.pc \in {"initialize", "snapshot"} => method' = "sft"
                 /\ r.identity # Absent => s.id <= r.identity[1].began
                 /\ s.pc = "attempt" /\ method' # "sft" => r.identity = Absent /\ r.training = TRUE
  BY <1>3, <1>5, <1>7 DEF Passive, AttemptInv, Attempting
<1>8. \A q, t \in Processes :
         q # t /\ method' # "sft" /\ proc'[q].pc = "attempt" /\ proc'[t].pc = "attempt" =>
            proc'[q].run # proc'[t].run
  BY <1>5 DEF Passive, AttemptInv, Attempting
<1>9. AttemptInv'
  BY <1>4, <1>6, <1>7, <1>8 DEF AttemptInv, Attempting
<1> QED  BY <1>1, <1>9

\* Writing another field leaves the identity, the training and the inputs of a run.
LEMMA WritePassive ==
    ASSUME IInv, NEW p \in Processes, NEW v, proc[p].run \in Numbers,
           NEW field \in DOMAIN NoRun \ {"identity", "training", "inputs"},
           Write(p, field, v)
    PROVE  \A n \in Numbers :
              /\ runs'[n].identity = runs[n].identity
              /\ runs'[n].training = runs[n].training
              /\ runs'[n].inputs = runs[n].inputs
<1>1. PICK r : r = runs[proc[p].run]
  OBVIOUS
<1>2. PICK new : new = [r EXCEPT ![field] = v]
  OBVIOUS
<1>3. r = [f \in DOMAIN NoRun |-> r[f]]
  BY <1>1 DEF IInv, Shapes
<1>4. new.identity = r.identity /\ new.training = r.training /\ new.inputs = r.inputs
  BY <1>2, <1>3 DEF NoRun
<1>5. \A n \in Numbers : runs'[n] = IF n = proc[p].run THEN new ELSE runs[n]
  BY <1>1, <1>2 DEF IInv, Shapes, Write
<1> QED  BY <1>1, <1>4, <1>5

\* The steps after which an attempt is nearer.
Attempts(p) ==
    Train(p) \/ VerifyAdapter(p) \/ CopyAdapter(p) \/ ClaimTraining(p) \/ RecordAttempt(p)

\* No other step of an invocation writes an identity, or removes a training or inputs.
LEMMA PassiveRuns ==
    ASSUME IInv, NEW p \in Processes, Step(p), ~Attempts(p)
    PROVE  \A n \in Numbers :
              /\ runs'[n].identity = runs[n].identity
              /\ runs'[n].training = runs[n].training
              /\ runs[n].inputs # 0 => runs'[n].inputs # 0
<1>1. proc[p].pc \notin {"list", "make"} /\ proc[p].pc # "idle" => proc[p].run \in Numbers
  BY DEF IInv, Placed
<1> USE DEF At
<1>2. CASE UNCHANGED runs
  BY <1>2
<1>3. CASE Identify(p) \/ RecordPreparation(p) \/ Render(p) \/ Pack(p) \/ ReportPreparation(p)
  BY <1>1, <1>2, <1>3, WritePassive
     DEF Identify, RecordPreparation, Render, Pack, ReportPreparation, NoRun
<1>4. CASE \/ WriteConfig(p) \/ SaveCheckpoint(p) \/ LaunchEnds(p) \/ FinishTraining(p)
           \/ FinishRl(p) \/ Export(p)
  BY <1>1, <1>2, <1>4, WritePassive
     DEF WriteConfig, SaveCheckpoint, LaunchEnds, FinishTraining, FinishRl, Export, NoRun
<1>5. CASE MakeSlot(p) \/ Calibrate(p)
  BY <1>1, <1>5, WritePassive DEF MakeSlot, Calibrate, NoRun
<1>6. CASE MakeRun(p)
  <2>1. CASE runs' = [runs EXCEPT ![proc[p].target].exists = TRUE]
    <3>1. PICK new : new = [runs[proc[p].target] EXCEPT !.exists = TRUE]
      OBVIOUS
    <3>2. \A n \in Numbers : runs'[n] = IF n = proc[p].target THEN new ELSE runs[n]
      BY <2>1, <3>1 DEF IInv, Shapes
    <3>3. ASSUME proc[p].target \in Numbers
          PROVE  LET r == runs[proc[p].target]
                 IN  new.identity = r.identity /\ new.training = r.training
                     /\ new.inputs = r.inputs
      <4>1. PICK r : r = runs[proc[p].target]
        OBVIOUS
      <4>2. r = [f \in DOMAIN NoRun |-> r[f]]
        BY <3>3, <4>1 DEF IInv, Shapes
      <4> QED  BY <3>1, <4>1, <4>2 DEF NoRun
    <3> QED  BY <3>2, <3>3
  <2> QED  BY <1>2, <1>6, <2>1 DEF MakeRun
<1>7. CASE CopyInputs(p)
  <2>1. PICK s, r : Found(p, "copy", s, r)
    BY <1>7, Finds DEF CopyInputs
  <2>2. PICK new : new = [r EXCEPT !.inputs = s.inputs]
    OBVIOUS
  <2>3. \A n \in Numbers : runs'[n] = IF n = s.run THEN new ELSE runs[n]
    BY <1>7, <2>1, <2>2 DEF CopyInputs, Found, State, Write, IInv, Shapes
  <2>4. new.identity = r.identity /\ new.training = r.training /\ r.inputs = 0
    BY <2>1, <2>2 DEF Found, Shaped, NoRun, Placed, Numbers, New
  <2> QED  BY <2>1, <2>3, <2>4 DEF Found, State
<1> HIDE DEF At
<1>8. CASE \/ ListRuns(p) \/ Prepare(p) \/ Reuse(p) \/ TrainRl(p) \/ StartTrainer(p)
           \/ TrainerEnds(p) \/ Evaluate(p) \/ Select(p) \/ SelectRl(p) \/ ListSlots(p)
           \/ Measure(p)
  BY <1>2, <1>8 DEF ListRuns, Prepare, Reuse, TrainRl, StartTrainer, TrainerEnds, Evaluate,
     Select, SelectRl, CheckpointModel, ListSlots, Measure
<1> QED  BY <1>3, <1>4, <1>5, <1>6, <1>7, <1>8 DEF Step, Attempts

\* Nor does it bring its process to one of the steps before an attempt.
LEMMA PassiveMoves ==
    ASSUME IInv, NEW p \in Processes, Step(p), ~Attempts(p)
    PROVE  /\ UNCHANGED <<outside, begun>>
           /\ proc[p].pc # "idle"
           /\ \A q \in Processes \ {p} : proc'[q] = proc[q]
           /\ proc'[p].pc = "idle" \/ (proc'[p].pc \notin Attempting /\ proc'[p].id = proc[p].id)
<1>1. PICK s : s = proc[p]
  OBVIOUS
<1>2. s = [f \in DOMAIN Idle |-> s[f]] /\ DOMAIN proc = Processes
  BY <1>1 DEF IInv, Base, Shapes
<1>3. ASSUME NEW pc, pc \notin Attempting, Goto(p, pc) \/ End(p)
      PROVE  /\ \A q \in Processes \ {p} : proc'[q] = proc[q]
             /\ proc'[p].pc = "idle" \/ (proc'[p].pc \notin Attempting /\ proc'[p].id = proc[p].id)
  <2>1. CASE End(p)
    BY <1>2, <2>1 DEF End, Idle
  <2>2. CASE Goto(p, pc)
    <3>1. proc' = [proc EXCEPT ![p] = [s EXCEPT !.pc = pc]]
      BY <1>1, <1>2, <2>2 DEF Goto
    <3>2. [s EXCEPT !.pc = pc].pc = pc /\ [s EXCEPT !.pc = pc].id = s.id
      BY <1>2 DEF Idle
    <3> QED  BY <1>1, <1>2, <1>3, <3>1, <3>2
  <2> QED  BY <1>3, <2>1, <2>2 DEF Require
<1>4. ASSUME NEW m, proc' = [proc EXCEPT ![p] = m], m.id = s.id, m.pc \notin Attempting
      PROVE  /\ \A q \in Processes \ {p} : proc'[q] = proc[q]
             /\ proc'[p].pc = "idle" \/ (proc'[p].pc \notin Attempting /\ proc'[p].id = proc[p].id)
  BY <1>1, <1>2, <1>4
<1> USE DEF At
<1>5. CASE \/ RecordPreparation(p) \/ Render(p) \/ ReportPreparation(p) \/ WriteConfig(p)
           \/ FinishTraining(p) \/ FinishRl(p) \/ MakeSlot(p) \/ Measure(p)
  <2>1. \A pc \in {"reuse", "pack", "launch", "slot", "measure"} : pc \notin Attempting
    BY DEF Attempting
  <2> QED
    BY <1>3, <1>5, <2>1 DEF RecordPreparation, Render, ReportPreparation, WriteConfig,
       FinishTraining, FinishRl, MakeSlot, Measure
<1>6. CASE Export(p)
  <2>1. \E pc \in {"finish", "slot"} : Goto(p, pc) \/ End(p)
    BY <1>6 DEF Export, AfterExport, Require
  <2>2. \A pc \in {"finish", "slot"} : pc \notin Attempting
    BY DEF Attempting
  <2> QED  BY <1>3, <1>6, <2>1, <2>2 DEF Export
<1>7. CASE CopyInputs(p)
  <2>1. Command(p).stage \in {"prepare", "train", "evaluate", "calibrate"}
    BY <1>7 DEF CopyInputs, IInv, Placed, Command
  <2> QED  BY <1>3, <1>7, <2>1 DEF CopyInputs, Attempting
<1>8. CASE ListRuns(p)
  <2> DEFINE m == [s EXCEPT !.pc = "make", !.target = NextNumber(Existing)]
  <2>1. m.id = s.id /\ m.pc = "make" /\ proc' = [proc EXCEPT ![p] = m]
    BY <1>1, <1>2, <1>8 DEF ListRuns, Idle
  <2> QED  BY <1>4, <1>8, <2>1 DEF ListRuns, Attempting
<1>9. CASE MakeRun(p)
  <2> DEFINE m == [s EXCEPT !.pc = "copy", !.run = s.target]
  <2>1. m.id = s.id /\ m.pc = "copy" /\ (proc' = [proc EXCEPT ![p] = m] \/ Goto(p, "list"))
    BY <1>1, <1>2, <1>9 DEF MakeRun, Idle
  <2>2. "list" \notin Attempting /\ "copy" \notin Attempting
    BY DEF Attempting
  <2> HIDE DEF m
  <2> QED  BY <1>3, <1>4, <1>9, <2>1, <2>2 DEF MakeRun
<1>10. CASE Identify(p)
  <2> DEFINE m == [s EXCEPT !.world = world, !.pc = "claimed"]
             k == [s EXCEPT !.world = world, !.pc = "reuse"]
  <2>1. /\ m.id = s.id /\ m.pc = "claimed" /\ k.id = s.id /\ k.pc = "reuse"
        /\ (proc' = [proc EXCEPT ![p] = m] \/ proc' = [proc EXCEPT ![p] = k] \/ End(p))
    BY <1>1, <1>2, <1>10 DEF Identify, Idle
  <2>2. "claimed" \notin Attempting /\ "reuse" \notin Attempting
    BY DEF Attempting
  <2> HIDE DEF m, k
  <2> QED  BY <1>3, <1>4, <1>10, <2>1, <2>2 DEF Identify
<1>11. CASE Reuse(p)
  <2> DEFINE m == [s EXCEPT !.pc = "render", !.at = 1]
  <2>1. m.id = s.id /\ m.pc = "render" /\ (proc' = [proc EXCEPT ![p] = m] \/ End(p))
    BY <1>1, <1>2, <1>11 DEF Reuse, Idle
  <2> QED  BY <1>3, <1>4, <1>11, <2>1 DEF Reuse, Attempting
<1>12. CASE Pack(p)
  <2> DEFINE m == [s EXCEPT !.pc = "render", !.at = @ + 1]
  <2>1. m.id = s.id /\ m.pc = "render" /\ (proc' = [proc EXCEPT ![p] = m] \/ Goto(p, "report"))
    BY <1>1, <1>2, <1>12 DEF Pack, Idle
  <2>2. "render" \notin Attempting /\ "report" \notin Attempting
    BY DEF Attempting
  <2> HIDE DEF m
  <2> QED  BY <1>3, <1>4, <1>12, <2>1, <2>2 DEF Pack
<1>13. CASE SaveCheckpoint(p)
  <2> DEFINE m == [s EXCEPT !.at = @ + 1]
  <2>1. m.id = s.id /\ m.pc = "trainer" /\ proc' = [proc EXCEPT ![p] = m]
    BY <1>1, <1>2, <1>13 DEF SaveCheckpoint, Idle
  <2> QED  BY <1>4, <1>13, <2>1 DEF SaveCheckpoint, Attempting
<1>14. CASE TrainerEnds(p)
  <2> DEFINE m == [s EXCEPT !.at = Steps, !.pc = "select"]
  <2>1. m.id = s.id /\ m.pc = "select" /\ (proc' = [proc EXCEPT ![p] = m] \/ End(p))
    BY <1>1, <1>2, <1>14 DEF TrainerEnds, End, Idle
  <2> QED  BY <1>3, <1>4, <1>14, <2>1 DEF TrainerEnds, Attempting
<1>15. CASE Evaluate(p)
  <2> DEFINE m == [s EXCEPT !.pc = "select", !.at = Command(p).step]
             k == [s EXCEPT !.pc = "slot"]
  <2>1. /\ m.id = s.id /\ m.pc = "select" /\ k.id = s.id /\ k.pc = "slot"
        /\ (proc' = [proc EXCEPT ![p] = m] \/ proc' = [proc EXCEPT ![p] = k])
    BY <1>1, <1>2, <1>15 DEF Evaluate, Idle
  <2>2. "select" \notin Attempting /\ "slot" \notin Attempting
    BY DEF Attempting
  <2> HIDE DEF m, k
  <2> QED  BY <1>4, <1>15, <2>1, <2>2 DEF Evaluate
<1>16. CASE Select(p) \/ SelectRl(p)
  <2>1. End(p) \/ \E pc \in {"export", "finish", "slot"} :
           proc' = [proc EXCEPT ![p] = [s EXCEPT !.world = world, !.pc = pc]]
    BY <1>1, <1>2, <1>16 DEF Select, SelectRl, CheckpointModel, AfterExport
  <2>2. CASE \E pc \in {"export", "finish", "slot"} :
               proc' = [proc EXCEPT ![p] = [s EXCEPT !.world = world, !.pc = pc]]
    <3>1. PICK pc \in {"export", "finish", "slot"} :
             proc' = [proc EXCEPT ![p] = [s EXCEPT !.world = world, !.pc = pc]]
      BY <2>2
    <3> DEFINE m == [s EXCEPT !.world = world, !.pc = pc]
    <3>2. m.id = s.id /\ m.pc = pc /\ pc \notin Attempting
      BY <1>2, <3>1 DEF Idle, Attempting
    <3>3. proc' = [proc EXCEPT ![p] = m]
      BY <3>1
    <3> HIDE DEF m
    <3> QED  BY <1>4, <1>16, <3>2, <3>3 DEF Select, SelectRl, CheckpointModel
  <2>3. "slot" \notin Attempting
    BY DEF Attempting
  <2> QED  BY <1>3, <1>16, <2>1, <2>2, <2>3 DEF Select, SelectRl, CheckpointModel
<1>17. CASE ListSlots(p)
  <2> DEFINE m == [s EXCEPT !.pc = "open", !.target = NextNumber(Run(p).slots)]
  <2>1. m.id = s.id /\ m.pc = "open" /\ proc' = [proc EXCEPT ![p] = m]
    BY <1>1, <1>2, <1>17 DEF ListSlots, Idle
  <2> QED  BY <1>4, <1>17, <2>1 DEF ListSlots, Attempting
<1>18. CASE Prepare(p) \/ LaunchEnds(p) \/ Calibrate(p) \/ TrainRl(p)
  <2>1. \A pc \in {"identify", "finish", "measure", "claim"} : pc \notin Attempting
    BY DEF Attempting
  <2>2. \E pc \in {"identify", "finish", "measure", "claim"} : Goto(p, pc) \/ End(p)
    BY <1>18 DEF Prepare, LaunchEnds, Calibrate, TrainRl, Require
  <2>3. UNCHANGED <<outside, begun>> /\ proc[p].pc # "idle"
    BY <1>18 DEF Prepare, LaunchEnds, Calibrate, TrainRl
  <2> QED  BY <1>3, <2>1, <2>2, <2>3
<1>19. CASE StartTrainer(p)
  <2> DEFINE m == [s EXCEPT !.pc = "trainer", !.at = 1, !.config = Run(p).config]
  <2>1. m.id = s.id /\ m.pc = "trainer" /\ proc' = [proc EXCEPT ![p] = m]
    BY <1>1, <1>2, <1>19 DEF StartTrainer, Idle
  <2> QED  BY <1>4, <1>19, <2>1 DEF StartTrainer, Attempting
<1> HIDE DEF At
<1> QED
  BY <1>5, <1>6, <1>7, <1>8, <1>9, <1>10, <1>11, <1>12, <1>13, <1>14, <1>15, <1>16, <1>17, <1>18,
     <1>19 DEF Step, Attempts

\* What s, which is nearing an attempt or beginning it, has found in its run r.
Nearing(s, r) ==
    /\ s.pc \in {"initialize", "snapshot"} => method = "sft"
    /\ s.pc \in Attempting /\ r.identity # Absent => s.id <= r.identity[1].began
    /\ s.pc = "attempt" /\ method # "sft" => r.identity = Absent /\ r.training = TRUE

\* A step of p makes n what it is now and p what it is now, and no attempt suffers.
Turns(p, n, r, m) ==
    /\ method' = method /\ begun' \in Nat /\ begun <= begun'
    /\ proc' = [proc EXCEPT ![p] = m] /\ runs' = [runs EXCEPT ![n] = r]
    /\ r.identity # Absent => r.training = TRUE /\ r.inputs # 0
    /\ m.pc # "idle" => m.id \in 0 .. begun'
    /\ m.pc \in Attempting => m.run = n
    /\ Nearing(m, r)
    /\ \A q \in Processes \ {p} : proc[q].pc \in Attempting /\ proc[q].run = n =>
          /\ Nearing(proc[q], r)
          /\ method = "sft" \/ m.pc # "attempt" \/ proc[q].pc # "attempt"
    /\ runs[n].identity # Absent /\ r.identity # runs[n].identity =>
          method = "sft" /\ r.identity[1].by <= runs[n].identity[1].began

\* Such a step keeps what is known of attempts.
LEMMA AttemptTouch ==
    ASSUME IInv, AttemptInv, NEW p \in Processes, NEW n \in Numbers, NEW r, NEW m,
           Turns(p, n, r, m)
    PROVE  AttemptInv' /\ AttemptKept
<1> USE DEF Turns
<1>1. /\ proc'[p] = m /\ (\A q \in Processes \ {p} : proc'[q] = proc[q])
      /\ runs'[n] = r /\ (\A k \in Numbers \ {n} : runs'[k] = runs[k])
      /\ Numbers' = Numbers /\ begun \in Nat
  BY NumberFacts DEF IInv, Base, Numbers
<1>2. AttemptKept
  BY <1>1 DEF AttemptKept
<1>3. \A k \in Numbers :
         runs'[k].identity # Absent => runs'[k].training = TRUE /\ runs'[k].inputs # 0
  BY <1>1 DEF AttemptInv
<1>4. ASSUME NEW q \in Processes, proc'[q].pc # "idle" PROVE proc'[q].id \in 0 .. begun'
  BY <1>1, <1>4 DEF AttemptInv
<1>5. \A q \in Processes : proc[q].pc \in Attempting => proc[q].run \in Numbers
  BY DEF IInv, Placed, Attempting
<1>6. ASSUME NEW q \in Processes, proc'[q].pc \in Attempting
      PROVE  Nearing(proc'[q], runs'[proc'[q].run])
  <2>1. CASE q = p
    BY <1>1, <1>6, <2>1
  <2>2. CASE q # p /\ proc[q].run = n
    BY <1>1, <1>6, <2>2
  <2>3. CASE q # p /\ proc[q].run # n
    <3>1. proc'[q] = proc[q] /\ runs'[proc[q].run] = runs[proc[q].run]
      BY <1>1, <1>5, <1>6, <2>3
    <3> QED  BY <3>1 DEF AttemptInv, Nearing, Attempting
  <2> QED  BY <2>1, <2>2, <2>3
<1>7. ASSUME NEW q \in Processes, NEW t \in Processes, q # t, method # "sft",
             proc'[q].pc = "attempt", proc'[t].pc = "attempt"
      PROVE  proc'[q].run # proc'[t].run
  BY <1>1, <1>7 DEF AttemptInv, Attempting
<1>8. AttemptInv'
  BY <1>1, <1>3, <1>4, <1>6, <1>7 DEF AttemptInv, Nearing, Attempting
<1> QED  BY <1>2, <1>8

\* What is known of those who attempt.
LEMMA Attempters ==
    ASSUME IInv, AttemptInv, NEW q \in Processes, proc[q].pc # "idle"
    PROVE  /\ proc[q].id \in 0 .. begun
           /\ Nearing(proc[q], runs[proc[q].run])
           /\ proc[q].pc \in Attempting => runs[proc[q].run].inputs # 0
           /\ proc[q].run \in Numbers /\ runs[proc[q].run].identity # Absent =>
                    runs[proc[q].run].training = TRUE /\ runs[proc[q].run].inputs # 0
<1>1. proc[q].pc \in Attempting => runs[proc[q].run].inputs \in Versions
  BY DEF IInv, Placed, Attempting, New
<1>2. 0 \notin Versions
  BY DEF Versions
<1> QED  BY <1>1, <1>2 DEF AttemptInv, Nearing, Attempting

\* A training is begun where there is none, and so no identity (sft.train.train).
LEMMA TrainAttempts ==
    ASSUME IInv, AttemptInv, NEW p \in Processes, Train(p) PROVE AttemptInv' /\ AttemptKept
<1>1. PICK s, r : Found(p, "train", s, r)
  BY Finds DEF Train
<1>2. PICK m : /\ proc' = [proc EXCEPT ![p] = m]
               /\ \/ m = Idle
                  \/ \E pc \in {"initialize", "attempt"} : m = [s EXCEPT !.pc = pc] /\ ~r.training
  BY <1>1 DEF Train, Require, End, Goto, Found, State, Run, IInv, Base
<1>3. m = Idle \/ (/\ m.pc \in {"initialize", "attempt"} /\ m.id = s.id /\ m.run = s.run
                  /\ ~r.training)
  BY <1>1, <1>2 DEF Found, Shaped, Idle
<1>4. runs' = [runs EXCEPT ![s.run] = r] /\ begun \in Nat
  BY <1>1, NumberFacts DEF Train, Found, State, IInv, Base, Shapes
<1>5. s.id \in 0 .. begun /\ (r.identity # Absent => r.training = TRUE /\ r.inputs # 0)
  BY <1>1, Attempters DEF Found, State
<1>6. method = "sft" /\ Idle.pc = "idle" /\ Idle.pc \notin Attempting
  BY DEF Train, Idle, Attempting
<1>7. Nearing(m, r)
  BY <1>3, <1>5, <1>6 DEF Nearing
<1>8. \A q \in Processes \ {p} : proc[q].pc \in Attempting /\ proc[q].run = s.run =>
         Nearing(proc[q], r)
  BY <1>1, Attempters DEF Found, State, Attempting
<1>9. UNCHANGED <<method, begun>> /\ r = runs[s.run] /\ s.run \in Numbers
  BY <1>1 DEF Found, State, outside
<1>10. Turns(p, s.run, r, m)
  BY <1>2, <1>3, <1>4, <1>5, <1>6, <1>7, <1>8, <1>9 DEF Turns, Attempting
<1> QED  BY <1>9, <1>10, AttemptTouch

\* The adapter is verified by a process that goes on as it was.
LEMMA VerifyAttempts ==
    ASSUME IInv, AttemptInv, NEW p \in Processes, VerifyAdapter(p) PROVE AttemptInv' /\ AttemptKept
<1>1. PICK s, r : Found(p, "initialize", s, r)
  BY Finds DEF VerifyAdapter
<1>2. PICK m : m = [s EXCEPT !.adapter = adapter, !.pc = "snapshot"]
  OBVIOUS
<1>3. m.pc = "snapshot" /\ m.id = s.id /\ m.run = s.run
  BY <1>1, <1>2 DEF Found, Shaped, Idle
<1>4. /\ proc' = [proc EXCEPT ![p] = m] /\ runs' = [runs EXCEPT ![s.run] = r]
      /\ begun \in Nat
  BY <1>1, <1>2, NumberFacts DEF VerifyAdapter, Found, State, IInv, Base, Shapes
<1>5. /\ s.id \in 0 .. begun /\ Nearing(s, r)
      /\ r.identity # Absent => r.training = TRUE /\ r.inputs # 0
  BY <1>1, Attempters DEF Found, State
<1>6. Nearing(m, r)
  BY <1>1, <1>3, <1>5 DEF Found, Nearing, Attempting
<1>7. \A q \in Processes \ {p} : proc[q].pc \in Attempting /\ proc[q].run = s.run =>
         Nearing(proc[q], r)
  BY <1>1, Attempters DEF Found, State, Attempting
<1>8. UNCHANGED <<method, begun>> /\ r = runs[s.run] /\ s.run \in Numbers
  BY <1>1 DEF Found, State, outside
<1>9. Turns(p, s.run, r, m)
  BY <1>3, <1>4, <1>5, <1>6, <1>7, <1>8 DEF Turns
<1> QED  BY <1>8, <1>9, AttemptTouch

\* The snapshot is no identity (sft.train.initialization_source).
LEMMA CopyAttempts ==
    ASSUME IInv, AttemptInv, NEW p \in Processes, CopyAdapter(p) PROVE AttemptInv' /\ AttemptKept
<1>1. PICK s, r : Found(p, "snapshot", s, r)
  BY Finds DEF CopyAdapter
<1>2. PICK m \in {Idle, [s EXCEPT !.pc = "attempt"]} : proc' = [proc EXCEPT ![p] = m]
  <2>1. End(p) \/ Goto(p, "attempt")
    BY DEF CopyAdapter, Require
  <2>2. s = proc[p]
    BY <1>1 DEF Found, State
  <2> QED  BY <2>1, <2>2 DEF End, Goto, IInv, Base
<1>3. PICK new \in {r, [r EXCEPT !.training = TRUE, !.snapshot = <<adapter>>]} :
         runs' = [runs EXCEPT ![s.run] = new]
  <2>1. s = proc[p] /\ r = runs[s.run] /\ s.run \in Numbers
    BY <1>1 DEF Found, State
  <2>2. CASE UNCHANGED runs
    <3>1. runs' = [runs EXCEPT ![s.run] = r]
      BY <2>1, <2>2 DEF IInv, Shapes
    <3> QED  BY <3>1
  <2>3. CASE runs' = [runs EXCEPT ![s.run].training = TRUE, ![s.run].snapshot = <<adapter>>]
    <3>1. runs' = [runs EXCEPT ![s.run] = [r EXCEPT !.training = TRUE, !.snapshot = <<adapter>>]]
      BY <2>1, <2>3 DEF IInv, Base
    <3> QED  BY <3>1
  <2> QED  BY <2>1, <2>2, <2>3 DEF CopyAdapter
<1>4. m = Idle \/ (m.pc = "attempt" /\ m.id = s.id /\ m.run = s.run)
  BY <1>1, <1>2 DEF Found, Shaped, Idle
<1>5. /\ new.identity = r.identity /\ new.inputs = r.inputs
      /\ r.training = TRUE => new.training = TRUE
  BY <1>1, <1>3 DEF Found, Shaped, NoRun
<1>6. /\ s.id \in 0 .. begun /\ Nearing(s, r)
      /\ r.identity # Absent => r.training = TRUE /\ r.inputs # 0
  BY <1>1, Attempters DEF Found, State
<1>7. method = "sft"
  BY <1>1, <1>6 DEF Found, Nearing
<1>8. Idle.pc = "idle" /\ Idle.pc \notin Attempting
  BY DEF Idle, Attempting
<1>9. Nearing(m, new)
  BY <1>1, <1>4, <1>5, <1>6, <1>7, <1>8 DEF Found, Nearing, Attempting
<1>10. \A q \in Processes \ {p} : proc[q].pc \in Attempting /\ proc[q].run = s.run =>
          Nearing(proc[q], new)
  <2>1. \A q \in Processes \ {p} : proc[q].pc \in Attempting /\ proc[q].run = s.run =>
           Nearing(proc[q], r)
    BY <1>1, Attempters DEF Found, State, Attempting
  <2> QED  BY <1>5, <1>7, <2>1 DEF Nearing
<1>11. UNCHANGED <<method, begun>> /\ r = runs[s.run] /\ s.run \in Numbers /\ begun \in Nat
  BY <1>1, NumberFacts DEF Found, State, outside
<1>12. Turns(p, s.run, new, m)
  BY <1>2, <1>3, <1>4, <1>5, <1>6, <1>7, <1>8, <1>9, <1>10, <1>11 DEF Turns
<1> QED  BY <1>11, <1>12, AttemptTouch

\* RL: whoever makes the directory of the training is alone (rl.train.train).
LEMMA ClaimAttempts ==
    ASSUME IInv, AttemptInv, NEW p \in Processes, ClaimTraining(p) PROVE AttemptInv' /\ AttemptKept
<1>1. PICK s, r : Found(p, "claim", s, r)
  BY Finds DEF ClaimTraining
<1>2. s.id \in 0 .. begun /\ (r.identity # Absent => r.training = TRUE /\ r.inputs # 0)
  BY <1>1, Attempters DEF Found, State
<1>3. UNCHANGED <<method, begun>> /\ r = runs[s.run] /\ s.run \in Numbers /\ begun \in Nat
  BY <1>1, NumberFacts DEF Found, State, outside
<1>4. Idle.pc = "idle" /\ Idle.pc \notin Attempting
  BY DEF Idle, Attempting
<1>5. \A q \in Processes \ {p} : proc[q].pc \in Attempting /\ proc[q].run = s.run =>
         Nearing(proc[q], r)
  BY <1>1, Attempters DEF Found, State, Attempting
<1>6. CASE r.training
  <2>1. proc' = [proc EXCEPT ![p] = Idle] /\ runs' = [runs EXCEPT ![s.run] = r]
    BY <1>1, <1>6 DEF ClaimTraining, Require, End, Found, State, Run, IInv, Base, Shapes
  <2>2. Turns(p, s.run, r, Idle)
    BY <1>2, <1>3, <1>4, <1>5, <2>1 DEF Turns, Nearing
  <2> QED  BY <1>3, <2>2, AttemptTouch
<1>7. CASE ~r.training
  <2>1. PICK m : m = [s EXCEPT !.pc = "attempt"]
    OBVIOUS
  <2>2. PICK new : new = [r EXCEPT !.training = TRUE]
    OBVIOUS
  <2>3. m.pc = "attempt" /\ m.id = s.id /\ m.run = s.run
    BY <1>1, <2>1 DEF Found, Shaped, Idle
  <2>4. new.training = TRUE /\ new.identity = r.identity /\ r.identity = Absent
    BY <1>1, <1>2, <1>7, <2>2 DEF Found, Shaped, NoRun
  <2>5. proc' = [proc EXCEPT ![p] = m] /\ runs' = [runs EXCEPT ![s.run] = new]
    BY <1>1, <1>7, <2>1, <2>2 DEF ClaimTraining, Require, Goto, Write, Found, State, Run, IInv, Base
  <2>6. Nearing(m, new)
    BY <2>3, <2>4 DEF Nearing
  <2>7. \A q \in Processes \ {p} : proc[q].pc \in Attempting /\ proc[q].run = s.run =>
           Nearing(proc[q], new) /\ (method = "sft" \/ proc[q].pc # "attempt")
    BY <1>5, <1>7, <2>4 DEF Nearing
  <2>8. Turns(p, s.run, new, m)
    BY <1>2, <1>3, <2>3, <2>4, <2>5, <2>6, <2>7 DEF Turns
  <2> QED  BY <1>3, <2>8, AttemptTouch
<1> QED  BY <1>6, <1>7

\* What is recorded from the state s, in the run r: the identity i of the attempt a.
Recorded(s, r, i, a) ==
    LET c == s.command[1]
    IN  /\ a.by = s.id /\ a.config = [initial |-> c.adapter, source |-> c.source]
        /\ i.by = s.id /\ i.inputs = s.inputs /\ i.report = r.report /\ i.base = world
        /\ i.source = c.source /\ i.initial = (IF c.adapter THEN s.adapter ELSE 0)
        /\ i.config = a.config /\ i.began = begun

\* The run r becomes new by it.
RecordedIn(r, new, i, a) ==
    /\ new.training = TRUE /\ new.identity = <<i>> /\ new.attempts = r.attempts \cup {a}
    /\ new.inputs = r.inputs /\ new.packed = r.packed /\ new.report = r.report
    /\ new.snapshot = r.snapshot /\ new.config = r.config
    /\ new.checkpoints = r.checkpoints /\ new.adapters = r.adapters
    /\ new.outcome = r.outcome

\* So an attempt is recorded (sft.train.train, rl.train.train).
LEMMA Records ==
    ASSUME IInv, NEW p \in Processes, RecordAttempt(p), NEW s, NEW r, Found(p, "attempt", s, r)
    PROVE  \E i, a, new : /\ Recorded(s, r, i, a) /\ RecordedIn(r, new, i, a)
                          /\ runs' = [runs EXCEPT ![s.run] = new]
<1>1. s = proc[p] /\ r = runs[s.run] /\ s.run \in Numbers /\ DOMAIN runs = Numbers
  BY DEF Found, State, IInv, Base
<1> DEFINE a == [by |-> s.id, config |-> Configuration(p)]
           i == [by |-> s.id, inputs |-> s.inputs, report |-> r.report,
                 base |-> world, source |-> s.command[1].source,
                 initial |-> IF s.command[1].adapter THEN s.adapter ELSE 0,
                 config |-> Configuration(p), began |-> begun]
           new == [r EXCEPT !.training = TRUE, !.identity = <<i>>, !.attempts = @ \cup {a}]
<1>2. Recorded(s, r, i, a)
  BY <1>1 DEF Recorded, Configuration, Command
<1>3. runs' = [runs EXCEPT ![s.run].training = TRUE, ![s.run].identity = <<i>>,
                           ![s.run].attempts = @ \cup {a}]
  BY <1>1 DEF RecordAttempt, Run, Command
<1> HIDE DEF a, i
<1>4. runs' = [runs EXCEPT ![s.run] = new]
  BY <1>1, <1>3
<1>5. RecordedIn(r, new, i, a)
  BY DEF RecordedIn, Found, Shaped, NoRun
<1> QED  BY <1>2, <1>4, <1>5

\* An identity is written over another only by SFT, and only over that of an attempt
\* that has been recorded since this one was invoked.
LEMMA RecordAttempts ==
    ASSUME IInv, AttemptInv, NEW p \in Processes, RecordAttempt(p) PROVE AttemptInv' /\ AttemptKept
<1>1. PICK s, r : Found(p, "attempt", s, r)
  BY Finds DEF RecordAttempt
<1>2. PICK i, a, new : /\ Recorded(s, r, i, a) /\ RecordedIn(r, new, i, a)
                       /\ runs' = [runs EXCEPT ![s.run] = new]
  BY <1>1, Records
<1>3. runs' = [runs EXCEPT ![s.run] = new]
  BY <1>2
<1>4. new.training = TRUE /\ new.identity = <<i>> /\ new.inputs = r.inputs
  BY <1>2 DEF RecordedIn
<1>5. i.by = s.id /\ i.began = begun
  BY <1>2 DEF Recorded
<1>6. PICK m : m = [s EXCEPT !.pc = "configure"]
  OBVIOUS
<1>7. m.pc = "configure" /\ m.id = s.id
  BY <1>1, <1>6 DEF Found, Shaped, Idle
<1>8. proc' = [proc EXCEPT ![p] = m]
  BY <1>1, <1>6 DEF RecordAttempt, Goto, Found, State, IInv, Base
<1>9. UNCHANGED <<method, begun>> /\ r = runs[s.run] /\ s.run \in Numbers /\ begun \in Nat
  BY <1>1, NumberFacts DEF Found, State, outside
<1>10. s.id \in 0 .. begun /\ Nearing(s, r) /\ r.inputs # 0
  BY <1>1, Attempters DEF Found, State, Attempting
<1>11. Nearing(m, new) /\ m.pc \notin Attempting
  BY <1>7 DEF Nearing, Attempting
<1>12. ASSUME NEW q \in Processes \ {p}, proc[q].pc \in Attempting, proc[q].run = s.run
       PROVE  Nearing(proc[q], new)
  <2>1. proc[q].id \in 0 .. begun /\ Nearing(proc[q], r)
    BY <1>9, <1>12, Attempters DEF Attempting
  <2>2. method = "sft" \/ proc[q].pc # "attempt"
    BY <1>1, <1>12 DEF AttemptInv, Found, State
  <2>3. new.identity[1].began = begun
    BY <1>4, <1>5
  <2> QED  BY <1>9, <2>1, <2>2, <2>3 DEF Nearing
<1>13. r.identity # Absent => method = "sft" /\ new.identity[1].by <= r.identity[1].began
  <2>1. new.identity[1].by = s.id
    BY <1>4, <1>5
  <2> QED  BY <1>1, <1>10, <2>1 DEF Found, Nearing, Attempting
<1>14. Turns(p, s.run, new, m)
  BY <1>3, <1>4, <1>7, <1>8, <1>9, <1>10, <1>11, <1>12, <1>13 DEF Turns
<1> QED  BY <1>9, <1>14, AttemptTouch

\* A new invocation has a new number and is not before an attempt yet.
LEMMA InvokeAttempts ==
    ASSUME IInv, AttemptInv, NEW p \in Processes, Invoke(p) PROVE AttemptInv' /\ AttemptKept
<1>1. PICK c \in Commands :
         /\ ValidStage(c)
         /\ proc' = [proc EXCEPT ![p] =
               [Idle EXCEPT !.pc = IF c.run = New THEN "list" ELSE c.stage,
                            !.id = begun + 1, !.command = <<c>>, !.run = c.run,
                            !.inputs = current]]
  BY DEF Invoke
<1>2. PICK m : m = [Idle EXCEPT !.pc = IF c.run = New THEN "list" ELSE c.stage,
                                !.id = begun + 1, !.command = <<c>>, !.run = c.run,
                                !.inputs = current]
  OBVIOUS
<1>3. c.stage \in {"prepare", "train", "evaluate", "calibrate"}
  <2>1. method \in {"sft", "rl", "eval", "calibrate"}
    BY ExperimentAssumption DEF IInv, Base
  <2>2. ToSet(METHOD_STAGES[method]) \subseteq {"prepare", "train", "evaluate", "calibrate"}
    BY <2>1 DEF METHOD_STAGES, ToSet
  <2> QED  BY <1>1, <2>2 DEF ValidStage
<1>4. m.pc \notin Attempting /\ m.id = begun + 1
  BY <1>2, <1>3 DEF Idle, Attempting
<1>5. /\ proc' = [proc EXCEPT ![p] = m] /\ runs' = [runs EXCEPT ![0] = runs[0]]
      /\ 0 \in Numbers /\ begun \in Nat /\ begun' = begun + 1 /\ method' = method
  BY <1>1, <1>2, NumberFacts DEF Invoke, outside, IInv, Shapes
<1>6. Nearing(m, runs[0])
  BY <1>4 DEF Nearing, Attempting
<1>7. \A q \in Processes \ {p} : proc[q].pc \in Attempting => Nearing(proc[q], runs[proc[q].run])
  BY Attempters DEF Attempting
<1>8. runs[0].identity # Absent => runs[0].training = TRUE /\ runs[0].inputs # 0
  BY <1>5 DEF AttemptInv
<1>9. m.pc # "attempt"
  BY <1>4 DEF Attempting
<1>10. Turns(p, 0, runs[0], m)
  BY <1>4, <1>5, <1>6, <1>7, <1>8, <1>9 DEF Turns
<1> QED  BY <1>5, <1>10, AttemptTouch

\* An invocation that ends leaves the identities; the run that is removed has none.
LEMMA FailAttempts ==
    ASSUME IInv, AttemptInv, NEW p \in Processes, Fail(p) \/ Kill(p)
    PROVE  AttemptInv' /\ AttemptKept
<1>1. /\ proc[p].pc # "idle" /\ proc' = [proc EXCEPT ![p] = Idle]
      /\ UNCHANGED <<method, begun>>
  BY DEF Fail, Kill, End, outside
<1>2. Idle.pc = "idle" /\ Idle.pc \notin Attempting
  BY DEF Idle, Attempting
<1>3. CASE UNCHANGED runs
  <2>1. Passive(p)
    BY <1>1, <1>2, <1>3 DEF Passive, IInv, Base
  <2> QED  BY <1>1, <2>1, PassiveInv
<1>4. CASE ~UNCHANGED runs
  <2>1. proc[p].pc = "copy" /\ Fail(p) /\ runs' = [runs EXCEPT ![proc[p].run] = NoRun]
    BY <1>4 DEF Fail, Kill
  <2>2. PICK s, r : Found(p, "copy", s, r)
    BY <2>1, Finds DEF Fail, At
  <2>3. /\ s = proc[p] /\ r = runs[s.run] /\ s.run \in Numbers /\ r.inputs = 0
    BY <2>2 DEF Found, State, Placed, Numbers, New
  <2>4. r.identity = Absent /\ NoRun.identity = Absent
    BY <2>3 DEF AttemptInv, NoRun
  <2>5. \A q \in Processes \ {p} : proc[q].pc \in Attempting => proc[q].run # s.run
    BY <2>3, Attempters DEF Attempting
  <2>6. Nearing(Idle, NoRun)
    BY <1>2 DEF Nearing
  <2>7. begun \in Nat
    BY NumberFacts
  <2>8. Turns(p, s.run, NoRun, Idle)
    BY <1>1, <1>2, <2>1, <2>3, <2>4, <2>5, <2>6, <2>7 DEF Turns
  <2> QED  BY <2>3, <2>8, AttemptTouch
<1> QED  BY <1>3, <1>4

\* What no process does, and the rows that are edited, are no part of an attempt.
LEMMA OutsideAttempts ==
    ASSUME IInv, AttemptInv, EditInputs \/ Upgrade \/ EditAdapter \/ EditRows \/ UNCHANGED vars
    PROVE  AttemptInv' /\ AttemptKept
<1>1. UNCHANGED <<method, begun, proc>>
  BY DEF EditInputs, Upgrade, EditAdapter, EditRows, vars, outside
<1>2. \A n \in Numbers :
         /\ runs'[n].identity = runs[n].identity
         /\ runs'[n].training = runs[n].training
         /\ runs'[n].inputs = runs[n].inputs
  <2>1. CASE UNCHANGED runs
    BY <2>1
  <2>2. CASE EditRows
    <3>1. PICK k \in Numbers, t \in ToSet(Splits) : runs' = [runs EXCEPT ![k].packed[t] = Edited]
      BY <2>2 DEF EditRows
    <3>2. PICK r : r = runs[k]
      OBVIOUS
    <3>3. PICK new : new = [r EXCEPT !.packed = [r.packed EXCEPT ![t] = Edited]]
      OBVIOUS
    <3>4. r = [f \in DOMAIN NoRun |-> r[f]]
      BY <3>2 DEF IInv, Shapes
    <3>5. new.identity = r.identity /\ new.training = r.training /\ new.inputs = r.inputs
      BY <3>3, <3>4 DEF NoRun
    <3>6. \A n \in Numbers : runs'[n] = IF n = k THEN new ELSE runs[n]
      BY <3>1, <3>2, <3>3, <3>4 DEF IInv, Base, NoRun
    <3> QED  BY <3>2, <3>5, <3>6
  <2> QED  BY <2>1, <2>2 DEF EditInputs, Upgrade, EditAdapter, vars
<1>3. \A q \in Processes : proc[q].pc \in Attempting => proc[q].run \in Numbers
  BY DEF IInv, Placed, Attempting
<1>4. Numbers' = Numbers
  BY <1>1 DEF Numbers
<1>5. AttemptInv'
  <2>1. \A q \in Processes : proc[q].pc \in Attempting =>
           /\ runs'[proc[q].run].identity = runs[proc[q].run].identity
           /\ runs'[proc[q].run].training = runs[proc[q].run].training
    BY <1>2, <1>3
  <2> QED  BY <1>1, <1>2, <1>4, <2>1 DEF AttemptInv, Attempting
<1> QED  BY <1>2, <1>5 DEF AttemptKept

\* Every step keeps what is known of attempts, and the attempts.
LEMMA NextAttempts ==
    ASSUME IInv, AttemptInv, [Next]_vars PROVE AttemptInv' /\ AttemptKept
<1>1. ASSUME NEW p \in Processes, Step(p) PROVE AttemptInv' /\ AttemptKept
  <2>1. CASE Attempts(p)
    BY <2>1, TrainAttempts, VerifyAttempts, CopyAttempts, ClaimAttempts, RecordAttempts DEF Attempts
  <2>2. CASE ~Attempts(p)
    <3>1. Passive(p) /\ proc[p].pc # "idle"
      BY <1>1, <2>2, PassiveMoves, PassiveRuns DEF Passive, outside
    <3> QED  BY <3>1, PassiveInv
  <2> QED  BY <2>1, <2>2
<1> QED  BY <1>1, InvokeAttempts, FailAttempts, OutsideAttempts DEF Next

\* The training of an earlier invocation is a whole one.
LEMMA InitAttempts == Init => AttemptInv
<1> SUFFICES ASSUME Init PROVE AttemptInv
  OBVIOUS
<1>1. PICK past \in {NoRun} \cup Past[method] :
         runs = [n \in Numbers |-> IF n = 0 THEN past ELSE NoRun]
  BY DEF Init
<1>2. method \in {"sft", "rl", "eval", "calibrate"}
  BY ExperimentAssumption DEF Init
<1>3. past \in {NoRun, PreparedRun, TrainedRun, TrainedByRl}
  BY <1>1, <1>2 DEF Past
<1>4. NoRun.identity = Absent /\ PreparedRun.identity = Absent
  BY DEF PreparedRun, NoRun
<1>5. TrainedRun.training = TRUE /\ TrainedRun.inputs = 1
  BY DEF TrainedRun, PreparedRun, NoRun
<1>6. TrainedByRl.training = TRUE /\ TrainedByRl.inputs = 1
  BY <1>5 DEF TrainedByRl, TrainedRun, PreparedRun, NoRun
<1>7. \A n \in Numbers : runs[n].identity # Absent => runs[n].training = TRUE /\ runs[n].inputs # 0
  BY <1>1, <1>3, <1>4, <1>5, <1>6
<1>8. \A p \in Processes : proc[p].pc = "idle"
  BY DEF Init, Idle
<1> QED  BY <1>7, <1>8 DEF AttemptInv

(* A training attempt is never replaced by a later one, however it ended;  *)
(* of RL not even by one that began beside it (sft.train.train,            *)
(* rl.train.train).                                                        *)
THEOREM AttemptsStand == Spec => AttemptStands
<1>1. Init => IInv /\ AttemptInv
  BY InitInv, InitAttempts
<1>2. IInv /\ AttemptInv /\ [Next]_vars => (IInv /\ AttemptInv)'
  BY NextInv, NextAttempts
<1>3. IInv /\ AttemptInv /\ [Next]_vars =>
         [\A n \in Numbers :
             runs[n].identity # Absent /\ runs'[n].identity # runs[n].identity =>
                 /\ method = "sft"
                 /\ runs'[n].identity[1].by <= runs[n].identity[1].began]_vars
  BY NextAttempts DEF AttemptKept
<1> QED  BY <1>1, <1>2, <1>3, PTL DEF Spec, AttemptStands

-----------------------------------------------------------------------------
(* Provenance.                                                             *)

\* Who has saved no checkpoint yet, and may.
Unsaved == {"list", "make", "copy", "train", "claim", "initialize", "snapshot", "attempt",
            "configure", "launch"}

\* Who trains, or has found that nobody has trained in the run.
Training == {"claim", "initialize", "snapshot", "attempt", "configure", "launch", "trainer"}

\* The arguments of an invocation (validate_stage).
Asked(c) ==
    /\ c.adapter => method = "sft"
    /\ c.source # Absent => method = "sft"
    /\ c.step # 0 => c.stage = "evaluate"

\* A checkpoint, and the identity i of the attempt whose directory it is in.
Fits(c, i, b) ==
    /\ c.by \in 0 .. b
    /\ c.base = i.base
    /\ method = "sft" => c.rows = i.report[1]

\* The adapter that a trainer starts from by a configuration, and a checkpoint of a trainer
\* that has read it.
InitialOf(config, snapshot) == IF config.initial THEN snapshot[1] ELSE 0
Uses(c, config, snapshot) ==
    c.initial = InitialOf(config, snapshot) /\ c.source = config.source

\* The configuration in r is no longer that of the attempt a, or is that of another attempt
\* with the same settings.
Overtaken(r, a) ==
    /\ \E b \in r.attempts : b.config # a.config
    /\ r.config = <<a.config>> => \E b \in r.attempts : b.by # a.by /\ b.config = a.config

\* The identity is that of an attempt and says what its settings mean, the configuration is
\* that of an attempt, and a checkpoint is as the settings of its attempt say, or that has
\* been overtaken.
Configured(r) ==
    /\ r.identity # Absent =>
          LET i == r.identity[1]
          IN  /\ \E a \in r.attempts : a.by = i.by /\ a.config = i.config
              /\ i.initial = InitialOf(i.config, r.snapshot) /\ i.source = i.config.source
    /\ r.config # Absent => \E a \in r.attempts : r.config = <<a.config>>
    /\ \A a \in r.attempts : a.config.initial => r.snapshot # Absent
    /\ \A k \in 1 .. Steps : r.checkpoints[k] # Absent =>
          \A a \in r.attempts : a.by = r.checkpoints[k][1].by =>
             Uses(r.checkpoints[k][1], a.config, r.snapshot) \/ Overtaken(r, a)

\* A run, whoever trains in it, after b invocations.
RunTrained(r, b) ==
    /\ r.packed = [t \in {"training", "validation"} |-> r.packed[t]]
    /\ DOMAIN r.checkpoints = 1 .. Steps /\ DOMAIN r.adapters = 1 .. Steps
    /\ r.outcome = "complete" => r.inputs # 0 /\ r.checkpoints[Steps] # Absent
    /\ \A k \in 1 .. Steps : r.checkpoints[k] # Absent =>
          r.identity # Absent /\ Fits(r.checkpoints[k][1], r.identity[1], b)
    /\ r.identity # Absent =>
          /\ r.identity[1].inputs = r.inputs
          /\ method = "sft" => r.identity[1].report # Absent
          /\ r.identity[1].source # Absent => method = "sft"
    /\ Configured(r)

\* The state s of a process in the run r, between the record of its attempt and the end of
\* its trainer, which has read the configuration of some attempt: its own, or its own has
\* been overtaken.
Configures(s, r) ==
    /\ s.pc = "configure" => \E a \in r.attempts :
          /\ a.by = s.id
          /\ a.config = [initial |-> s.command[1].adapter, source |-> s.command[1].source]
    /\ s.pc = "launch" => r.config # Absent
    /\ s.pc = "trainer" =>
          /\ \E a \in r.attempts : s.config = <<a.config>>
          /\ \A a \in r.attempts : a.by = s.id => s.config = <<a.config>> \/ Overtaken(r, a)

\* The state s of a process that has not ended, what it has found in its run r and in the
\* world w, after b invocations.
Trains(s, r, w, b) ==
    LET c == s.command[1]
    IN  /\ s.id \in 1 .. b
        /\ Asked(c)
        /\ s.pc \in Training \cup {"train"} => c.stage = "train"
        /\ s.pc = "evaluate" => c.stage = "evaluate"
        /\ s.pc = "claim" => method = "rl"
        /\ s.pc \in Training \cup {"export"} /\ r.identity # Absent => r.identity[1].base = w
        /\ s.pc \in Training /\ method = "sft" =>
              /\ r.report = <<r.packed>>
              /\ r.identity # Absent => r.identity[1].report = r.report
        /\ s.pc = "attempt" /\ c.adapter => r.snapshot = <<s.adapter>>
        /\ s.pc \in {"configure", "launch", "trainer"} => r.identity # Absent
        /\ s.pc = "trainer" => s.at \in Nat \ {0}
        /\ Configures(s, r)
        /\ s.pc \in {"select", "export"} => s.at = IF c.stage = "train" THEN Steps ELSE c.step
        /\ s.pc = "export" =>
              /\ s.at \in 1 .. Steps
              /\ r.checkpoints[s.at] # Absent /\ s.world = w
        /\ s.pc = "finish" /\ method = "sft" => r.checkpoints[Steps] # Absent
        /\ s.pc \in {"slot", "open", "measure"} /\ c.step # 0 =>
              /\ c.step \in 1 .. Steps
              /\ r.adapters[c.step] # Absent /\ r.adapters[c.step][1].base = s.world

Complete(n, rs) == n \in Numbers /\ rs[n].outcome = "complete"

\* What is continued is complete.
Sourced ==
    /\ \A n \in Numbers :
          runs[n].identity # Absent /\ runs[n].identity[1].source # Absent =>
             Complete(runs[n].identity[1].source[1], runs)
    /\ \A p \in Processes :
          proc[p].pc \in Attempting /\ proc[p].command[1].source # Absent =>
             Complete(proc[p].command[1].source[1], runs)

ProvInv ==
    /\ \A n \in Numbers : RunTrained(runs[n], begun)
    /\ \A p \in Processes : proc[p].pc # "idle" =>
          Trains(proc[p], runs[proc[p].run], world, begun)
    /\ \A p, q \in Processes :
          p # q /\ proc[p].pc # "idle" /\ proc[q].pc # "idle" => proc[p].id # proc[q].id
    /\ \A p \in Processes : proc[p].pc \in Unsaved =>
          \A n \in Numbers : \A k \in 1 .. Steps :
             runs[n].checkpoints[k] # Absent => runs[n].checkpoints[k][1].by # proc[p].id
    /\ Sourced

\* by has added only its own attempt, and written only its own configuration.
Attempted(r, new, by) ==
    /\ r.attempts \subseteq new.attempts
    /\ \A a \in new.attempts \ r.attempts : a.by = by
    /\ \/ new.config = r.config
       \/ \E a \in r.attempts : a.by = by /\ new.config = <<a.config>>

\* What others have of a run by the time by has left it as new.
Grown(r, new, by) ==
    /\ r.report = <<r.packed>> => new.report = r.report /\ new.packed = r.packed
    /\ r.snapshot # Absent => new.snapshot = r.snapshot
    /\ \/ new.identity = r.identity
       \/ /\ new.identity # Absent /\ new.identity[1].base = world
          /\ new.identity[1].report = new.report
    /\ Attempted(r, new, by)
    /\ \A k \in 1 .. Steps :
          /\ r.checkpoints[k] # Absent => new.checkpoints[k] # Absent
          /\ r.adapters[k] # Absent => new.adapters[k] = r.adapters[k]

\* A run as good as r for its trainers, and a process that has none.
LEMMA ConfiguredSame ==
    ASSUME NEW r, NEW new, Configured(r),
           new.identity = r.identity, new.config = r.config, new.attempts = r.attempts,
           new.snapshot = r.snapshot, new.checkpoints = r.checkpoints
    PROVE  Configured(new)
BY DEF Configured, Overtaken

LEMMA ConfiguresNone ==
    ASSUME NEW s, NEW r, s.pc \notin {"configure", "launch", "trainer"}
    PROVE  Configures(s, r)
BY DEF Configures

\* Who has been overtaken stays so.
LEMMA OvertakenGrows ==
    ASSUME NEW r, NEW new, NEW by, Attempted(r, new, by), NEW a, a.by # by, Overtaken(r, a)
    PROVE  Overtaken(new, a)
<1>1. \E b \in new.attempts : b.config # a.config
  BY DEF Overtaken, Attempted
<1>2. ASSUME new.config = <<a.config>>
      PROVE  \E b \in new.attempts : b.by # a.by /\ b.config = a.config
  <2>1. CASE new.config = r.config
    BY <1>2, <2>1 DEF Overtaken, Attempted
  <2>2. CASE new.config # r.config
    <3>1. PICK b \in r.attempts : b.by = by /\ new.config = <<b.config>>
      BY <2>2 DEF Attempted
    <3>2. b.config = a.config
      BY <1>2, <3>1
    <3> QED  BY <3>1, <3>2 DEF Attempted
  <2> QED  BY <2>1, <2>2
<1> QED  BY <1>1, <1>2 DEF Overtaken

\* So the trainers of others are left as they are.
LEMMA ConfiguresGrows ==
    ASSUME NEW t, NEW r, NEW new, NEW by, Attempted(r, new, by), t.id # by, Configures(t, r)
    PROVE  Configures(t, new)
<1>1. CASE t.pc = "configure"
  BY <1>1 DEF Configures, Attempted
<1>2. CASE t.pc = "launch"
  <2>1. \A a : <<a>> # Absent
    BY DEF Absent
  <2> QED  BY <1>2, <2>1 DEF Configures, Attempted
<1>3. CASE t.pc = "trainer"
  <2>1. PICK b \in r.attempts : t.config = <<b.config>>
    BY <1>3 DEF Configures
  <2>2. b \in new.attempts
    BY <2>1 DEF Attempted
  <2>3. ASSUME NEW a \in new.attempts, a.by = t.id
        PROVE  t.config = <<a.config>> \/ Overtaken(new, a)
    <3>1. a \in r.attempts
      BY <2>3 DEF Attempted
    <3>2. t.config = <<a.config>> \/ Overtaken(r, a)
      BY <1>3, <2>3, <3>1 DEF Configures
    <3> QED  BY <2>3, <3>2, OvertakenGrows
  <2> QED  BY <1>3, <2>1, <2>2, <2>3 DEF Configures
<1> QED  BY <1>1, <1>2, <1>3, ConfiguresNone

\* It is enough for them.
LEMMA GrownTrains ==
    ASSUME NEW t, NEW r, NEW new, NEW by, NEW b, NEW c, b \in Nat, c \in Nat, b <= c,
           Trains(t, r, world, b), Grown(r, new, by), t.id # by
    PROVE  Trains(t, new, world, c)
<1> USE DEF Training
<1>1. t.id \in 1 .. c
  BY DEF Trains
<1>2. t.pc \in Training \cup {"export"} /\ new.identity # Absent => new.identity[1].base = world
  BY DEF Trains, Grown
<1>3. t.pc \in Training /\ method = "sft" =>
         /\ new.report = <<new.packed>>
         /\ new.identity # Absent => new.identity[1].report = new.report
  BY DEF Trains, Grown
<1>4. t.pc = "attempt" /\ t.command[1].adapter => new.snapshot = <<t.adapter>>
  <2>1. <<t.adapter>> # Absent
    BY DEF Absent
  <2> QED  BY <2>1 DEF Trains, Grown
<1>5. t.pc \in {"configure", "launch", "trainer"} => new.identity # Absent
  BY DEF Trains, Grown
<1>6. Configures(t, new)
  <2>1. Configures(t, r) /\ Attempted(r, new, by)
    BY DEF Trains, Grown
  <2> QED  BY <2>1, ConfiguresGrows
<1>7. \A k \in 1 .. Steps :
        /\ r.checkpoints[k] # Absent => new.checkpoints[k] # Absent
        /\ r.adapters[k] # Absent => new.adapters[k] # Absent /\ new.adapters[k] = r.adapters[k]
  BY DEF Grown
<1>8. t.pc \in {"slot", "open", "measure"} /\ t.command[1].step # 0 =>
            /\ t.command[1].step \in 1 .. Steps
            /\ new.adapters[t.command[1].step] # Absent
            /\ new.adapters[t.command[1].step][1].base = t.world
  BY <1>7 DEF Trains
<1>9. t.pc = "export" => t.at \in 1 .. Steps /\ new.checkpoints[t.at] # Absent /\ t.world = world
  BY <1>7 DEF Trains
<1>10. t.pc = "finish" /\ method = "sft" => new.checkpoints[Steps] # Absent
  <2>1. Steps \in 1 .. Steps
    BY ExperimentAssumption
  <2> QED  BY <1>7, <2>1 DEF Trains
<1> QED  BY <1>1, <1>2, <1>3, <1>4, <1>5, <1>6, <1>8, <1>9, <1>10 DEF Trains

\* What is so of a run stays so as invocations begin.
LEMMA TrainedLater ==
    ASSUME NEW r, NEW b \in Nat, NEW c \in Nat, b <= c, RunTrained(r, b)
    PROVE  RunTrained(r, c)
<1>1. 0 .. b \subseteq 0 .. c
  OBVIOUS
<1>2. ASSUME NEW k \in 1 .. Steps, r.checkpoints[k] # Absent
      PROVE  r.identity # Absent /\ Fits(r.checkpoints[k][1], r.identity[1], c)
  BY <1>1, <1>2 DEF RunTrained, Fits
<1> QED  BY <1>2 DEF RunTrained

\* A step of p makes n what it is now and p what it is now, and what trainings are recorded
\* to have used stays true.
Advances(p, n, r, m) ==
    /\ UNCHANGED <<method, world>> /\ begun' \in Nat /\ begun <= begun'
    /\ proc' = [proc EXCEPT ![p] = m] /\ runs' = [runs EXCEPT ![n] = r]
    /\ RunTrained(r, begun')
    /\ m.pc # "idle" =>
          /\ Trains(m, IF m.run = n THEN r ELSE runs[m.run], world, begun')
          /\ \/ proc[p].pc # "idle" /\ m.id = proc[p].id
                /\ (m.pc \in Unsaved => proc[p].pc \in Unsaved)
             \/ m.id = begun + 1
    /\ \A q \in Processes \ {p} : proc[q].pc # "idle" /\ proc[q].run = n =>
          Trains(proc[q], r, world, begun')
    /\ \A k \in 1 .. Steps : r.checkpoints[k] # Absent =>
          \/ r.checkpoints[k] = runs[n].checkpoints[k]
          \/ proc[p].pc = "trainer" /\ m.pc = "trainer" /\ r.checkpoints[k][1].by = m.id
    /\ method = "sft" /\ runs[n].outcome = "complete" => r.outcome = "complete"
    /\ r.identity # Absent /\ r.identity[1].source # Absent /\ r.identity # runs[n].identity =>
          proc[p].pc = "attempt" /\ r.identity[1].source = proc[p].command[1].source
    /\ m.pc \in Attempting /\ m.command[1].source # Absent =>
          \/ proc[p].pc \in Attempting /\ m.command = proc[p].command
          \/ Complete(m.command[1].source[1], runs)

\* Such a step keeps what is known of trainings.
LEMMA AdvanceInv ==
    ASSUME IInv, ProvInv, NEW p \in Processes, NEW n \in Numbers, NEW r, NEW m,
           Advances(p, n, r, m)
    PROVE  ProvInv'
<1> USE DEF Advances
<1>1. /\ proc'[p] = m /\ (\A q \in Processes \ {p} : proc'[q] = proc[q])
      /\ runs'[n] = r /\ (\A k \in Numbers \ {n} : runs'[k] = runs[k])
      /\ Numbers' = Numbers /\ begun \in Nat /\ method' = method /\ world' = world
      /\ begun' \in Nat /\ begun <= begun'
  BY NumberFacts DEF IInv, Base, Numbers
<1>2. ASSUME NEW k \in Numbers PROVE RunTrained(runs[k], begun)'
  <2>1. RunTrained(runs'[k], begun')
    <3>1. CASE k = n
      BY <1>1, <3>1
    <3>2. CASE k # n
      <4>1. RunTrained(runs[k], begun) /\ runs'[k] = runs[k]
        BY <1>1, <3>2 DEF ProvInv
      <4> QED  BY <1>1, <4>1, TrainedLater
    <3> QED  BY <3>1, <3>2
  <2>2. method' = method
    BY <1>1
  <2> QED  BY <2>1, <2>2 DEF RunTrained, Fits, Configured, Overtaken, Uses, InitialOf
<1>3. ASSUME NEW q \in Processes, proc'[q].pc # "idle"
      PROVE  Trains(proc[q], runs[proc[q].run], world, begun)'
  <2>1. Trains(proc'[q], runs'[proc'[q].run], world, begun')
    <3>1. CASE q = p
      <4>1. m.run # n => runs'[m.run] = runs[m.run]
        BY <1>1 DEF IInv, Base
      <4> QED  BY <1>1, <1>3, <3>1, <4>1
    <3>2. CASE q # p /\ proc[q].run = n
      BY <1>1, <1>3, <3>2
    <3>3. CASE q # p /\ proc[q].run # n
      <4>1. /\ proc'[q] = proc[q] /\ runs'[proc[q].run] = runs[proc[q].run]
            /\ Trains(proc[q], runs[proc[q].run], world, begun)
        BY <1>1, <1>3, <3>3 DEF ProvInv, IInv, Base
      <4>2. Grown(runs[proc[q].run], runs[proc[q].run], begun + 1)
        BY DEF Grown, Attempted
      <4>3. proc[q].id # begun + 1
        <5>1. proc[q].id \in 1 .. begun
          BY <4>1 DEF Trains
        <5> QED  BY <1>1, <5>1
      <4> QED  BY <1>1, <4>1, <4>2, <4>3, GrownTrains
    <3> QED  BY <3>1, <3>2, <3>3
  <2> QED  BY <1>1, <2>1 DEF Trains, Asked, Configures, Overtaken
<1>4. ASSUME NEW q \in Processes, proc[q].pc # "idle"
      PROVE  proc[q].id \in 1 .. begun
  BY <1>4 DEF ProvInv, Trains
<1>5. ASSUME NEW q \in Processes \ {p}, proc[q].pc # "idle", m.pc # "idle"
      PROVE  m.id # proc[q].id
  BY <1>1, <1>4, <1>5 DEF ProvInv
<1>6. \A q, t \in Processes :
         q # t /\ proc'[q].pc # "idle" /\ proc'[t].pc # "idle" => proc'[q].id # proc'[t].id
  BY <1>1, <1>5 DEF ProvInv
<1>7. ASSUME NEW q \in Processes, proc'[q].pc \in Unsaved, NEW k \in Numbers,
             NEW j \in 1 .. Steps, runs'[k].checkpoints[j] # Absent
      PROVE  runs'[k].checkpoints[j][1].by # proc'[q].id
  <2>1. "idle" \notin Unsaved /\ "trainer" \notin Unsaved
    BY DEF Unsaved
  <2>2. CASE runs'[k].checkpoints[j] = runs[k].checkpoints[j]
    <3>1. runs[k].checkpoints[j][1].by \in 0 .. begun
      BY <1>7, <2>2 DEF ProvInv, RunTrained, Fits
    <3>2. proc'[q].id = begun + 1 \/ (proc[q].pc \in Unsaved /\ proc'[q].id = proc[q].id)
      BY <1>1, <1>7, <2>1
    <3>3. proc[q].pc \in Unsaved => runs[k].checkpoints[j][1].by # proc[q].id
      BY <1>7, <2>2 DEF ProvInv
    <3> QED  BY <1>1, <2>2, <3>1, <3>2, <3>3
  <2>3. CASE runs'[k].checkpoints[j] # runs[k].checkpoints[j]
    <3>1. k = n /\ m.pc = "trainer" /\ runs'[k].checkpoints[j][1].by = m.id
      BY <1>1, <1>7, <2>3
    <3>2. q # p
      BY <1>1, <1>7, <2>1, <3>1
    <3>3. proc[q].pc # "idle" /\ proc'[q] = proc[q]
      BY <1>1, <1>7, <2>1, <3>2
    <3> QED  BY <1>5, <3>1, <3>2, <3>3
  <2> QED  BY <2>2, <2>3
<1>8. \A k : Complete(k, runs) /\ method = "sft" => Complete(k, runs')
  BY <1>1 DEF Complete
<1>9. \A q \in Processes :
         proc[q].pc \in Attempting /\ proc[q].command[1].source # Absent =>
            Complete(proc[q].command[1].source[1], runs') /\ method = "sft"
  <2>1. \A q \in Processes : proc[q].pc \in Attempting => Asked(proc[q].command[1])
    BY DEF ProvInv, Trains, Attempting
  <2> QED  BY <1>8, <2>1 DEF ProvInv, Sourced, Asked
<1>10. ASSUME NEW k \in Numbers, runs'[k].identity # Absent, runs'[k].identity[1].source # Absent
       PROVE  Complete(runs'[k].identity[1].source[1], runs')
  <2>1. CASE runs'[k].identity = runs[k].identity
    <3>1. method = "sft"
      BY <1>10, <2>1 DEF ProvInv, RunTrained
    <3> QED  BY <1>8, <1>10, <2>1, <3>1 DEF ProvInv, Sourced
  <2>2. CASE runs'[k].identity # runs[k].identity
    <3>1. k = n /\ runs'[k] = r
      BY <1>1, <2>2
    <3>2. proc[p].pc = "attempt" /\ r.identity[1].source = proc[p].command[1].source
      BY <1>10, <2>2, <3>1
    <3>3. proc[p].command[1].source # Absent /\ proc[p].pc \in Attempting
      BY <1>10, <3>1, <3>2 DEF Attempting
    <3> QED  BY <1>9, <3>1, <3>2, <3>3
  <2> QED  BY <2>1, <2>2
<1>11. ASSUME NEW q \in Processes, proc'[q].pc \in Attempting,
              proc'[q].command[1].source # Absent
       PROVE  Complete(proc'[q].command[1].source[1], runs')
  <2>1. CASE proc[q].pc \in Attempting /\ proc'[q].command = proc[q].command
    BY <1>9, <1>11, <2>1
  <2>2. CASE ~(proc[q].pc \in Attempting /\ proc'[q].command = proc[q].command)
    <3>1. q = p /\ Complete(m.command[1].source[1], runs)
      BY <1>1, <1>11, <2>2
    <3>2. method = "sft"
      BY <1>1, <1>11, <3>1 DEF Trains, Asked, Attempting
    <3> QED  BY <1>1, <1>8, <3>1, <3>2
  <2> QED  BY <2>1, <2>2
<1>12. Sourced'
  BY <1>1, <1>10, <1>11 DEF Sourced, Complete
<1> QED  BY <1>1, <1>2, <1>3, <1>6, <1>7, <1>12 DEF ProvInv

-----------------------------------------------------------------------------
(* Steps that leave what is trained alone.                                 *)

\* A run of which no step matters to those who train in it.
SameTraining(r, new) ==
    /\ new.packed = r.packed /\ new.report = r.report /\ new.snapshot = r.snapshot
    /\ new.identity = r.identity /\ new.config = r.config /\ new.attempts = r.attempts
    /\ new.checkpoints = r.checkpoints /\ new.adapters = r.adapters /\ new.outcome = r.outcome
    /\ new.inputs = r.inputs \/ r.inputs = 0

RunLeft(n) == \E new : runs' = [runs EXCEPT ![n] = new] /\ SameTraining(runs[n], new)

\* What s becomes goes on with the same invocation.
Leads(s, m) ==
    m.pc # "idle" =>
        /\ m.id = s.id /\ m.command = s.command
        /\ m.pc \in Unsaved => s.pc \in Unsaved
        /\ Trains(m, runs[m.run], world, begun)
        /\ m.pc \in Attempting /\ m.command[1].source # Absent =>
              s.pc \in Attempting \/ Complete(m.command[1].source[1], runs)

Led(p) == \E m : proc' = [proc EXCEPT ![p] = m] /\ Leads(proc[p], m)

\* Such steps keep what is known of trainings.
LEMMA LeftInv ==
    ASSUME IInv, AttemptInv, ProvInv, NEW p \in Processes, proc[p].pc # "idle",
           UNCHANGED <<outside, begun>>, Led(p), NEW n \in Numbers, RunLeft(n)
    PROVE  ProvInv'
<1>1. PICK m : proc' = [proc EXCEPT ![p] = m] /\ Leads(proc[p], m)
  BY DEF Led
<1>2. PICK new : runs' = [runs EXCEPT ![n] = new] /\ SameTraining(runs[n], new)
  BY DEF RunLeft
<1>3. RunTrained(runs[n], begun) /\ begun \in Nat
  BY NumberFacts DEF ProvInv
<1>4. RunTrained(new, begun)
  <2>1. runs[n].inputs = 0 => runs[n].identity = Absent
    BY DEF AttemptInv
  <2>2. new.packed = runs[n].packed /\ new.identity = runs[n].identity
        /\ new.checkpoints = runs[n].checkpoints /\ new.adapters = runs[n].adapters
        /\ new.outcome = runs[n].outcome
        /\ (new.inputs = runs[n].inputs \/ runs[n].inputs = 0)
    BY <1>2 DEF SameTraining
  <2>3. Configured(new)
    BY <1>2, <1>3, ConfiguredSame DEF SameTraining, RunTrained
  <2> QED  BY <1>3, <2>1, <2>2, <2>3 DEF RunTrained
<1>5. \A by : Grown(runs[n], new, by)
  BY <1>2 DEF SameTraining, Grown, Attempted
<1>6. ASSUME NEW q \in Processes, proc[q].pc # "idle", proc[q].run = n
      PROVE  Trains(proc[q], new, world, begun)
  <2>1. Trains(proc[q], runs[n], world, begun)
    BY <1>6 DEF ProvInv
  <2>2. proc[q].id # begun + 1
    <3>1. proc[q].id \in 1 .. begun
      BY <2>1 DEF Trains
    <3> QED  BY <1>3, <3>1
  <2>3. begun <= begun /\ Grown(runs[n], new, begun + 1)
    BY <1>3, <1>5
  <2> QED  BY <1>3, <2>1, <2>2, <2>3, GrownTrains
<1>7. m.pc # "idle" => Trains(m, IF m.run = n THEN new ELSE runs[m.run], world, begun)
  <2> SUFFICES ASSUME m.pc # "idle"
               PROVE  Trains(m, IF m.run = n THEN new ELSE runs[m.run], world, begun)
    OBVIOUS
  <2>1. Trains(m, runs[m.run], world, begun)
    BY <1>1 DEF Leads
  <2>2. m.id # begun + 1
    <3>1. m.id \in 1 .. begun
      BY <2>1 DEF Trains
    <3> QED  BY <1>3, <3>1
  <2>3. ASSUME m.run = n PROVE Trains(m, new, world, begun)
    <3>1. Trains(m, runs[n], world, begun)
      BY <2>1, <2>3
    <3>2. begun <= begun /\ Grown(runs[n], new, begun + 1)
      BY <1>3, <1>5
    <3> QED  BY <1>3, <2>2, <3>1, <3>2, GrownTrains
  <2> QED  BY <2>1, <2>3
<1>8. Advances(p, n, new, m)
  <2>1. UNCHANGED <<method, world>> /\ begun' = begun /\ begun <= begun
    BY <1>3 DEF outside
  <2>2. m.pc # "idle" => /\ m.id = proc[p].id /\ m.command = proc[p].command
                         /\ (m.pc \in Unsaved => proc[p].pc \in Unsaved)
    BY <1>1 DEF Leads
  <2>3. m.pc \in Attempting /\ m.command[1].source # Absent =>
           \/ proc[p].pc \in Attempting /\ m.command = proc[p].command
           \/ Complete(m.command[1].source[1], runs)
    BY <1>1 DEF Leads, Attempting
  <2>4. /\ new.checkpoints = runs[n].checkpoints /\ new.outcome = runs[n].outcome
        /\ new.identity = runs[n].identity
    BY <1>2 DEF SameTraining
  <2> QED  BY <1>1, <1>2, <1>3, <1>4, <1>6, <1>7, <2>1, <2>2, <2>3, <2>4 DEF Advances
<1> QED  BY <1>8, AdvanceInv

\* Ending is such a step.
LEMMA EndLeads == ASSUME NEW p, End(p) PROVE Led(p)
<1>1. Idle.pc = "idle"
  BY DEF Idle
<1>2. Leads(proc[p], Idle)
  BY <1>1 DEF Leads, Attempting
<1> QED  BY <1>2 DEF End, Led

\* Where a process relies on nothing of a training.
Resting == {"list", "make", "copy", "prepare", "identify", "claimed", "reuse", "render", "pack",
            "report", "calibrate"}

\* There a process trains as it should, whatever its run.
LEMMA RestingTrains ==
    ASSUME NEW s, NEW r, NEW m, NEW new, Trains(s, r, world, begun),
           m.id = s.id, m.command = s.command, m.pc \in Resting
    PROVE  Trains(m, new, world, begun)
<1>1. m.id \in 1 .. begun /\ Asked(m.command[1])
  BY DEF Trains
<1>2. m.pc \notin Training \cup {"train", "evaluate", "select", "export", "finish", "slot", "open",
                               "measure"}
  BY DEF Resting, Training
<1>3. m.pc \notin {"claim", "attempt", "configure", "launch", "trainer"}
  BY <1>2 DEF Training
<1>4. Configures(m, new)
  BY <1>3, ConfiguresNone
<1> QED  BY <1>1, <1>2, <1>3, <1>4 DEF Trains

\* Leaving the runs alone.
LEMMA UnchangedLeft == ASSUME IInv, NEW n \in Numbers, UNCHANGED runs PROVE RunLeft(n)
<1>1. runs' = [runs EXCEPT ![n] = runs[n]]
  BY DEF IInv, Shapes
<1>2. SameTraining(runs[n], runs[n])
  BY DEF SameTraining
<1> QED  BY <1>1, <1>2 DEF RunLeft

\* Writing something else.
LEMMA WriteLeft ==
    ASSUME IInv, NEW p \in Processes, NEW v, proc[p].run \in Numbers,
           NEW field \in {"dataset", "rendered", "training", "slots", "calibration"},
           Write(p, field, v)
    PROVE  RunLeft(proc[p].run)
<1>1. PICK r : r = runs[proc[p].run]
  OBVIOUS
<1>2. r = [f \in DOMAIN NoRun |-> r[f]]
  BY <1>1 DEF IInv, Shapes
<1>3. runs' = [runs EXCEPT ![proc[p].run] = [r EXCEPT ![field] = v]]
  BY <1>1 DEF IInv, Base, Write
<1>4. SameTraining(r, [r EXCEPT ![field] = v])
  BY <1>2 DEF SameTraining, NoRun
<1> QED  BY <1>1, <1>3, <1>4 DEF RunLeft

\* Such steps.
LeftSteps(p) ==
    \/ ListRuns(p) \/ MakeRun(p) \/ CopyInputs(p)
    \/ Prepare(p) \/ Identify(p) \/ RecordPreparation(p) \/ Reuse(p) \/ Render(p)
    \/ Train(p) \/ VerifyAdapter(p) \/ TrainRl(p) \/ ClaimTraining(p)
    \/ StartTrainer(p) \/ TrainerEnds(p) \/ Evaluate(p) \/ Select(p) \/ SelectRl(p)
    \/ ListSlots(p) \/ MakeSlot(p) \/ Calibrate(p) \/ Measure(p)

\* They write nothing of a training.
LEMMA LeftRuns ==
    ASSUME IInv, NEW p \in Processes, LeftSteps(p)
    PROVE  \E n \in Numbers : RunLeft(n)
<1>1. proc[p].pc \notin {"list", "make"} /\ proc[p].pc # "idle" => proc[p].run \in Numbers
  BY DEF IInv, Placed
<1>2. UNCHANGED runs => \E n \in Numbers : RunLeft(n)
  BY NumberFacts, UnchangedLeft
<1> USE DEF At
<1>3. CASE \/ Identify(p) \/ RecordPreparation(p) \/ Render(p) \/ ClaimTraining(p)
           \/ MakeSlot(p) \/ Calibrate(p)
  BY <1>1, <1>2, <1>3, WriteLeft
     DEF Identify, RecordPreparation, Render, ClaimTraining, MakeSlot, Calibrate
<1>4. CASE MakeRun(p)
  <2>1. PICK t : t = proc[p].target
    OBVIOUS
  <2>2. CASE t \in Numbers /\ runs' = [runs EXCEPT ![t].exists = TRUE]
    <3>1. PICK r : r = runs[t]
      OBVIOUS
    <3>2. r = [f \in DOMAIN NoRun |-> r[f]]
      BY <2>2, <3>1 DEF IInv, Shapes
    <3>3. SameTraining(r, [r EXCEPT !.exists = TRUE])
      BY <3>2 DEF SameTraining, NoRun
    <3>4. runs' = [runs EXCEPT ![t] = [r EXCEPT !.exists = TRUE]]
      BY <2>2, <3>1 DEF IInv, Base
    <3> QED  BY <2>2, <3>1, <3>3, <3>4 DEF RunLeft
  <2>3. CASE t \notin Numbers /\ runs' = [runs EXCEPT ![t].exists = TRUE]
    BY <1>2, <2>3 DEF IInv, Base, Shapes
  <2> QED  BY <1>2, <1>4, <2>1, <2>2, <2>3 DEF MakeRun
<1>5. CASE CopyInputs(p)
  <2>1. PICK s, r : Found(p, "copy", s, r)
    BY <1>5, Finds DEF CopyInputs
  <2>2. PICK new : new = [r EXCEPT !.inputs = s.inputs]
    OBVIOUS
  <2>3. runs' = [runs EXCEPT ![s.run] = new] /\ r = runs[s.run] /\ s.run \in Numbers
    BY <1>5, <2>1, <2>2 DEF CopyInputs, Found, State, Write, IInv, Base
  <2>4. SameTraining(r, new)
    BY <2>1, <2>2 DEF Found, Shaped, NoRun, Placed, Numbers, New, SameTraining
  <2> QED  BY <2>3, <2>4 DEF RunLeft
<1> HIDE DEF At
<1>6. CASE \/ ListRuns(p) \/ Prepare(p) \/ Reuse(p) \/ Train(p) \/ VerifyAdapter(p) \/ TrainRl(p)
           \/ StartTrainer(p) \/ TrainerEnds(p) \/ Evaluate(p) \/ Select(p) \/ SelectRl(p)
           \/ ListSlots(p) \/ Measure(p)
  BY <1>2, <1>6 DEF ListRuns, Prepare, Reuse, Train, VerifyAdapter, TrainRl, StartTrainer,
     TrainerEnds, Evaluate, Select, SelectRl, CheckpointModel, ListSlots, Measure
<1> QED  BY <1>3, <1>4, <1>5, <1>6 DEF LeftSteps

\* Going on to where a process relies on nothing.
LEMMA RestLeads ==
    ASSUME ProvInv, NEW p \in Processes, proc[p].pc # "idle", NEW m,
           proc' = [proc EXCEPT ![p] = m], m.id = proc[p].id, m.command = proc[p].command,
           m.pc \in Resting, m.pc \in Unsaved => proc[p].pc \in Unsaved
    PROVE  Led(p)
<1>1. Trains(m, runs[m.run], world, begun)
  BY RestingTrains DEF ProvInv
<1>2. m.pc \notin Attempting
  BY DEF Resting, Attempting
<1> QED  BY <1>1, <1>2 DEF Led, Leads

\* Such steps of a process up to the training.
LEMMA PreparingLeads ==
    ASSUME IInv, ProvInv, NEW p \in Processes,
           \/ ListRuns(p) \/ MakeRun(p) \/ CopyInputs(p) \/ Prepare(p) \/ Identify(p)
           \/ RecordPreparation(p) \/ Reuse(p) \/ Render(p)
    PROVE  Led(p)
<1> USE DEF At
<1>1. proc[p].pc # "idle"
  BY DEF ListRuns, MakeRun, CopyInputs, Prepare, Identify, RecordPreparation, Reuse, Render
<1>2. PICK s : s = proc[p]
  OBVIOUS
<1>3. s = [f \in DOMAIN Idle |-> s[f]] /\ DOMAIN proc = Processes
  BY <1>2 DEF IInv, Base, Shapes
<1>4. ASSUME NEW pc \in Resting, pc \in Unsaved => s.pc \in Unsaved, Goto(p, pc)
      PROVE  Led(p)
  <2>1. PICK m : m = [s EXCEPT !.pc = pc]
    OBVIOUS
  <2>2. m.id = s.id /\ m.command = s.command /\ m.pc = pc
    BY <1>3, <2>1 DEF Idle
  <2>3. proc' = [proc EXCEPT ![p] = m]
    BY <1>2, <1>3, <1>4, <2>1 DEF Goto
  <2> QED  BY <1>1, <1>2, <1>4, <2>2, <2>3, RestLeads
<1>5. CASE Prepare(p) \/ RecordPreparation(p) \/ Render(p)
  <2>1. \A pc \in {"identify", "reuse", "pack"} : pc \in Resting \ Unsaved
    BY DEF Resting, Unsaved
  <2> QED
    BY <1>4, <1>5, <2>1, EndLeads DEF Prepare, RecordPreparation, Render, Require
<1>6. CASE ListRuns(p)
  <2>1. PICK m : m = [s EXCEPT !.pc = "make", !.target = NextNumber(Existing)]
    OBVIOUS
  <2>2. m.id = s.id /\ m.command = s.command /\ m.pc = "make"
    BY <1>3, <2>1 DEF Idle
  <2>3. proc' = [proc EXCEPT ![p] = m]
    BY <1>2, <1>3, <1>6, <2>1 DEF ListRuns
  <2>4. m.pc \in Resting /\ s.pc \in Unsaved
    BY <1>2, <1>6, <2>2 DEF Resting, Unsaved, ListRuns
  <2> QED  BY <1>1, <1>2, <2>2, <2>3, <2>4, RestLeads
<1>7. CASE MakeRun(p)
  <2>1. PICK m : m = [s EXCEPT !.pc = "copy", !.run = s.target]
    OBVIOUS
  <2>2. m.id = s.id /\ m.command = s.command /\ m.pc = "copy"
    BY <1>3, <2>1 DEF Idle
  <2>3. Goto(p, "list") \/ proc' = [proc EXCEPT ![p] = m]
    BY <1>2, <1>3, <1>7, <2>1 DEF MakeRun
  <2>4. {"copy", "list"} \subseteq Resting /\ s.pc \in Unsaved
    BY <1>2, <1>7 DEF Resting, Unsaved, MakeRun
  <2> QED  BY <1>1, <1>2, <1>4, <2>2, <2>3, <2>4, RestLeads
<1>8. CASE CopyInputs(p)
  <2>1. s.command[1].stage \in {"prepare", "train", "evaluate", "calibrate"}
        /\ s.pc \in Unsaved /\ Goto(p, s.command[1].stage)
    BY <1>2, <1>8 DEF CopyInputs, IInv, Placed, Command, Unsaved
  <2>2. CASE s.command[1].stage \in {"prepare", "calibrate"}
    BY <1>4, <2>1, <2>2 DEF Resting
  <2>3. CASE s.command[1].stage \in {"train", "evaluate"}
    <3>1. PICK m : m = [s EXCEPT !.pc = s.command[1].stage]
      OBVIOUS
    <3>2. m.id = s.id /\ m.command = s.command /\ m.pc = s.command[1].stage
      BY <1>3, <3>1 DEF Idle
    <3>3. proc' = [proc EXCEPT ![p] = m]
      BY <1>2, <1>3, <2>1, <3>1 DEF Goto
    <3>4. s.id \in 1 .. begun /\ Asked(s.command[1])
      BY <1>1, <1>2 DEF ProvInv, Trains
    <3>5. Trains(m, runs[m.run], world, begun)
      BY <2>3, <3>2, <3>4 DEF Trains, Training, Configures
    <3>6. m.pc \notin Attempting
      BY <2>3, <3>2 DEF Attempting
    <3> QED  BY <1>2, <2>1, <3>2, <3>3, <3>5, <3>6 DEF Led, Leads
  <2> QED  BY <2>1, <2>2, <2>3
<1>9. CASE Identify(p)
  <2>1. End(p) \/ \E pc \in {"claimed", "reuse"} :
           proc' = [proc EXCEPT ![p] = [s EXCEPT !.world = world, !.pc = pc]]
    BY <1>2, <1>3, <1>9 DEF Identify
  <2>2. ASSUME NEW pc \in {"claimed", "reuse"},
               proc' = [proc EXCEPT ![p] = [s EXCEPT !.world = world, !.pc = pc]]
        PROVE  Led(p)
    <3>1. PICK m : m = [s EXCEPT !.world = world, !.pc = pc]
      OBVIOUS
    <3>2. m.id = s.id /\ m.command = s.command /\ m.pc = pc
      BY <1>3, <3>1 DEF Idle
    <3>3. pc \in Resting \ Unsaved
      BY DEF Resting, Unsaved
    <3> QED  BY <1>1, <1>2, <2>2, <3>1, <3>2, <3>3, RestLeads
  <2> QED  BY <2>1, <2>2, EndLeads
<1>10. CASE Reuse(p)
  <2>1. PICK m : m = [s EXCEPT !.pc = "render", !.at = 1]
    OBVIOUS
  <2>2. m.id = s.id /\ m.command = s.command /\ m.pc = "render"
    BY <1>3, <2>1 DEF Idle
  <2>3. End(p) \/ proc' = [proc EXCEPT ![p] = m]
    BY <1>2, <1>3, <1>10, <2>1 DEF Reuse
  <2>4. m.pc \in Resting \ Unsaved
    BY <2>2 DEF Resting, Unsaved
  <2> QED  BY <1>1, <1>2, <2>2, <2>3, <2>4, RestLeads, EndLeads
<1> HIDE DEF At
<1> QED  BY <1>5, <1>6, <1>7, <1>8, <1>9, <1>10

\* Where a process is found, it trains as it should.
LEMMA FindsTrains ==
    ASSUME ProvInv, NEW p \in Processes, NEW pc, NEW s, NEW r, Found(p, pc, s, r), pc # "idle"
    PROVE  Trains(s, r, world, begun) /\ RunTrained(r, begun)
BY DEF Found, State, ProvInv

\* A training begins where there is none and what it needs is there (sft.train.train,
\* rl.train.train).
LEMMA TrainingLeads ==
    ASSUME IInv, AttemptInv, ProvInv, NEW p \in Processes, Train(p) \/ TrainRl(p)
    PROVE  Led(p)
<1>1. PICK s, r : Found(p, "train", s, r)
  BY Finds DEF Train, TrainRl
<1>2. Trains(s, r, world, begun)
  BY <1>1, FindsTrains
<1>3. PICK m : /\ proc' = [proc EXCEPT ![p] = m]
               /\ \/ m = Idle
                  \/ /\ ~r.training
                     /\ method = "sft" =>
                          /\ Prepared(s.run)
                          /\ s.command[1].source # Absent =>
                                Continues(s.run, s.command[1].source[1])
                     /\ \E pc \in {"initialize", "attempt", "claim"} :
                           /\ m = [s EXCEPT !.pc = pc]
                           /\ pc = "claim" <=> method = "rl"
                           /\ pc = "attempt" => ~s.command[1].adapter
                           /\ pc # "claim" => method = "sft"
  BY <1>1 DEF Train, TrainRl, Require, End, Goto, Found, State, Run, Command, IInv, Base
<1>4. CASE m = Idle
  BY <1>3, <1>4, EndLeads DEF End
<1>5. CASE m # Idle
  <2>1. /\ m.id = s.id /\ m.run = s.run /\ m.command = s.command /\ m.adapter = s.adapter
        /\ m.pc \in {"initialize", "attempt", "claim"}
        /\ m.pc = "claim" => method = "rl"
        /\ m.pc = "attempt" => ~s.command[1].adapter
        /\ m.pc # "claim" => method = "sft"
    BY <1>1, <1>3, <1>5 DEF Found, Shaped, Idle
  <2>2. r.identity = Absent
    BY <1>1, <1>3, <1>5 DEF AttemptInv, Found, State
  <2>3. method = "sft" => r.report = <<r.packed>>
    BY <1>1, <1>3, <1>5 DEF Prepared, Unchanged, Found, State
  <2>4. s.command[1].source # Absent => Complete(s.command[1].source[1], runs)
    BY <1>2, <1>3, <1>5 DEF Continues, Complete, Trains, Asked
  <2>5. /\ s.id \in 1 .. begun /\ Asked(s.command[1]) /\ s.command[1].stage = "train"
    BY <1>1, <1>2 DEF Trains, Found
  <2>6. Trains(m, r, world, begun)
    BY <2>1, <2>2, <2>3, <2>5 DEF Trains, Training, Configures
  <2>7. s = proc[p] /\ r = runs[s.run] /\ s.pc \in Unsaved
    BY <1>1 DEF Found, State, Unsaved
  <2>8. Leads(proc[p], m)
    BY <2>1, <2>4, <2>6, <2>7 DEF Leads
  <2> QED  BY <1>3, <2>8 DEF Led
<1> QED  BY <1>4, <1>5

\* It goes on where its adapter is verified, or its directory made.
LEMMA ClaimingLeads ==
    ASSUME IInv, AttemptInv, ProvInv, NEW p \in Processes, VerifyAdapter(p) \/ ClaimTraining(p)
    PROVE  Led(p)
<1>0. PICK pc \in {"initialize", "claim"} : \E s, r : Found(p, pc, s, r)
  BY Finds DEF VerifyAdapter, ClaimTraining
<1>1. PICK s, r : Found(p, pc, s, r)
  BY <1>0
<1>2. Trains(s, r, world, begun)
  BY <1>1, FindsTrains
<1>3. PICK m : /\ proc' = [proc EXCEPT ![p] = m]
               /\ \/ m = Idle
                  \/ pc = "initialize" /\ m = [s EXCEPT !.adapter = adapter, !.pc = "snapshot"]
                  \/ pc = "claim" /\ m = [s EXCEPT !.pc = "attempt"]
  BY <1>1 DEF VerifyAdapter, ClaimTraining, Require, End, Goto, Found, State, At, IInv, Base
<1>4. CASE m = Idle
  BY <1>3, <1>4, EndLeads DEF End
<1>5. CASE m # Idle
  <2>1. /\ m.id = s.id /\ m.run = s.run /\ m.command = s.command
        /\ m.pc = IF pc = "claim" THEN "attempt" ELSE "snapshot"
    BY <1>1, <1>3, <1>5 DEF Found, Shaped, Idle
  <2>2. s.pc = pc /\ {s.pc, m.pc} \subseteq Training
    BY <1>1, <2>1 DEF Found, Training
  <2>3. m.pc = "attempt" => ~s.command[1].adapter
    <3>1. m.pc = "attempt" => method = "rl"
      BY <1>2, <2>1, <2>2 DEF Trains
    <3> QED  BY <1>2, <3>1 DEF Trains, Asked
  <2>4. Trains(m, r, world, begun)
    BY <1>2, <2>1, <2>2, <2>3 DEF Trains, Configures
  <2>5. m.command[1].source # Absent => s.pc \in Attempting
    <3>1. m.command[1].source # Absent => pc # "claim"
      BY <1>2, <2>1, <2>2 DEF Trains, Asked
    <3> QED  BY <2>2, <3>1 DEF Attempting
  <2>6. s = proc[p] /\ r = runs[s.run] /\ s.pc \in Unsaved
    BY <1>1, <2>2 DEF Found, State, Unsaved
  <2> QED  BY <1>3, <2>1, <2>4, <2>5, <2>6 DEF Led, Leads
<1> QED  BY <1>4, <1>5

\* A checkpoint is chosen when it is there, of the base that it is served on
\* (sft.train.checkpoint_model).
LEMMA ChoosingLeads ==
    ASSUME IInv, ProvInv, NEW p \in Processes, Select(p) \/ SelectRl(p)
    PROVE  Led(p)
<1>1. PICK s, r : Found(p, "select", s, r)
  BY Finds DEF Select, SelectRl, CheckpointModel
<1>2. Trains(s, r, world, begun) /\ RunTrained(r, begun)
  BY <1>1, FindsTrains
<1>3. PICK m : /\ proc' = [proc EXCEPT ![p] = m]
               /\ \/ m = Idle
                  \/ \E pc : /\ m = [s EXCEPT !.world = world, !.pc = pc]
                             /\ pc = IF r.adapters[s.at] = Absent THEN "export"
                                     ELSE IF s.command[1].stage = "train" THEN "finish"
                                     ELSE "slot"
                             /\ r.identity # Absent /\ r.identity[1].base = world
                             /\ s.at \in DOMAIN r.checkpoints /\ r.checkpoints[s.at] # Absent
                             /\ r.adapters[s.at] # Absent => r.adapters[s.at][1].base = world
  <2>1. s = proc[p] /\ r = runs[s.run]
    BY <1>1 DEF Found, State
  <2>2. CheckpointModel(p)
    BY DEF Select, SelectRl
  <2>3. CASE End(p)
    BY <2>3 DEF End
  <2>4. CASE ~End(p)
    <3>1. PICK pc : pc = IF r.adapters[s.at] = Absent THEN "export"
                         ELSE IF s.command[1].stage = "train" THEN "finish" ELSE "slot"
      OBVIOUS
    <3>2. /\ r.identity # Absent /\ r.identity[1].base = world
          /\ s.at \in DOMAIN r.checkpoints /\ r.checkpoints[s.at] # Absent
          /\ r.adapters[s.at] # Absent => r.adapters[s.at][1].base = world
          /\ proc' = [proc EXCEPT ![p].world = world, ![p].pc = pc]
      BY <2>1, <2>2, <2>4, <3>1
         DEF CheckpointModel, Checked, AfterExport, AdapterOnBase, Run, Command
    <3>3. proc' = [proc EXCEPT ![p] = [s EXCEPT !.world = world, !.pc = pc]]
      BY <2>1, <3>2 DEF IInv, Base
    <3> QED  BY <3>1, <3>2, <3>3
  <2> QED  BY <2>3, <2>4
<1>4. CASE m = Idle
  BY <1>3, <1>4, EndLeads DEF End
<1>5. CASE m # Idle
  <2>1. PICK pc : /\ m = [s EXCEPT !.world = world, !.pc = pc]
                  /\ pc = IF r.adapters[s.at] = Absent THEN "export"
                          ELSE IF s.command[1].stage = "train" THEN "finish" ELSE "slot"
                  /\ r.identity # Absent /\ r.identity[1].base = world
                  /\ s.at \in DOMAIN r.checkpoints /\ r.checkpoints[s.at] # Absent
                  /\ r.adapters[s.at] # Absent => r.adapters[s.at][1].base = world
    BY <1>3, <1>5
  <2>2. /\ m.id = s.id /\ m.run = s.run /\ m.command = s.command /\ m.at = s.at
        /\ m.world = world /\ m.pc = pc
    BY <1>1, <2>1 DEF Found, Shaped, Idle
  <2>3. s.at \in 1 .. Steps /\ s.at = IF s.command[1].stage = "train" THEN Steps
                                     ELSE s.command[1].step
    BY <1>1, <1>2, <2>1 DEF Trains, RunTrained, Found
  <2>4. s.command[1].step # 0 => s.command[1].stage = "evaluate"
    BY <1>2 DEF Trains, Asked
  <2>5. s.id \in 1 .. begun /\ Asked(s.command[1])
    BY <1>2 DEF Trains
  <2>6. Trains(m, r, world, begun)
    <3>1. CASE pc = "export"
      BY <2>1, <2>2, <2>3, <2>5, <3>1 DEF Trains, Training, Configures
    <3>2. CASE pc = "finish"
      BY <2>1, <2>2, <2>3, <2>5, <3>2 DEF Trains, Training, Configures
    <3>3. CASE pc = "slot"
      BY <2>1, <2>2, <2>3, <2>4, <2>5, <3>3 DEF Trains, Training, Configures
    <3> QED  BY <2>1, <3>1, <3>2, <3>3
  <2>7. m.pc \notin Attempting \cup Unsaved
    BY <2>1, <2>2 DEF Attempting, Unsaved
  <2>8. s = proc[p] /\ r = runs[s.run]
    BY <1>1 DEF Found, State
  <2> QED  BY <1>3, <2>2, <2>6, <2>7, <2>8 DEF Led, Leads
<1> QED  BY <1>4, <1>5

\* The other steps of an evaluation or a calibration, and the end of a trainer.
LEMMA EvaluatingLeads ==
    ASSUME IInv, ProvInv, NEW p \in Processes,
           \/ TrainerEnds(p) \/ Evaluate(p) \/ ListSlots(p) \/ MakeSlot(p) \/ Calibrate(p)
           \/ Measure(p)
    PROVE  Led(p)
<1>0. PICK pc \in {"trainer", "evaluate", "slot", "open", "calibrate", "measure"} :
         \E s, r : Found(p, pc, s, r)
  BY Finds DEF TrainerEnds, Evaluate, ListSlots, MakeSlot, Calibrate, Measure
<1>1. PICK s, r : Found(p, pc, s, r)
  BY <1>0
<1>2. Trains(s, r, world, begun) /\ s.pc = pc
  BY <1>1, FindsTrains DEF Found
<1>3. s.id \in 1 .. begun /\ Asked(s.command[1])
  BY <1>2 DEF Trains
<1>4. s = proc[p] /\ r = runs[s.run]
  BY <1>1 DEF Found, State
<1>5. ASSUME NEW m, proc' = [proc EXCEPT ![p] = m], m.id = s.id, m.command = s.command,
             m.run = s.run, m.pc \in {"select", "slot", "open", "measure"},
             Trains(m, r, world, begun)
      PROVE  Led(p)
  <2>1. m.pc \notin Attempting \cup Unsaved
    BY <1>5 DEF Attempting, Unsaved
  <2> QED  BY <1>4, <1>5, <2>1 DEF Led, Leads
<1>6. CASE TrainerEnds(p)
  <2>1. PICK m : m = [s EXCEPT !.at = Steps, !.pc = "select"]
    OBVIOUS
  <2>2. /\ m.id = s.id /\ m.run = s.run /\ m.command = s.command /\ m.at = Steps
        /\ m.pc = "select"
    BY <1>1, <2>1 DEF Found, Shaped, Idle
  <2>3. End(p) \/ proc' = [proc EXCEPT ![p] = m]
    BY <1>4, <1>6, <2>1 DEF TrainerEnds, End, IInv, Base
  <2>4. s.command[1].stage = "train"
    BY <1>2, <1>4, <1>6 DEF TrainerEnds, At, Trains, Training
  <2>5. Trains(m, r, world, begun)
    BY <1>3, <2>2, <2>4 DEF Trains, Training, Configures
  <2> QED  BY <1>5, <2>2, <2>3, <2>5, EndLeads
<1>7. CASE Evaluate(p)
  <2>1. s.command[1].stage = "evaluate"
    BY <1>2, <1>4, <1>7 DEF Evaluate, At, Trains
  <2>2. PICK m : m = IF s.command[1].step = 0 THEN [s EXCEPT !.pc = "slot"]
                     ELSE [s EXCEPT !.pc = "select", !.at = s.command[1].step]
    OBVIOUS
  <2>3. /\ m.id = s.id /\ m.run = s.run /\ m.command = s.command
        /\ IF s.command[1].step = 0 THEN m.pc = "slot"
           ELSE m.pc = "select" /\ m.at = s.command[1].step
    BY <1>1, <2>2 DEF Found, Shaped, Idle
  <2>4. proc' = [proc EXCEPT ![p] = m]
    BY <1>4, <1>7, <2>2 DEF Evaluate, Command, IInv, Base
  <2>5. Trains(m, r, world, begun)
    BY <1>3, <2>1, <2>3 DEF Trains, Training, Configures
  <2> QED  BY <1>5, <2>3, <2>4, <2>5
<1>8. CASE ListSlots(p)
  <2>1. PICK m : m = [s EXCEPT !.pc = "open", !.target = NextNumber(r.slots)]
    OBVIOUS
  <2>2. m.id = s.id /\ m.run = s.run /\ m.command = s.command /\ m.world = s.world
        /\ m.pc = "open"
    BY <1>1, <2>1 DEF Found, Shaped, Idle
  <2>3. proc' = [proc EXCEPT ![p] = m] /\ s.pc = "slot"
    BY <1>4, <1>8, <2>1 DEF ListSlots, At, Run, IInv, Base
  <2>4. Trains(m, r, world, begun)
    BY <1>2, <1>3, <2>2, <2>3 DEF Trains, Training, Configures
  <2> QED  BY <1>5, <2>2, <2>3, <2>4
<1>9. ASSUME NEW to \in {"slot", "measure"}, Goto(p, to),
             s.pc = "open" \/ s.command[1].step = 0
      PROVE  Led(p)
  <2>1. PICK m : m = [s EXCEPT !.pc = to]
    OBVIOUS
  <2>2. m.id = s.id /\ m.run = s.run /\ m.command = s.command /\ m.world = s.world /\ m.pc = to
    BY <1>1, <2>1 DEF Found, Shaped, Idle
  <2>3. proc' = [proc EXCEPT ![p] = m]
    BY <1>4, <1>9, <2>1 DEF Goto, IInv, Base
  <2>4. Trains(m, r, world, begun)
    BY <1>2, <1>3, <1>9, <2>2 DEF Trains, Training, Configures
  <2> QED  BY <1>5, <2>2, <2>3, <2>4
<1>10. CASE MakeSlot(p)
  <2>1. s.pc = "open" /\ (Goto(p, "slot") \/ Goto(p, "measure"))
    BY <1>4, <1>10 DEF MakeSlot, At
  <2> QED  BY <1>9, <2>1
<1>11. CASE Calibrate(p)
  <2>1. s.pc = "calibrate" /\ (Goto(p, "measure") \/ End(p))
    BY <1>4, <1>11 DEF Calibrate, At, Require
  <2>2. s.command[1].stage = "calibrate"
    BY <1>1, <2>1 DEF Found, Placed
  <2>3. s.command[1].step = 0
    BY <1>3, <2>2 DEF Asked
  <2> QED  BY <1>9, <2>1, <2>3, EndLeads
<1>12. CASE Measure(p)
  BY <1>12, EndLeads DEF Measure
<1> QED  BY <1>6, <1>7, <1>8, <1>10, <1>11, <1>12

\* A trainer starts that has read the configuration of its own attempt, or of one that has
\* overtaken it (sft.train.train, rl.train.launch).
LEMMA StartingLeads ==
    ASSUME IInv, ProvInv, NEW p \in Processes, StartTrainer(p)
    PROVE  Led(p)
<1>1. PICK s, r : Found(p, "launch", s, r)
  BY Finds DEF StartTrainer
<1>2. Trains(s, r, world, begun) /\ RunTrained(r, begun) /\ s.pc = "launch"
  BY <1>1, FindsTrains DEF Found
<1>3. s = proc[p] /\ r = runs[s.run]
  BY <1>1 DEF Found, State
<1>4. PICK m : m = [s EXCEPT !.pc = "trainer", !.at = 1, !.config = r.config]
  OBVIOUS
<1>5. /\ m.pc = "trainer" /\ m.at = 1 /\ m.config = r.config /\ m.id = s.id
      /\ m.run = s.run /\ m.command = s.command
  BY <1>1, <1>4 DEF Found, Shaped, Idle
<1>6. proc' = [proc EXCEPT ![p] = m]
  BY <1>3, <1>4 DEF StartTrainer, Run, IInv, Base
<1>7. PICK b \in r.attempts : r.config = <<b.config>>
  <2>1. r.config # Absent /\ Configured(r)
    BY <1>2 DEF Trains, Configures, RunTrained
  <2> QED  BY <2>1 DEF Configured
<1>8. ASSUME NEW a \in r.attempts, b.config # a.config
      PROVE  Overtaken(r, a)
  <2>1. r.config # <<a.config>>
    BY <1>7, <1>8
  <2> QED  BY <1>7, <1>8, <2>1 DEF Overtaken
<1>9. Configures(m, r)
  BY <1>5, <1>7, <1>8 DEF Configures
<1>10. Trains(m, r, world, begun)
  BY <1>2, <1>5, <1>9 DEF Trains, Training
<1>11. m.pc \notin Attempting \cup Unsaved
  BY <1>5 DEF Attempting, Unsaved
<1> QED  BY <1>3, <1>5, <1>6, <1>10, <1>11 DEF Led, Leads

\* Steps that leave what is trained alone keep what is known of trainings.
LEMMA LeftStepsInv ==
    ASSUME IInv, AttemptInv, ProvInv, NEW p \in Processes, LeftSteps(p)
    PROVE  ProvInv'
<1>1. Led(p)
  BY PreparingLeads, TrainingLeads, ClaimingLeads, StartingLeads, ChoosingLeads,
     EvaluatingLeads DEF LeftSteps
<1>2. proc[p].pc # "idle" /\ UNCHANGED <<outside, begun>>
  BY DEF LeftSteps, At, ListRuns, MakeRun, CopyInputs, Prepare, Identify, RecordPreparation, Reuse,
     Render, Train, VerifyAdapter, TrainRl, ClaimTraining, StartTrainer, TrainerEnds, Evaluate,
     Select, SelectRl, CheckpointModel, ListSlots, MakeSlot, Calibrate, Measure
<1> QED  BY <1>1, <1>2, LeftRuns, LeftInv

-----------------------------------------------------------------------------
(* Steps that write what is trained.                                       *)

\* A step of p from s to m makes its run new out of r.
Grows(p, s, r, m, new) ==
    /\ proc' = [proc EXCEPT ![p] = m] /\ runs' = [runs EXCEPT ![s.run] = new]
    /\ RunTrained(new, begun) /\ Grown(r, new, s.id)
    /\ m.pc # "idle" =>
          /\ m.id = s.id /\ m.command = s.command /\ m.run = s.run
          /\ Trains(m, new, world, begun)
          /\ m.pc \in Unsaved => s.pc \in Unsaved
          /\ m.pc \in Attempting => s.pc \in Attempting
    /\ \A k \in 1 .. Steps : new.checkpoints[k] # Absent =>
          \/ new.checkpoints[k] = r.checkpoints[k]
          \/ s.pc = "trainer" /\ m.pc = "trainer" /\ new.checkpoints[k][1].by = s.id
    /\ method = "sft" /\ r.outcome = "complete" => new.outcome = "complete"
    /\ new.identity # r.identity =>
          s.pc = "attempt" /\ new.identity[1].source = s.command[1].source

\* What such a step leaves to others is enough for them.
LEMMA GrowInv ==
    ASSUME IInv, ProvInv, NEW p \in Processes, NEW pc, NEW s, NEW r, NEW m, NEW new,
           pc # "idle", Found(p, pc, s, r), Grows(p, s, r, m, new)
    PROVE  ProvInv'
<1>1. /\ s = proc[p] /\ r = runs[s.run] /\ s.run \in Numbers /\ s.pc # "idle"
      /\ begun' = begun /\ begun \in Nat /\ begun <= begun /\ UNCHANGED <<method, world>>
  BY NumberFacts DEF Found, State, outside
<1>2. ASSUME NEW q \in Processes \ {p}, proc[q].pc # "idle", proc[q].run = s.run
      PROVE  Trains(proc[q], new, world, begun)
  <2>1. Trains(proc[q], r, world, begun) /\ proc[q].id # s.id
    BY <1>1, <1>2 DEF ProvInv
  <2>2. Grown(r, new, s.id)
    BY DEF Grows
  <2> QED  BY <1>1, <2>1, <2>2, GrownTrains
<1>3. m.pc \notin {"idle"} \/ m.pc \notin Attempting
  BY DEF Attempting
<1>4. m.pc \in Attempting /\ m.command[1].source # Absent =>
         proc[p].pc \in Attempting /\ m.command = proc[p].command
  BY <1>1, <1>3 DEF Grows
<1>5. m.pc # "idle" =>
         /\ Trains(m, IF m.run = s.run THEN new ELSE runs[m.run], world, begun')
         /\ m.id = proc[p].id
         /\ m.pc \in Unsaved => proc[p].pc \in Unsaved
  BY <1>1 DEF Grows
<1>6. \A k \in 1 .. Steps : new.checkpoints[k] # Absent =>
          \/ new.checkpoints[k] = runs[s.run].checkpoints[k]
          \/ proc[p].pc = "trainer" /\ m.pc = "trainer" /\ new.checkpoints[k][1].by = m.id
  BY <1>1 DEF Grows
<1>7. /\ proc' = [proc EXCEPT ![p] = m] /\ runs' = [runs EXCEPT ![s.run] = new]
      /\ RunTrained(new, begun')
      /\ method = "sft" /\ runs[s.run].outcome = "complete" => new.outcome = "complete"
      /\ new.identity # runs[s.run].identity =>
            proc[p].pc = "attempt" /\ new.identity[1].source = proc[p].command[1].source
  BY <1>1 DEF Grows
<1>8. Advances(p, s.run, new, m)
  BY <1>1, <1>2, <1>4, <1>5, <1>6, <1>7 DEF Advances
<1> QED  BY <1>1, <1>8, AdvanceInv

\* Ending needs nothing.
LEMMA EndGrows == Idle.pc = "idle" /\ Idle.pc \notin Unsaved \cup Attempting
BY DEF Idle, Unsaved, Attempting

\* The rows of a report are packed again as they are (sft.dataset.prepare_dataset).
LEMMA PackProv == ASSUME IInv, ProvInv, NEW p \in Processes, Pack(p) PROVE ProvInv'
<1>1. PICK s, r : Found(p, "pack", s, r)
  BY Finds DEF Pack
<1>2. Trains(s, r, world, begun) /\ RunTrained(r, begun)
  BY <1>1, FindsTrains
<1>3. PICK split : split = Splits[s.at] /\ split \in {"training", "validation"}
  BY <1>1, SplitFacts DEF Found, Placed
<1>4. PICK m : m = IF s.at < Len(Splits) THEN [s EXCEPT !.pc = "render", !.at = @ + 1]
                   ELSE [s EXCEPT !.pc = "report"]
  OBVIOUS
<1>5. PICK new : new = [r EXCEPT !.packed = [r.packed EXCEPT ![split] = r.rendered[split]]]
  OBVIOUS
<1>6. proc' = [proc EXCEPT ![p] = m] /\ runs' = [runs EXCEPT ![s.run] = new]
  BY <1>1, <1>3, <1>4, <1>5 DEF Found, State, Pack, Goto, Write, Run, IInv, Shapes
<1>7. /\ m.pc \in {"render", "report"} /\ m.id = s.id /\ m.command = s.command
      /\ m.run = s.run
  BY <1>1, <1>4 DEF Found, Shaped, Idle
<1>8. /\ new.packed = [r.packed EXCEPT ![split] = r.rendered[split]]
      /\ new.report = r.report /\ new.snapshot = r.snapshot /\ new.identity = r.identity
      /\ new.config = r.config /\ new.attempts = r.attempts
      /\ new.checkpoints = r.checkpoints /\ new.adapters = r.adapters
      /\ new.outcome = r.outcome /\ new.inputs = r.inputs
  BY <1>1, <1>5 DEF Found, Shaped, NoRun
<1>9. r.report = <<r.packed>> => new.packed = r.packed
  <2>1. r.dataset = <<s.inputs, s.world>> /\ r.dataset \notin {Absent, Bare}
        /\ r.rendered[split] = s.world
    BY <1>1, <1>3, Identified DEF Found, Placed, Preparing
  <2>2. r.report # Absent => r.report[1][split] = s.world
    BY <1>1, <1>3, <2>1 DEF Found, RunStands
  <2>3. r.report = <<r.packed>> => r.report # Absent /\ r.report[1] = r.packed
    BY DEF Absent
  <2>4. r.packed = [t \in {"training", "validation"} |-> r.packed[t]]
    BY <1>2 DEF RunTrained
  <2> QED  BY <1>3, <1>8, <2>1, <2>2, <2>3, <2>4
<1>10. RunTrained(new, begun)
  <2>1. new.packed = [t \in {"training", "validation"} |-> new.packed[t]]
    BY <1>2, <1>8 DEF RunTrained
  <2>2. Configured(new)
    BY <1>2, <1>8, ConfiguredSame DEF RunTrained
  <2> QED  BY <1>2, <1>8, <2>1, <2>2 DEF RunTrained
<1>11. Grown(r, new, s.id)
  BY <1>8, <1>9 DEF Grown, Attempted
<1>12. Trains(m, new, world, begun)
  BY <1>2, <1>7, RestingTrains DEF Resting
<1>13. m.pc \notin Unsaved \cup Attempting
  BY <1>7 DEF Unsaved, Attempting
<1>14. Grows(p, s, r, m, new)
  BY <1>6, <1>7, <1>8, <1>10, <1>11, <1>12, <1>13 DEF Grows
<1> QED  BY <1>1, <1>14, GrowInv

\* A report names what is packed; one that does already is the same.
LEMMA ReportProv == ASSUME IInv, ProvInv, NEW p \in Processes, ReportPreparation(p) PROVE ProvInv'
<1>1. PICK s, r : Found(p, "report", s, r)
  BY Finds DEF ReportPreparation
<1>2. RunTrained(r, begun)
  BY <1>1, FindsTrains
<1>3. PICK new : new = [r EXCEPT !.report = <<r.packed>>]
  OBVIOUS
<1>4. proc' = [proc EXCEPT ![p] = Idle] /\ runs' = [runs EXCEPT ![s.run] = new]
  BY <1>1, <1>3 DEF Found, State, ReportPreparation, End, Write, Run, IInv, Shapes
<1>5. /\ new.packed = r.packed /\ new.snapshot = r.snapshot /\ new.identity = r.identity
      /\ new.config = r.config /\ new.attempts = r.attempts
      /\ new.checkpoints = r.checkpoints /\ new.adapters = r.adapters
      /\ new.outcome = r.outcome /\ new.inputs = r.inputs /\ new.report = <<r.packed>>
  BY <1>1, <1>3 DEF Found, Shaped, NoRun
<1>6. RunTrained(new, begun) /\ Grown(r, new, s.id)
  <2>1. Configured(new)
    BY <1>2, <1>5, ConfiguredSame DEF RunTrained
  <2> QED  BY <1>2, <1>5, <2>1 DEF RunTrained, Grown, Attempted
<1>7. Grows(p, s, r, Idle, new)
  BY <1>4, <1>5, <1>6, EndGrows DEF Grows
<1> QED  BY <1>1, <1>7, GrowInv

\* What is copied is what was verified, or the process ends
\* (sft.train.initialization_source).
LEMMA CopyProv == ASSUME IInv, ProvInv, NEW p \in Processes, CopyAdapter(p) PROVE ProvInv'
<1>1. PICK s, r : Found(p, "snapshot", s, r)
  BY Finds DEF CopyAdapter
<1>2. Trains(s, r, world, begun) /\ RunTrained(r, begun)
  BY <1>1, FindsTrains
<1>3. PICK new : new = IF r.snapshot = Absent
                       THEN [r EXCEPT !.training = TRUE, !.snapshot = <<adapter>>] ELSE r
  OBVIOUS
<1>4. runs' = [runs EXCEPT ![s.run] = new]
  <2>1. s = proc[p] /\ r = runs[s.run] /\ s.run \in Numbers
    BY <1>1 DEF Found, State
  <2> QED  BY <1>3, <2>1 DEF CopyAdapter, Run, IInv, Base, Shapes
<1>5. PICK m : /\ proc' = [proc EXCEPT ![p] = m]
               /\ \/ m = Idle
                  \/ m = [s EXCEPT !.pc = "attempt"] /\ r.snapshot = Absent /\ adapter = s.adapter
  BY <1>1 DEF CopyAdapter, Require, End, Goto, Found, State, Run, IInv, Base
<1>6. /\ new.packed = r.packed /\ new.report = r.report /\ new.identity = r.identity
      /\ new.config = r.config /\ new.attempts = r.attempts
      /\ new.checkpoints = r.checkpoints /\ new.adapters = r.adapters
      /\ new.outcome = r.outcome /\ new.inputs = r.inputs
      /\ new.snapshot = IF r.snapshot = Absent THEN <<adapter>> ELSE r.snapshot
  BY <1>1, <1>3 DEF Found, Shaped, NoRun
<1>7. RunTrained(new, begun) /\ Grown(r, new, s.id)
  <2>1. Configured(r)
    BY <1>2 DEF RunTrained
  <2>2. Configured(new)
    <3>1. CASE new.snapshot = r.snapshot
      BY <1>6, <2>1, <3>1, ConfiguredSame
    <3>2. CASE new.snapshot # r.snapshot
      <4>1. ASSUME NEW a \in r.attempts
            PROVE  ~a.config.initial
        BY <1>6, <2>1, <3>2 DEF Configured
      <4>2. \A a \in r.attempts :
               /\ InitialOf(a.config, new.snapshot) = InitialOf(a.config, r.snapshot)
               /\ \A c : Uses(c, a.config, r.snapshot) => Uses(c, a.config, new.snapshot)
               /\ Overtaken(r, a) => Overtaken(new, a)
        BY <1>6, <4>1 DEF InitialOf, Uses, Overtaken
      <4>3. ASSUME NEW i, i = r.identity[1], r.identity # Absent
            PROVE  i.initial = InitialOf(i.config, new.snapshot)
        BY <2>1, <4>2, <4>3 DEF Configured
      <4> QED  BY <1>6, <2>1, <4>1, <4>2, <4>3 DEF Configured
    <3> QED  BY <3>1, <3>2
  <2> QED  BY <1>2, <1>6, <2>2 DEF RunTrained, Grown, Attempted
<1>8. CASE m = Idle
  <2>1. Grows(p, s, r, m, new)
    BY <1>4, <1>5, <1>6, <1>7, <1>8, EndGrows DEF Grows
  <2> QED  BY <1>1, <2>1, GrowInv
<1>9. CASE m # Idle
  <2>1. /\ m.pc = "attempt" /\ m.id = s.id /\ m.command = s.command /\ m.run = s.run
        /\ m.adapter = s.adapter
    BY <1>1, <1>5, <1>9 DEF Found, Shaped, Idle
  <2>2. s.pc = "snapshot" /\ new.snapshot = <<m.adapter>>
    BY <1>1, <1>5, <1>6, <1>9, <2>1 DEF Found
  <2>3. Trains(m, new, world, begun)
    BY <1>2, <1>6, <2>1, <2>2 DEF Trains, Training, Configures
  <2>4. s.pc \in Unsaved /\ s.pc \in Attempting
    BY <2>2 DEF Unsaved, Attempting
  <2>5. Grows(p, s, r, m, new)
    BY <1>4, <1>5, <1>6, <1>7, <2>1, <2>3, <2>4 DEF Grows
  <2> QED  BY <1>1, <2>5, GrowInv
<1> QED  BY <1>8, <1>9

\* Who has saved nothing leaves the checkpoints of others as their settings say, or their
\* settings overtaken.
LEMMA ConfiguredGrows ==
    ASSUME NEW r, NEW new, NEW by, Configured(r), Attempted(r, new, by),
           new.checkpoints = r.checkpoints, new.snapshot = r.snapshot,
           \A k \in 1 .. Steps : r.checkpoints[k] # Absent => r.checkpoints[k][1].by # by,
           \A a \in new.attempts : a.by = by /\ a.config.initial => r.snapshot # Absent,
           \/ new.identity = r.identity
           \/ LET i == new.identity[1]
              IN  /\ \E a \in new.attempts : a.by = i.by /\ a.config = i.config
                  /\ i.initial = InitialOf(i.config, r.snapshot) /\ i.source = i.config.source
    PROVE  Configured(new)
<1>1. ASSUME NEW i, i = new.identity[1], new.identity # Absent
      PROVE  /\ \E a \in new.attempts : a.by = i.by /\ a.config = i.config
             /\ i.initial = InitialOf(i.config, new.snapshot) /\ i.source = i.config.source
  BY <1>1 DEF Configured, Attempted
<1>2. new.config # Absent => \E a \in new.attempts : new.config = <<a.config>>
  BY DEF Configured, Attempted
<1>3. \A a \in new.attempts : a.config.initial => new.snapshot # Absent
  BY DEF Configured, Attempted
<1>4. ASSUME NEW k \in 1 .. Steps, NEW c, c = new.checkpoints[k][1], new.checkpoints[k] # Absent,
             NEW a \in new.attempts, a.by = c.by
      PROVE  Uses(c, a.config, new.snapshot) \/ Overtaken(new, a)
  <2>1. a.by # by
    BY <1>4
  <2>2. a \in r.attempts
    BY <1>4, <2>1 DEF Attempted
  <2>3. Uses(c, a.config, r.snapshot) \/ Overtaken(r, a)
    BY <1>4, <2>2 DEF Configured
  <2> QED  BY <2>1, <2>3, OvertakenGrows
<1> QED  BY <1>1, <1>2, <1>3, <1>4 DEF Configured

\* An attempt is recorded with what its configuration will say, and before its checkpoints;
\* those of an earlier attempt are of the same rows and base (sft.train.train,
\* rl.train.train).
LEMMA RecordProv == ASSUME IInv, ProvInv, NEW p \in Processes, RecordAttempt(p) PROVE ProvInv'
<1>1. PICK s, r : Found(p, "attempt", s, r)
  BY Finds DEF RecordAttempt
<1>2. Trains(s, r, world, begun) /\ RunTrained(r, begun) /\ s.pc = "attempt"
  BY <1>1, FindsTrains DEF Found
<1>3. PICK i, a, new : /\ Recorded(s, r, i, a) /\ RecordedIn(r, new, i, a)
                       /\ runs' = [runs EXCEPT ![s.run] = new]
  BY <1>1, Records
<1>4. new.identity # Absent /\ new.identity[1] = i
  BY <1>3 DEF RecordedIn, Absent
<1>5. PICK m : m = [s EXCEPT !.pc = "configure"]
  OBVIOUS
<1>6. proc' = [proc EXCEPT ![p] = m]
  BY <1>1, <1>5 DEF RecordAttempt, Goto, Found, State, IInv, Base
<1>7. m.pc = "configure" /\ m.id = s.id /\ m.command = s.command /\ m.run = s.run
  BY <1>1, <1>5 DEF Found, Shaped, Idle
<1>8. method = "sft" => r.report = <<r.packed>>
  BY <1>2 DEF Trains, Training
<1>9. ASSUME NEW k \in 1 .. Steps, r.checkpoints[k] # Absent
      PROVE  Fits(r.checkpoints[k][1], i, begun) /\ r.checkpoints[k][1].by # s.id
  <2>1. r.identity # Absent /\ Fits(r.checkpoints[k][1], r.identity[1], begun)
    BY <1>2, <1>9 DEF RunTrained
  <2>2. /\ r.identity[1].base = world
        /\ method = "sft" => r.identity[1].report = r.report
    BY <1>2, <2>1 DEF Trains, Training
  <2>3. r.checkpoints[k][1].by # s.id
    BY <1>1, <1>2, <1>9 DEF ProvInv, Found, State, Unsaved
  <2> QED  BY <1>3, <2>1, <2>2, <2>3 DEF Fits, Recorded
<1>10. Attempted(r, new, s.id)
  BY <1>3 DEF Attempted, Recorded, RecordedIn
<1>11. Configured(new)
  <2>1. s.command[1].adapter => r.snapshot = <<s.adapter>>
    BY <1>2 DEF Trains
  <2>2. <<s.adapter>> # Absent
    BY DEF Absent
  <2>3. /\ i.initial = InitialOf(i.config, r.snapshot) /\ i.source = i.config.source
        /\ a.config.initial => r.snapshot # Absent
    BY <1>3, <2>1, <2>2 DEF Recorded, InitialOf
  <2>4. a \in new.attempts /\ a.by = i.by /\ a.config = i.config /\ a.by = s.id
    BY <1>3 DEF Recorded, RecordedIn
  <2>5. \A d \in new.attempts : d.config.initial => r.snapshot # Absent
    BY <1>2, <1>3, <2>3 DEF RunTrained, Configured, RecordedIn
  <2>6. Configured(r) /\ new.checkpoints = r.checkpoints /\ new.snapshot = r.snapshot
    BY <1>2, <1>3 DEF RunTrained, RecordedIn
  <2> QED  BY <1>4, <1>9, <1>10, <2>3, <2>4, <2>5, <2>6, ConfiguredGrows
<1>12. RunTrained(new, begun)
  <2>1. i.inputs = r.inputs
    BY <1>1, <1>3 DEF Found, Placed, Numbers, New, Recorded
  <2>2. method = "sft" => i.report # Absent
    <3>1. <<r.packed>> # Absent
      BY DEF Absent
    <3> QED  BY <1>3, <1>8, <3>1 DEF Recorded
  <2>3. i.source # Absent => method = "sft"
    BY <1>2, <1>3 DEF Trains, Asked, Recorded
  <2> QED  BY <1>2, <1>3, <1>4, <1>9, <1>11, <2>1, <2>2, <2>3 DEF RunTrained, RecordedIn
<1>13. Grown(r, new, s.id)
  BY <1>3, <1>4, <1>10 DEF Grown, Recorded, RecordedIn
<1>14. Trains(m, new, world, begun)
  <2>1. s.id \in 1 .. begun /\ Asked(s.command[1]) /\ s.command[1].stage = "train"
    BY <1>2 DEF Trains, Training
  <2>2. Configures(m, new)
    BY <1>3, <1>7 DEF Configures, Recorded, RecordedIn
  <2>3. i.base = world /\ (method = "sft" => i.report = r.report)
    BY <1>3 DEF Recorded
  <2>4. new.packed = r.packed /\ new.report = r.report
    BY <1>3 DEF RecordedIn
  <2> QED  BY <1>4, <1>7, <1>8, <2>1, <2>2, <2>3, <2>4 DEF Trains, Training
<1>15. m.pc \in Unsaved /\ s.pc \in Unsaved /\ m.pc \notin Attempting
  BY <1>2, <1>7 DEF Unsaved, Attempting
<1>16. /\ new.checkpoints = r.checkpoints /\ new.outcome = r.outcome
       /\ new.identity[1].source = s.command[1].source
  BY <1>3, <1>4 DEF Recorded, RecordedIn
<1>17. Grows(p, s, r, m, new)
  BY <1>2, <1>3, <1>6, <1>7, <1>12, <1>13, <1>14, <1>15, <1>16 DEF Grows
<1> QED  BY <1>1, <1>17, GrowInv

\* The configuration of an attempt takes the place of another's (sft.train.train,
\* rl.train.train).
LEMMA ConfigProv == ASSUME IInv, ProvInv, NEW p \in Processes, WriteConfig(p) PROVE ProvInv'
<1>1. PICK s, r : Found(p, "configure", s, r)
  BY Finds DEF WriteConfig
<1>2. Trains(s, r, world, begun) /\ RunTrained(r, begun) /\ s.pc = "configure"
  BY <1>1, FindsTrains DEF Found
<1>3. PICK a \in r.attempts : a.by = s.id /\ a.config = Configuration(p)
  BY <1>1, <1>2 DEF Trains, Configures, Configuration, Command, Found, State
<1>4. PICK new : new = [r EXCEPT !.config = <<a.config>>]
  OBVIOUS
<1>5. runs' = [runs EXCEPT ![s.run] = new]
  BY <1>1, <1>3, <1>4 DEF WriteConfig, Write, Found, State, IInv, Base
<1>6. PICK m : m = [s EXCEPT !.pc = "launch"]
  OBVIOUS
<1>7. proc' = [proc EXCEPT ![p] = m]
  BY <1>1, <1>6 DEF WriteConfig, Goto, Found, State, IInv, Base
<1>8. m.pc = "launch" /\ m.id = s.id /\ m.command = s.command /\ m.run = s.run
  BY <1>1, <1>6 DEF Found, Shaped, Idle
<1>9. /\ new.packed = r.packed /\ new.report = r.report /\ new.snapshot = r.snapshot
      /\ new.identity = r.identity /\ new.config = <<a.config>> /\ new.attempts = r.attempts
      /\ new.checkpoints = r.checkpoints /\ new.adapters = r.adapters
      /\ new.outcome = r.outcome /\ new.inputs = r.inputs
  BY <1>1, <1>4 DEF Found, Shaped, NoRun
<1>10. Attempted(r, new, s.id)
  BY <1>3, <1>9 DEF Attempted
<1>11. Configured(new)
  <2>1. \A k \in 1 .. Steps : r.checkpoints[k] # Absent => r.checkpoints[k][1].by # s.id
    BY <1>1, <1>2 DEF ProvInv, Found, State, Unsaved
  <2>2. Configured(r)
    BY <1>2 DEF RunTrained
  <2>3. \A d \in new.attempts : d.config.initial => r.snapshot # Absent
    BY <1>9, <2>2 DEF Configured
  <2> QED  BY <1>9, <1>10, <2>1, <2>2, <2>3, ConfiguredGrows
<1>12. RunTrained(new, begun)
  BY <1>2, <1>9, <1>11 DEF RunTrained
<1>13. Grown(r, new, s.id)
  BY <1>9, <1>10 DEF Grown
<1>14. Trains(m, new, world, begun)
  <2>1. <<a.config>> # Absent
    BY DEF Absent
  <2>2. Configures(m, new)
    BY <1>8, <1>9, <2>1 DEF Configures
  <2> QED  BY <1>2, <1>8, <1>9, <2>2 DEF Trains, Training
<1>15. m.pc \in Unsaved /\ s.pc \in Unsaved /\ m.pc \notin Attempting
  BY <1>2, <1>8 DEF Unsaved, Attempting
<1>16. Grows(p, s, r, m, new)
  BY <1>5, <1>7, <1>8, <1>9, <1>12, <1>13, <1>14, <1>15 DEF Grows
<1> QED  BY <1>1, <1>16, GrowInv

\* The trainer reads the rows and the base of the identity, and what the configuration that
\* it has read names.
LEMMA SaveProv == ASSUME IInv, ProvInv, NEW p \in Processes, SaveCheckpoint(p) PROVE ProvInv'
<1>1. PICK s, r : Found(p, "trainer", s, r)
  BY Finds DEF SaveCheckpoint
<1>2. Trains(s, r, world, begun) /\ RunTrained(r, begun) /\ s.pc = "trainer"
  BY <1>1, FindsTrains DEF Found
<1>3. PICK c : /\ c.by = s.id /\ c.rows = r.packed /\ c.base = world
               /\ Uses(c, s.config[1], r.snapshot)
               /\ runs' = [runs EXCEPT ![s.run].checkpoints =
                              [r.checkpoints EXCEPT ![s.at] = <<c>>]]
  <2> DEFINE j == [by |-> proc[p].id, rows |-> TrainerInput(p).rows,
                   base |-> TrainerInput(p).base, initial |-> TrainerInput(p).initial,
                   source |-> TrainerInput(p).source]
  <2>1. j.by = s.id /\ j.rows = r.packed /\ j.base = world /\ Uses(j, s.config[1], r.snapshot)
    BY <1>1 DEF TrainerInput, Uses, InitialOf, Found, State, Run
  <2>2. runs' = [runs EXCEPT ![s.run].checkpoints = [r.checkpoints EXCEPT ![s.at] = <<j>>]]
    BY <1>1 DEF SaveCheckpoint, Write, Found, State, Run
  <2> HIDE DEF j
  <2> QED  BY <2>1, <2>2
<1>4. s.at \in 1 .. Steps
  <2>1. s.at <= Steps /\ s.at \in Nat \ {0}
    BY <1>1, <1>2 DEF SaveCheckpoint, Found, State, Trains
  <2> QED  BY <2>1, ExperimentAssumption
<1>5. PICK new : new = [r EXCEPT !.checkpoints = [r.checkpoints EXCEPT ![s.at] = <<c>>]]
  OBVIOUS
<1>6. runs' = [runs EXCEPT ![s.run] = new]
  BY <1>1, <1>3, <1>5 DEF Found, State, IInv, Base
<1>7. PICK m : m = [s EXCEPT !.at = @ + 1]
  OBVIOUS
<1>8. proc' = [proc EXCEPT ![p] = m]
  BY <1>1, <1>7 DEF SaveCheckpoint, Found, State, IInv, Base
<1>9. /\ m.pc = "trainer" /\ m.at \in Nat \ {0} /\ m.id = s.id /\ m.command = s.command
      /\ m.run = s.run /\ m.config = s.config
  BY <1>1, <1>4, <1>7 DEF Found, Shaped, Idle
<1>10. /\ new.packed = r.packed /\ new.report = r.report /\ new.snapshot = r.snapshot
       /\ new.identity = r.identity /\ new.config = r.config /\ new.attempts = r.attempts
       /\ new.adapters = r.adapters
       /\ new.outcome = r.outcome /\ new.inputs = r.inputs
       /\ DOMAIN new.checkpoints = 1 .. Steps
       /\ \A k \in 1 .. Steps :
             new.checkpoints[k] = IF k = s.at THEN <<c>> ELSE r.checkpoints[k]
  BY <1>1, <1>2, <1>4, <1>5 DEF Found, Shaped, NoRun, RunTrained
<1>11. <<c>> # Absent /\ <<c>>[1] = c
  BY DEF Absent
<1>12. Fits(c, r.identity[1], begun)
  <2>1. /\ r.identity # Absent /\ r.identity[1].base = world /\ s.id \in 0 .. begun
        /\ method = "sft" => r.identity[1].report = <<r.packed>>
    <3>1. s.id \in 1 .. begun /\ r.identity # Absent
      BY <1>2 DEF Trains
    <3> QED  BY <1>2, <3>1 DEF Trains, Training
  <2> QED  BY <1>3, <2>1 DEF Fits
<1>13. Configured(new)
  <2>1. Configured(r)
    BY <1>2 DEF RunTrained
  <2>2. ASSUME NEW a
        PROVE  Overtaken(r, a) => Overtaken(new, a)
    BY <1>10 DEF Overtaken
  <2>3. ASSUME NEW a \in r.attempts, a.by = c.by
        PROVE  Uses(c, a.config, r.snapshot) \/ Overtaken(r, a)
    <3>1. s.config = <<a.config>> \/ Overtaken(r, a)
      BY <1>2, <1>3, <2>3 DEF Trains, Configures
    <3> QED  BY <1>3, <3>1
  <2>4. ASSUME NEW k \in 1 .. Steps, new.checkpoints[k] # Absent,
               NEW a \in r.attempts, a.by = new.checkpoints[k][1].by
        PROVE  Uses(new.checkpoints[k][1], a.config, r.snapshot) \/ Overtaken(new, a)
    <3>1. CASE k = s.at
      BY <1>10, <1>11, <2>2, <2>3, <2>4, <3>1
    <3>2. CASE k # s.at
      BY <1>10, <2>1, <2>2, <2>4, <3>2 DEF Configured
    <3> QED  BY <3>1, <3>2
  <2> QED  BY <1>10, <2>1, <2>4 DEF Configured
<1>14. RunTrained(new, begun)
  <2>1. r.identity # Absent
    BY <1>2 DEF Trains
  <2>2. ASSUME NEW k \in 1 .. Steps, new.checkpoints[k] # Absent
        PROVE  Fits(new.checkpoints[k][1], r.identity[1], begun)
    <3>1. CASE k = s.at
      BY <1>10, <1>11, <1>12, <3>1
    <3>2. CASE k # s.at
      BY <1>2, <1>10, <2>2, <3>2 DEF RunTrained
    <3> QED  BY <3>1, <3>2
  <2>3. new.outcome = "complete" => new.inputs # 0 /\ new.checkpoints[Steps] # Absent
    <3>1. Steps \in 1 .. Steps
      BY ExperimentAssumption
    <3> QED  BY <1>2, <1>10, <1>11, <3>1 DEF RunTrained
  <2> QED  BY <1>2, <1>10, <1>13, <2>1, <2>2, <2>3 DEF RunTrained
<1>15. Grown(r, new, s.id)
  BY <1>10, <1>11 DEF Grown, Attempted
<1>16. Trains(m, new, world, begun)
  <2>1. /\ s.id \in 1 .. begun /\ Asked(s.command[1]) /\ s.command[1].stage = "train"
        /\ r.identity # Absent /\ r.identity[1].base = world
        /\ method = "sft" => r.report = <<r.packed>> /\ r.identity[1].report = r.report
    BY <1>2 DEF Trains, Training
  <2>2. Configures(m, new)
    BY <1>2, <1>9, <1>10 DEF Trains, Configures, Overtaken
  <2> QED  BY <1>9, <1>10, <2>1, <2>2 DEF Trains, Training
<1>17. m.pc \notin Unsaved \cup Attempting
  BY <1>9 DEF Unsaved, Attempting
<1>18. \A k \in 1 .. Steps :
          new.checkpoints[k] = r.checkpoints[k] \/ new.checkpoints[k][1].by = s.id
  BY <1>3, <1>10, <1>11
<1>19. Grows(p, s, r, m, new)
  BY <1>2, <1>6, <1>8, <1>9, <1>10, <1>14, <1>15, <1>16, <1>17, <1>18 DEF Grows
<1> QED  BY <1>1, <1>19, GrowInv

\* A training is complete that has its final checkpoint; one of RL may end without
\* (sft.train.train, rl.train.train).
LEMMA OutcomeProv ==
    ASSUME IInv, ProvInv, NEW p \in Processes, LaunchEnds(p) \/ FinishTraining(p) \/ FinishRl(p)
    PROVE  ProvInv'
<1>1. PICK pc \in {"configure", "launch", "trainer", "finish"} : \E s, r : Found(p, pc, s, r)
  BY Finds DEF LaunchEnds, FinishTraining, FinishRl, At
<1>2. PICK s, r : Found(p, pc, s, r)
  BY <1>1
<1>3. Trains(s, r, world, begun) /\ RunTrained(r, begun) /\ s.pc = pc
  BY <1>2, FindsTrains DEF Found
<1>4. PICK v : /\ runs' = [runs EXCEPT ![s.run].outcome = v]
               /\ v \in {"partial", "complete", r.outcome}
               /\ v = "complete" /\ v # r.outcome => r.checkpoints[Steps] # Absent
               /\ method = "sft" => v = "complete"
  <2>1. s = proc[p] /\ r = runs[s.run] /\ s.run \in Numbers
    BY <1>2 DEF Found, State
  <2>2. CASE LaunchEnds(p)
    BY <2>1, <2>2 DEF LaunchEnds, Write
  <2>3. CASE FinishTraining(p)
    <3>1. r.checkpoints[Steps] # Absent
      BY <1>3, <2>1, <2>3 DEF FinishTraining, At, Trains
    <3> QED  BY <2>1, <2>3, <3>1 DEF FinishTraining, Write
  <2>4. CASE FinishRl(p)
    <3>1. CASE r.checkpoints[Steps] # Absent
      BY <2>1, <2>4, <3>1 DEF FinishRl, Write, Run
    <3>2. CASE r.checkpoints[Steps] = Absent
      <4>1. r = [f \in DOMAIN NoRun |-> r[f]]
        BY <1>2 DEF Found, Shaped
      <4>2. [r EXCEPT !.outcome = r.outcome] = r
        BY <4>1
      <4>3. runs' = [runs EXCEPT ![s.run].outcome = r.outcome]
        BY <2>1, <2>4, <3>2, <4>2 DEF FinishRl, Run, IInv, Base, Shapes
      <4> QED  BY <2>4, <4>3 DEF FinishRl
    <3> QED  BY <3>1, <3>2
  <2> QED  BY <2>2, <2>3, <2>4
<1>5. PICK new : new = [r EXCEPT !.outcome = v]
  OBVIOUS
<1>6. runs' = [runs EXCEPT ![s.run] = new]
  BY <1>2, <1>4, <1>5 DEF Found, State, IInv, Base
<1>7. /\ new.packed = r.packed /\ new.report = r.report /\ new.snapshot = r.snapshot
      /\ new.identity = r.identity /\ new.config = r.config /\ new.attempts = r.attempts
      /\ new.adapters = r.adapters
      /\ new.checkpoints = r.checkpoints /\ new.inputs = r.inputs /\ new.outcome = v
  BY <1>2, <1>5 DEF Found, Shaped, NoRun
<1>8. r.inputs # 0
  <2>1. r.inputs \in Versions
    BY <1>2 DEF Found, Placed, Numbers, New
  <2> QED  BY <2>1 DEF Versions
<1>9. RunTrained(new, begun)
  <2>1. Configured(new)
    BY <1>3, <1>7, ConfiguredSame DEF RunTrained
  <2> QED  BY <1>3, <1>4, <1>7, <1>8, <2>1 DEF RunTrained
<1>10. Grown(r, new, s.id)
  BY <1>7 DEF Grown, Attempted
<1>11. PICK m : /\ proc' = [proc EXCEPT ![p] = m]
                /\ m = Idle \/ (m = [s EXCEPT !.pc = "finish"] /\ method = "rl")
  BY <1>2 DEF LaunchEnds, FinishTraining, FinishRl, Require, End, Goto, Found, State, IInv, Base
<1>12. CASE m = Idle
  <2>1. Grows(p, s, r, m, new)
    BY <1>4, <1>6, <1>7, <1>9, <1>10, <1>11, <1>12, EndGrows DEF Grows
  <2> QED  BY <1>2, <2>1, GrowInv
<1>13. CASE m # Idle
  <2>1. /\ m.pc = "finish" /\ m.id = s.id /\ m.command = s.command /\ m.run = s.run
        /\ method = "rl"
    BY <1>2, <1>11, <1>13 DEF Found, Shaped, Idle
  <2>2. s.id \in 1 .. begun /\ Asked(s.command[1])
    BY <1>3 DEF Trains
  <2>3. Trains(m, new, world, begun)
    BY <2>1, <2>2 DEF Trains, Training, Configures
  <2>4. m.pc \notin Unsaved \cup Attempting
    BY <2>1 DEF Unsaved, Attempting
  <2>5. Grows(p, s, r, m, new)
    BY <1>4, <1>6, <1>7, <1>9, <1>10, <1>11, <2>1, <2>3, <2>4 DEF Grows
  <2> QED  BY <1>2, <2>5, GrowInv
<1> QED  BY <1>12, <1>13

\* An adapter is exported from its checkpoint, whose base is the one it is served on
\* (adapters.export.export_adapter).
LEMMA ExportProv == ASSUME IInv, ProvInv, NEW p \in Processes, Export(p) PROVE ProvInv'
<1>1. PICK s, r : Found(p, "export", s, r)
  BY Finds DEF Export
<1>2. Trains(s, r, world, begun) /\ RunTrained(r, begun) /\ s.pc = "export"
  BY <1>1, FindsTrains DEF Found
<1>3. PICK new : new = IF r.adapters[s.at] = Absent
                       THEN [r EXCEPT !.adapters = [r.adapters EXCEPT
                                         ![s.at] = r.checkpoints[s.at]]]
                       ELSE r
  OBVIOUS
<1>4. runs' = [runs EXCEPT ![s.run] = new]
  <2>1. s = proc[p] /\ r = runs[s.run] /\ s.run \in Numbers
    BY <1>1 DEF Found, State
  <2> QED  BY <1>3, <2>1 DEF Export, Write, Run, IInv, Base, Shapes
<1>5. PICK m : /\ proc' = [proc EXCEPT ![p] = m]
               /\ \/ m = Idle
                  \/ /\ r.adapters[s.at] = Absent
                     /\ m = [s EXCEPT !.pc = IF s.command[1].stage = "train"
                                             THEN "finish" ELSE "slot"]
  BY <1>1 DEF Export, AfterExport, Require, End, Goto, Found, State, Run, Command, IInv, Base
<1>6. s.at \in 1 .. Steps /\ r.checkpoints[s.at] # Absent
      /\ s.at = IF s.command[1].stage = "train" THEN Steps ELSE s.command[1].step
  BY <1>2 DEF Trains
<1>7. /\ new.packed = r.packed /\ new.report = r.report /\ new.snapshot = r.snapshot
      /\ new.identity = r.identity /\ new.config = r.config /\ new.attempts = r.attempts
      /\ new.checkpoints = r.checkpoints
      /\ new.outcome = r.outcome /\ new.inputs = r.inputs
      /\ DOMAIN new.adapters = 1 .. Steps
      /\ \A k \in 1 .. Steps :
            new.adapters[k] = IF k = s.at /\ r.adapters[s.at] = Absent
                              THEN r.checkpoints[s.at] ELSE r.adapters[k]
  BY <1>1, <1>2, <1>3, <1>6 DEF Found, Shaped, NoRun, RunTrained
<1>8. RunTrained(new, begun)
  <2>1. Configured(new)
    BY <1>2, <1>7, ConfiguredSame DEF RunTrained
  <2> QED  BY <1>2, <1>7, <2>1 DEF RunTrained
<1>9. Grown(r, new, s.id)
  BY <1>7 DEF Grown, Attempted
<1>10. CASE m = Idle
  <2>1. Grows(p, s, r, m, new)
    BY <1>4, <1>5, <1>7, <1>8, <1>9, <1>10, EndGrows DEF Grows
  <2> QED  BY <1>1, <2>1, GrowInv
<1>11. CASE m # Idle
  <2>1. /\ m.pc = IF s.command[1].stage = "train" THEN "finish" ELSE "slot"
        /\ m.id = s.id /\ m.command = s.command /\ m.run = s.run /\ m.world = s.world
    BY <1>1, <1>5, <1>11 DEF Found, Shaped, Idle
  <2>2. s.id \in 1 .. begun /\ Asked(s.command[1]) /\ s.world = world
    BY <1>2 DEF Trains
  <2>3. /\ new.adapters[s.at] = r.checkpoints[s.at]
        /\ r.checkpoints[s.at][1].base = world
    <3>1. r.identity # Absent /\ r.checkpoints[s.at][1].base = r.identity[1].base
      BY <1>2, <1>6 DEF RunTrained, Fits
    <3>2. r.identity[1].base = world
      BY <1>2, <3>1 DEF Trains
    <3> QED  BY <1>5, <1>6, <1>7, <1>11, <3>1, <3>2
  <2>4. Trains(m, new, world, begun)
    <3>1. CASE m.pc = "finish"
      BY <1>6, <1>7, <2>1, <2>2, <3>1 DEF Trains, Training, Configures
    <3>2. CASE m.pc = "slot"
      BY <1>6, <1>7, <2>1, <2>2, <2>3, <3>2 DEF Trains, Training, Configures
    <3> QED  BY <2>1, <3>1, <3>2
  <2>5. m.pc \notin Unsaved \cup Attempting /\ m.pc # "idle"
    BY <2>1 DEF Unsaved, Attempting
  <2>6. Grows(p, s, r, m, new)
    BY <1>4, <1>5, <1>7, <1>8, <1>9, <2>1, <2>4, <2>5 DEF Grows
  <2> QED  BY <1>1, <2>6, GrowInv
<1> QED  BY <1>10, <1>11

\* An invocation that ends leaves what is trained; in the run that is removed nobody has
\* trained, and nobody else is in it.
LEMMA FailProv ==
    ASSUME IInv, AttemptInv, ProvInv, NEW p \in Processes, Fail(p) \/ Kill(p)
    PROVE  ProvInv'
<1>1. proc[p].pc # "idle" /\ End(p) /\ UNCHANGED <<outside, begun>>
  BY DEF Fail, Kill
<1>2. CASE UNCHANGED runs
  <2>1. 0 \in Numbers /\ RunLeft(0)
    BY <1>2, NumberFacts, UnchangedLeft
  <2> QED  BY <1>1, <2>1, EndLeads, LeftInv
<1>3. CASE ~UNCHANGED runs
  <2>1. proc[p].pc = "copy" /\ Fail(p) /\ runs' = [runs EXCEPT ![proc[p].run] = NoRun]
    BY <1>3 DEF Fail, Kill
  <2>2. PICK s, r : Found(p, "copy", s, r)
    BY <2>1, Finds DEF Fail, At
  <2>3. /\ s = proc[p] /\ r = runs[s.run] /\ s.run \in Numbers /\ r.inputs = 0
    BY <2>2 DEF Found, State, Placed, Numbers, New
  <2>4. r.outcome # "complete"
    BY <2>3 DEF ProvInv, RunTrained
  <2>5. \A q \in Processes \ {p} : proc[q].run # s.run
    <3>1. Alone(s, r)
      BY <2>2, SoleOwner DEF Found, Numbers, New
    <3> QED  BY <2>3, <3>1 DEF Alone, IInv
  <2>6. /\ NoRun.packed = [t \in {"training", "validation"} |-> 0]
        /\ NoRun.checkpoints = [k \in 1 .. Steps |-> Absent]
        /\ NoRun.adapters = [k \in 1 .. Steps |-> Absent]
        /\ NoRun.identity = Absent /\ NoRun.config = Absent /\ NoRun.attempts = {}
        /\ NoRun.outcome = "none"
    BY SplitFacts DEF NoRun
  <2>7. RunTrained(NoRun, begun)
    BY <2>6 DEF RunTrained, Configured
  <2>8. UNCHANGED <<method, world>> /\ begun' = begun /\ begun \in Nat /\ begun <= begun
    BY <1>1, NumberFacts DEF outside
  <2>9. proc' = [proc EXCEPT ![p] = Idle] /\ runs' = [runs EXCEPT ![s.run] = NoRun]
    BY <1>1, <2>1, <2>3 DEF End
  <2>10. Advances(p, s.run, NoRun, Idle)
    BY <2>3, <2>4, <2>5, <2>6, <2>7, <2>8, <2>9, EndGrows DEF Advances
  <2> QED  BY <2>3, <2>10, AdvanceInv
<1> QED  BY <1>2, <1>3

\* A new invocation has a number of its own and has found nothing yet
\* (experiment.run.validate_stage).
LEMMA InvokeProv == ASSUME IInv, ProvInv, NEW p \in Processes, Invoke(p) PROVE ProvInv'
<1>1. PICK c \in Commands :
         /\ ValidStage(c)
         /\ proc' = [proc EXCEPT ![p] =
               [Idle EXCEPT !.pc = IF c.run = New THEN "list" ELSE c.stage,
                            !.id = begun + 1, !.command = <<c>>, !.run = c.run,
                            !.inputs = current]]
  BY DEF Invoke
<1>2. PICK m : m = [Idle EXCEPT !.pc = IF c.run = New THEN "list" ELSE c.stage,
                                !.id = begun + 1, !.command = <<c>>, !.run = c.run,
                                !.inputs = current]
  OBVIOUS
<1>3. c.stage \in {"prepare", "train", "evaluate", "calibrate"}
  <2>1. method \in {"sft", "rl", "eval", "calibrate"}
    BY ExperimentAssumption DEF IInv, Base
  <2>2. ToSet(METHOD_STAGES[method]) \subseteq {"prepare", "train", "evaluate", "calibrate"}
    BY <2>1 DEF METHOD_STAGES, ToSet
  <2> QED  BY <1>1, <2>2 DEF ValidStage
<1>4. /\ m.id = begun + 1 /\ m.command[1] = c
      /\ m.pc = IF c.run = New THEN "list" ELSE c.stage
  BY <1>2 DEF Idle
<1>5. /\ proc' = [proc EXCEPT ![p] = m] /\ runs' = [runs EXCEPT ![0] = runs[0]]
      /\ 0 \in Numbers /\ begun \in Nat /\ begun' = begun + 1 /\ UNCHANGED <<method, world>>
      /\ begun' \in Nat /\ begun <= begun'
  <2>1. 0 \in Numbers /\ begun \in Nat
    BY NumberFacts
  <2>2. begun' = begun + 1 /\ UNCHANGED <<method, world>>
    BY DEF Invoke, outside
  <2>3. proc' = [proc EXCEPT ![p] = m]
    BY <1>1, <1>2
  <2>4. runs' = [runs EXCEPT ![0] = runs[0]]
    BY <2>1 DEF Invoke, IInv, Shapes
  <2> QED  BY <2>1, <2>2, <2>3, <2>4
<1>6. Asked(c)
  BY <1>1 DEF ValidStage, Asked
<1>7. \A r : Trains(m, r, world, begun + 1)
  <2>1. m.pc \in {"list", "prepare", "train", "evaluate", "calibrate"}
        /\ (m.pc \in {"train", "evaluate"} => c.stage = m.pc)
    BY <1>3, <1>4
  <2> QED  BY <1>4, <1>5, <1>6, <2>1 DEF Trains, Training, Configures
<1>8. RunTrained(runs[0], begun + 1)
  <2>1. RunTrained(runs[0], begun)
    BY <1>5 DEF ProvInv
  <2> QED  BY <1>5, <2>1, TrainedLater
<1>9. ASSUME NEW q \in Processes \ {p}, proc[q].pc # "idle", proc[q].run = 0
      PROVE  Trains(proc[q], runs[0], world, begun + 1)
  <2>1. Trains(proc[q], runs[0], world, begun)
    BY <1>9 DEF ProvInv
  <2>2. proc[q].id # begun + 1
    <3>1. proc[q].id \in 1 .. begun
      BY <2>1 DEF Trains
    <3> QED  BY <1>5, <3>1
  <2>3. Grown(runs[0], runs[0], begun + 1)
    BY DEF Grown, Attempted
  <2>4. begun + 1 \in Nat /\ begun <= begun + 1
    BY <1>5
  <2> QED  BY <1>5, <2>1, <2>2, <2>3, <2>4, GrownTrains
<1>10. m.pc \notin Attempting
  BY <1>3, <1>4 DEF Attempting
<1>11. Advances(p, 0, runs[0], m)
  BY <1>4, <1>5, <1>7, <1>8, <1>9, <1>10 DEF Advances
<1> QED  BY <1>5, <1>11, AdvanceInv

\* What no process does: the base is replaced, and rows edited, when nobody trains.
LEMMA OutsideProv ==
    ASSUME IInv, ProvInv, EditInputs \/ Upgrade \/ EditAdapter \/ EditRows \/ UNCHANGED vars
    PROVE  ProvInv'
<1>1. UNCHANGED <<method, begun, proc>> /\ Numbers' = Numbers
  BY DEF EditInputs, Upgrade, EditAdapter, EditRows, vars, outside, Numbers
<1>2. ASSUME NEW n \in Numbers
      PROVE  /\ runs'[n].identity = runs[n].identity
             /\ runs'[n].checkpoints = runs[n].checkpoints
             /\ runs'[n].outcome = runs[n].outcome
             /\ RunTrained(runs'[n], begun)
  <2>1. RunTrained(runs[n], begun)
    BY DEF ProvInv
  <2>2. CASE UNCHANGED runs
    BY <2>1, <2>2
  <2>3. CASE EditRows
    <3>1. PICK k \in Numbers, t \in {"training", "validation"} :
             runs' = [runs EXCEPT ![k].packed[t] = Edited]
      BY <2>3, SplitFacts DEF EditRows
    <3>2. PICK r : r = runs[k]
      OBVIOUS
    <3>3. PICK new : new = [r EXCEPT !.packed = [r.packed EXCEPT ![t] = Edited]]
      OBVIOUS
    <3>4. r = [f \in DOMAIN NoRun |-> r[f]] /\ RunTrained(r, begun)
      BY <3>2 DEF IInv, Shapes, ProvInv
    <3>5. /\ new.packed = [r.packed EXCEPT ![t] = Edited]
          /\ new.identity = r.identity /\ new.checkpoints = r.checkpoints
          /\ new.config = r.config /\ new.attempts = r.attempts /\ new.snapshot = r.snapshot
          /\ new.adapters = r.adapters /\ new.outcome = r.outcome /\ new.inputs = r.inputs
      BY <3>3, <3>4 DEF NoRun
    <3>6. RunTrained(new, begun)
      <4>1. r.packed = [u \in {"training", "validation"} |-> r.packed[u]]
        BY <3>4 DEF RunTrained
      <4>2. new.packed = [u \in {"training", "validation"} |-> new.packed[u]]
        BY <3>5, <4>1
      <4>3. Configured(new)
        BY <3>4, <3>5, ConfiguredSame DEF RunTrained
      <4> QED  BY <3>4, <3>5, <4>2, <4>3 DEF RunTrained
    <3>7. runs'[n] = IF n = k THEN new ELSE runs[n]
      BY <3>1, <3>2, <3>3, <3>4 DEF IInv, Base, NoRun
    <3> QED  BY <2>1, <3>2, <3>5, <3>6, <3>7
  <2> QED  BY <2>2, <2>3 DEF EditInputs, Upgrade, EditAdapter, vars
<1>3. ASSUME NEW n \in Numbers PROVE RunTrained(runs[n], begun)'
  BY <1>1, <1>2 DEF RunTrained, Fits, Configured, Overtaken, Uses, InitialOf
<1>4. ASSUME NEW q \in Processes, proc[q].pc # "idle"
      PROVE  Trains(proc[q], runs[proc[q].run], world, begun)'
  <2>1. ~EditRows /\ ~Upgrade
    BY <1>4 DEF EditRows, Upgrade, Quiet
  <2>2. UNCHANGED <<runs, world>>
    BY <2>1 DEF EditInputs, EditAdapter, vars, outside
  <2>3. Trains(proc'[q], runs'[proc'[q].run], world, begun')
    BY <1>1, <1>4, <2>2 DEF ProvInv
  <2>4. method' = method /\ world' = world
    BY <1>1, <2>2
  <2> QED  BY <2>3, <2>4 DEF Trains, Asked, Configures, Overtaken
<1>5. \A q \in Processes : proc[q].pc \in Unsaved =>
         \A n \in Numbers : \A k \in 1 .. Steps :
            runs'[n].checkpoints[k] # Absent => runs'[n].checkpoints[k][1].by # proc[q].id
  BY <1>2 DEF ProvInv
<1>6. Sourced'
  <2>1. \A k : Complete(k, runs) => Complete(k, runs)'
    BY <1>1, <1>2 DEF Complete
  <2>2. \A n \in Numbers : runs[n].identity # Absent /\ runs[n].identity[1].source # Absent =>
           Complete(runs[n].identity[1].source[1], runs)
    BY DEF ProvInv, Sourced
  <2>3. \A n \in Numbers' : runs'[n].identity = runs[n].identity /\ n \in Numbers
    BY <1>1, <1>2
  <2>4. \A q \in Processes :
           proc[q].pc \in Attempting /\ proc[q].command[1].source # Absent =>
              Complete(proc[q].command[1].source[1], runs)
    BY DEF ProvInv, Sourced
  <2> QED  BY <1>1, <2>1, <2>2, <2>3, <2>4 DEF Sourced
<1> QED  BY <1>1, <1>3, <1>4, <1>5, <1>6 DEF ProvInv

\* Every step keeps what is known of trainings.
LEMMA NextProv == ASSUME IInv, AttemptInv, ProvInv, [Next]_vars PROVE ProvInv'
<1>1. ASSUME NEW p \in Processes, Step(p) PROVE ProvInv'
  BY <1>1, LeftStepsInv, PackProv, ReportProv, CopyProv, RecordProv, ConfigProv, SaveProv,
     OutcomeProv, ExportProv DEF Step, LeftSteps
<1> QED  BY <1>1, InvokeProv, FailProv, OutsideProv DEF Next

\* The training of an earlier invocation used what it is recorded to have used.
LEMMA InitProv == Init => ProvInv
<1> SUFFICES ASSUME Init PROVE ProvInv
  OBVIOUS
<1>1. PICK past \in {NoRun} \cup Past[method] :
         runs = [n \in Numbers |-> IF n = 0 THEN past ELSE NoRun]
  BY DEF Init
<1>2. method \in {"sft", "rl", "eval", "calibrate"} /\ begun = 0
  BY ExperimentAssumption DEF Init
<1>3. past = NoRun \/ past = PreparedRun \/ (past = TrainedRun /\ method = "sft")
      \/ (past = TrainedByRl /\ method = "rl")
  BY <1>1, <1>2 DEF Past
<1>4. Steps \in 1 .. Steps
  BY ExperimentAssumption
<1>5. /\ NoRun.packed = [t \in {"training", "validation"} |-> 0]
      /\ NoRun.checkpoints = [k \in 1 .. Steps |-> Absent]
      /\ NoRun.adapters = [k \in 1 .. Steps |-> Absent]
      /\ NoRun.identity = Absent /\ NoRun.config = Absent /\ NoRun.attempts = {}
      /\ NoRun.outcome = "none"
  BY SplitFacts DEF NoRun
<1>6. /\ PreparedRun.packed = [t \in {"training", "validation"} |-> 1]
      /\ PreparedRun.checkpoints = [k \in 1 .. Steps |-> Absent]
      /\ PreparedRun.adapters = [k \in 1 .. Steps |-> Absent]
      /\ PreparedRun.identity = Absent /\ PreparedRun.config = Absent
      /\ PreparedRun.attempts = {} /\ PreparedRun.outcome = "none"
      /\ PreparedRun.inputs = 1
      /\ PreparedRun.report = <<[t \in {"training", "validation"} |-> 1]>>
  BY SplitFacts, <1>5 DEF PreparedRun, NoRun
<1>7. PICK g, c, i :
         /\ g = [initial |-> FALSE, source |-> Absent]
         /\ c = [by |-> 0, rows |-> PreparedRun.packed, base |-> 1, initial |-> 0,
                 source |-> Absent]
         /\ i = [by |-> 0, inputs |-> 1, report |-> PreparedRun.report, base |-> 1,
                 source |-> Absent, initial |-> 0, config |-> g, began |-> 0]
  OBVIOUS
<1>8. PICK d : d = [by |-> 0, config |-> g]
  OBVIOUS
<1>9. /\ TrainedRun.packed = PreparedRun.packed
      /\ TrainedRun.checkpoints = [k \in 1 .. Steps |-> <<c>>]
      /\ DOMAIN TrainedRun.adapters = 1 .. Steps
      /\ TrainedRun.identity = <<i>> /\ TrainedRun.config = <<g>>
      /\ TrainedRun.attempts = {d} /\ TrainedRun.outcome = "complete"
      /\ TrainedRun.inputs = 1
  <2>1. TrainedRun = [PreparedRun EXCEPT
           !.training = TRUE, !.identity = <<i>>, !.config = <<g>>, !.attempts = {d},
           !.checkpoints = [k \in 1 .. Steps |-> <<c>>], !.adapters[Steps] = <<c>>,
           !.outcome = "complete"]
    BY <1>7, <1>8 DEF TrainedRun
  <2>2. PreparedRun = [f \in DOMAIN NoRun |-> PreparedRun[f]]
    BY DEF PreparedRun
  <2>3. PreparedRun.adapters = [k \in 1 .. Steps |-> Absent] /\ PreparedRun.inputs = 1
    BY <1>6
  <2> QED  BY <2>1, <2>2, <2>3 DEF NoRun
<1>10. RunTrained(NoRun, 0) /\ RunTrained(PreparedRun, 0)
  <2>1. RunTrained(NoRun, 0)
    BY <1>5 DEF RunTrained, Configured
  <2>2. RunTrained(PreparedRun, 0)
    BY <1>6 DEF RunTrained, Configured
  <2> QED  BY <2>1, <2>2
<1>11. <<c>> # Absent /\ <<c>>[1] = c /\ <<i>> # Absent /\ <<i>>[1] = i
  BY DEF Absent
<1>12. ASSUME NEW r, NEW j, r.identity = <<j>>, j.by = 0, j.config = g, j.initial = 0,
              j.source = Absent, r.config = <<g>>, r.attempts = {d},
              r.checkpoints = [k \in 1 .. Steps |-> <<c>>]
       PROVE  Configured(r)
  <2>1. <<j>>[1] = j /\ InitialOf(g, r.snapshot) = 0 /\ Uses(c, g, r.snapshot)
        /\ g.source = Absent /\ ~g.initial
    BY <1>7 DEF InitialOf, Uses
  <2>2. d \in r.attempts /\ d.by = 0 /\ d.config = g
    BY <1>8, <1>12
  <2> QED  BY <1>11, <1>12, <2>1, <2>2 DEF Configured
<1>13. RunTrained(TrainedRun, 0)
  <2>1. Fits(c, i, 0)
    BY <1>6, <1>7 DEF Fits
  <2>2. /\ i.by = 0 /\ i.inputs = 1 /\ i.source = Absent /\ i.report # Absent
        /\ i.config = g /\ i.initial = 0
    BY <1>6, <1>7 DEF Absent
  <2>3. Configured(TrainedRun)
    BY <1>9, <1>12, <2>2
  <2> QED  BY <1>4, <1>6, <1>9, <1>11, <2>1, <2>2, <2>3 DEF RunTrained
<1>14. ASSUME method = "rl" PROVE RunTrained(TrainedByRl, 0)
  <2>1. PICK j : j = [i EXCEPT !.report = Absent]
    OBVIOUS
  <2>2. /\ TrainedByRl.packed = NoRun.packed
        /\ TrainedByRl.checkpoints = TrainedRun.checkpoints
        /\ TrainedByRl.adapters = TrainedRun.adapters
        /\ TrainedByRl.identity = <<j>> /\ TrainedByRl.config = <<g>>
        /\ TrainedByRl.attempts = {d} /\ TrainedByRl.outcome = "complete"
        /\ TrainedByRl.inputs = 1
    <3>1. PreparedRun = [f \in DOMAIN NoRun |-> PreparedRun[f]]
      BY DEF PreparedRun
    <3>2. TrainedRun = [f \in DOMAIN NoRun |-> TrainedRun[f]]
      BY <3>1 DEF TrainedRun
    <3>3. /\ TrainedByRl.packed = NoRun.packed
          /\ TrainedByRl.checkpoints = TrainedRun.checkpoints
          /\ TrainedByRl.adapters = TrainedRun.adapters
          /\ TrainedByRl.config = TrainedRun.config
          /\ TrainedByRl.attempts = TrainedRun.attempts
          /\ TrainedByRl.outcome = TrainedRun.outcome
          /\ TrainedByRl.inputs = TrainedRun.inputs
      BY <3>2 DEF TrainedByRl, NoRun
    <3>4. TrainedByRl.identity =
             [TrainedRun.identity EXCEPT ![1] = [TrainedRun.identity[1] EXCEPT !.report = Absent]]
      BY <3>2 DEF TrainedByRl, NoRun
    <3>5. TrainedByRl.identity = <<j>>
      <4>1. TrainedRun.identity = <<i>> /\ TrainedRun.identity[1] = i
        BY <1>9
      <4>2. TrainedByRl.identity = [<<i>> EXCEPT ![1] = j]
        BY <2>1, <3>4, <4>1
      <4>3. [<<i>> EXCEPT ![1] = j] = <<j>>
        OBVIOUS
      <4> QED  BY <4>2, <4>3
    <3> QED  BY <1>9, <3>3, <3>5
  <2>3. /\ Fits(c, j, 0) /\ j.by = 0 /\ j.inputs = 1 /\ j.source = Absent
        /\ j.initial = 0 /\ j.config = g
    BY <1>7, <1>14, <2>1 DEF Fits
  <2>4. <<j>> # Absent /\ <<j>>[1] = j
    BY DEF Absent
  <2>5. TrainedByRl.packed = [t \in {"training", "validation"} |-> 0]
        /\ DOMAIN TrainedByRl.adapters = 1 .. Steps
        /\ TrainedByRl.checkpoints = [k \in 1 .. Steps |-> <<c>>]
    BY <1>5, <1>9, <2>2
  <2>6. Configured(TrainedByRl)
    BY <1>12, <2>2, <2>3, <2>5
  <2> QED  BY <1>4, <1>11, <1>14, <2>2, <2>3, <2>4, <2>5, <2>6 DEF RunTrained
<1>15. \A n \in Numbers : RunTrained(runs[n], begun)
  BY <1>1, <1>2, <1>3, <1>10, <1>13, <1>14
<1>16. \A n \in Numbers : runs[n].identity # Absent => runs[n].identity[1].source = Absent
  <2>1. \A r \in {NoRun, PreparedRun} : r.identity = Absent
    BY <1>5, <1>6
  <2>2. TrainedRun.identity[1].source = Absent
    BY <1>7, <1>9
  <2>3. TrainedByRl.identity[1].source = Absent
    BY DEF TrainedByRl, TrainedRun, PreparedRun, NoRun
  <2> QED  BY <1>1, <1>3, <2>1, <2>2, <2>3
<1>17. \A p \in Processes : proc[p].pc = "idle"
  BY DEF Init, Idle
<1>18. "idle" \notin Unsaved \cup Attempting
  BY DEF Unsaved, Attempting
<1> QED  BY <1>15, <1>16, <1>17, <1>18 DEF ProvInv, Sourced

\* It says of an identity and of an evaluation what they are asked to say.
LEMMA ImpliedProv == ASSUME IInv, ProvInv PROVE Provenance
<1>1. ASSUME NEW n \in Numbers, NEW r, r = runs[n], r.identity # Absent,
             NEW i, i = r.identity[1]
      PROVE  /\ i.inputs = r.inputs
             /\ method = "sft" => i.report # Absent
             /\ \A k \in 1 .. Steps : r.checkpoints[k] # Absent =>
                   LET c == r.checkpoints[k][1]
                   IN  /\ c.base = i.base
                       /\ method = "sft" => c.rows = i.report[1]
                       /\ Checked(r) /\ Telling(r) /\ c.by = i.by =>
                             c.initial = i.initial /\ c.source = i.source
             /\ r.outcome = "complete" => r.checkpoints[Steps] # Absent
             /\ i.source # Absent => runs[i.source[1]].outcome = "complete"
  <2>1. RunTrained(r, begun) /\ Configured(r)
    BY <1>1 DEF ProvInv, RunTrained
  <2>2. i.source # Absent => Complete(i.source[1], runs)
    BY <1>1 DEF ProvInv, Sourced
  <2>3. ASSUME NEW k \in 1 .. Steps, NEW c, c = r.checkpoints[k][1], r.checkpoints[k] # Absent,
               Checked(r), Telling(r), c.by = i.by
        PROVE  c.initial = i.initial /\ c.source = i.source
    <3>1. PICK a \in r.attempts : a.by = i.by /\ a.config = i.config
      BY <1>1, <2>1 DEF Configured
    <3>2. ~Overtaken(r, a)
      <4>1. r.config = <<a.config>>
        BY <1>1, <2>3, <3>1 DEF Checked
      <4>2. \/ \A b \in r.attempts : b.config = a.config => b.by = a.by
            \/ \A b \in r.attempts : b.config = a.config
        BY <1>1, <2>3, <3>1 DEF Telling
      <4> QED  BY <4>1, <4>2 DEF Overtaken
    <3>3. Uses(c, i.config, r.snapshot)
      BY <2>1, <2>3, <3>1, <3>2 DEF Configured
    <3> QED  BY <1>1, <2>1, <3>3 DEF Configured, Uses
  <2> QED  BY <1>1, <2>1, <2>2, <2>3 DEF RunTrained, Fits, Complete
<1>2. ASSUME NEW p \in Processes, proc[p].pc = "measure", Command(p).step # 0
      PROVE  /\ Run(p).adapters[Command(p).step] # Absent
             /\ Run(p).adapters[Command(p).step][1].base = proc[p].world
  BY <1>2 DEF ProvInv, Trains, Command, Run
<1> QED  BY <1>1, <1>2 DEF Provenance, TrainedAsRecorded, ServedOnItsBase

(* What a training is recorded to have used is what it used: the rows of   *)
(* the report and the base weights, whoever saved the checkpoint; and the  *)
(* adapter or the complete training it starts from, of a run whose         *)
(* configuration has the recorded checksum, where that tells its attempt   *)
(* from the others.  An evaluation serves an adapter on the base it was    *)
(* trained on (sft.train.train, sft.train.checkpoint_model, rl.train).     *)
THEOREM ProvenanceInvariant == Spec => []Provenance
<1>1. Init => IInv /\ AttemptInv /\ ProvInv
  BY InitInv, InitAttempts, InitProv
<1>2. IInv /\ AttemptInv /\ ProvInv /\ [Next]_vars => (IInv /\ AttemptInv /\ ProvInv)'
  BY NextInv, NextAttempts, NextProv
<1>3. IInv /\ ProvInv => Provenance
  BY ImpliedProv
<1> QED  BY <1>1, <1>2, <1>3, PTL DEF Spec
=============================================================================
