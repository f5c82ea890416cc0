------------------------------ MODULE AttemptLog ------------------------------
(***************************************************************************)
(* What the records of a dataset generation promise to those who read      *)
(* them, across any number of runs of the generator: an attempt is made    *)
(* once, its end is recorded once, and what has been published is final.   *)
(***************************************************************************)
CONSTANT Attempts

VARIABLES log,       \* the record of each attempt
          published  \* does the report exist?

States == {"absent", "running", "completed", "failed"}

Init ==
    /\ log = [a \in Attempts |-> "absent"]
    /\ published = FALSE

\* An attempt begins, ends, or fails before it has begun.
Record(a) ==
    /\ ~published
    /\ \/ log[a] = "absent" /\ log' = [log EXCEPT ![a] = "running"]
       \/ log[a] = "running" /\ log' = [log EXCEPT ![a] = "completed"]
       \/ log[a] \in {"absent", "running"} /\ log' = [log EXCEPT ![a] = "failed"]
    /\ UNCHANGED published

Publish ==
    /\ \A a \in Attempts : log[a] \in {"completed", "failed"}
    /\ published' = TRUE
    /\ UNCHANGED log

Next == Publish \/ \E a \in Attempts : Record(a)

Spec == Init /\ [][Next]_<<log, published>>
=============================================================================
