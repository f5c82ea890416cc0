------------------------------ MODULE MCHttpRetry ------------------------------
(***************************************************************************)
(* Instances of HttpRetry for TLC.                                         *)
(***************************************************************************)
EXTENDS HttpRetry

\* One header of each kind; a date that has passed; and a wait beyond MaximumDelay.
SomeHeaders ==
    {[kind |-> "absent", value |-> 0], [kind |-> "infinite", value |-> 0],
     [kind |-> "seconds", value |-> 2], [kind |-> "seconds", value |-> 9],
     [kind |-> "date", value |-> -1]}
=============================================================================
