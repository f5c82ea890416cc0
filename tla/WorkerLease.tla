----------------------------- MODULE WorkerLease -----------------------------
(***************************************************************************)
(* What a pool of database workers promises to its clients, without the    *)
(* queue, the polling or the cancellation that ContainerPool uses to keep  *)
(* the promise: a worker is lent to one client at a time, a client borrows *)
(* one worker at a time, and only its borrower gives a worker back.        *)
(***************************************************************************)
CONSTANTS Workers,  \* the containers of the pool
          Clients,  \* the threads that borrow them
          Nobody    \* the borrower of a worker that is not lent

VARIABLE borrower   \* the client each worker is lent to

LeaseTypeOK == borrower \in [Workers -> Clients \cup {Nobody}]

LeaseInit == borrower = [w \in Workers |-> Nobody]

Lend(w, c) ==
    /\ borrower[w] = Nobody
    /\ \A v \in Workers : borrower[v] # c
    /\ borrower' = [borrower EXCEPT ![w] = c]

GiveBack(w) ==
    /\ borrower[w] # Nobody
    /\ borrower' = [borrower EXCEPT ![w] = Nobody]

LeaseNext ==
    \E w \in Workers : GiveBack(w) \/ \E c \in Clients : Lend(w, c)

LeaseSpec == LeaseInit /\ [][LeaseNext]_borrower
=============================================================================
