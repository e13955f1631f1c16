------------------------------ MODULE RowLocks ------------------------------
(***************************************************************************)
(* What LockManager promises to the transactions that use it: a row has at *)
(* most one owning transaction, ownership is taken only from a free row,   *)
(* and a transaction gives all its rows back in one step.  No transaction  *)
(* ids, no tables, no condition variable.                                  *)
(***************************************************************************)
CONSTANTS Workers, Rids, NoWorker

VARIABLE owner      \* the worker whose transaction owns each row

Init == owner = [r \in Rids |-> NoWorker]

Lock(w, r) ==
    /\ owner[r] = NoWorker
    /\ owner' = [owner EXCEPT ![r] = w]

UnlockAll(w) ==
    owner' = [r \in Rids |-> IF owner[r] = w THEN NoWorker ELSE owner[r]]

Next == \E w \in Workers : UnlockAll(w) \/ \E r \in Rids : Lock(w, r)

Spec == Init /\ [][Next]_owner
=============================================================================
