---------------------------- MODULE LockManager ----------------------------
(***************************************************************************)
(* The row locks of src/src/transaction_manager/lock_manager.{hpp,cpp} and *)
(* the two places that drive them: the worker loop, which numbers a        *)
(* transaction and releases its locks (worker_function.hpp:139-149), and   *)
(* the heap scan, which locks every row it returns (access_methods.cpp:    *)
(* 73-82), whatever rows those are and in whatever order it meets them.    *)
(*                                                                         *)
(* Every critical section of lock_table_mutex is one step.  A condition    *)
(* wait gives the mutex up, so it splits AcquireLockFromLockTable at the   *)
(* wait; the unlock before notify_all splits ReleaseLockFromLockTable.     *)
(***************************************************************************)
EXTENDS Integers, FiniteSets

CONSTANTS
    Workers,    \* worker threads, each runs one transaction at a time
    NumRids,    \* rows, numbered in the order of their slots
    TidSpace,   \* values of a transaction id: 256 in the code (uint8_t)
    MaxTx,      \* bound: transactions started in a behaviour
    NoWorker    \* owner of a free row in the abstract specification

ASSUME LockManagerAssumption ==
    /\ NumRids \in Nat
    /\ TidSpace \in Nat \ {0}
    /\ MaxTx \in Nat
    /\ NoWorker \notin Workers

Rids  == 1 .. NumRids
Tids  == 0 .. TidSpace - 1
NoTid == -1

VARIABLES
    transaction_id_seed,
    lock_table_reverse,     \* RID -> tid, NoTid when the RID has no entry
    lock_table,             \* tid -> set of RIDs, {} when the tid has no entry
    pc,                     \* where each worker is
    tid,                    \* the id of each worker's transaction
    want,                   \* the row a worker last asked for
    held                    \* history: rows handed to the worker's transaction

tables == <<lock_table_reverse, lock_table>>
vars   == <<transaction_id_seed, tables, pc, tid, want, held>>

\* idle: no transaction.  running: inside DB_Pipeline.  waiting: asleep on
\* lock_table_condvar.  woken: awake, about to look the owner up again.
\* notifying: between lock.unlock() and notify_all of the release.
PCs == {"idle", "running", "waiting", "woken", "notifying"}

Live(w) == pc[w] \in {"running", "waiting", "woken"}

TypeOK ==
    /\ transaction_id_seed \in 0 .. MaxTx
    /\ lock_table_reverse \in [Rids -> Tids \cup {NoTid}]
    /\ lock_table \in [Tids -> SUBSET Rids]
    /\ pc \in [Workers -> PCs]
    /\ tid \in [Workers -> Tids]
    /\ want \in [Workers -> Rids \cup {0}]
    /\ held \in [Workers -> SUBSET Rids]
    /\ \A w \in Workers : pc[w] \in {"waiting", "woken"} => want[w] # 0

Init ==
    /\ transaction_id_seed = 0
    /\ lock_table_reverse = [r \in Rids |-> NoTid]
    /\ lock_table = [t \in Tids |-> {}]
    /\ pc = [w \in Workers |-> "idle"]
    /\ tid = [w \in Workers |-> 0]
    /\ want = [w \in Workers |-> 0]
    /\ held = [w \in Workers |-> {}]

-----------------------------------------------------------------------------
(* Transaction ids.                                                        *)

\* mutant: the id is a signed byte
get_transaction_id_signed(seed) ==
    IF 2 * (seed % TidSpace) < TidSpace THEN seed % TidSpace ELSE (seed % TidSpace) - TidSpace
\* mutant: two concurrent calls read the counter before either stores it back
get_transaction_id_torn(seed) == (seed \div 2) % TidSpace

\* static_cast<uint8_t> of the counter: the value modulo TidSpace.
get_transaction_id(seed) == seed % TidSpace

BeginTransaction(w) ==
    /\ pc[w] = "idle"
    /\ transaction_id_seed < MaxTx
    /\ tid' = [tid EXCEPT ![w] = get_transaction_id(transaction_id_seed)]
    /\ transaction_id_seed' = transaction_id_seed + 1
    /\ pc' = [pc EXCEPT ![w] = "running"]
    /\ want' = [want EXCEPT ![w] = 0]
    /\ UNCHANGED <<tables, held>>

-----------------------------------------------------------------------------
(* AcquireLockFromLockTable.                                               *)

\* mutant: the wait loop looks only at whether the row has an entry
BlockedBy_entry(t, r) == lock_table_reverse[r] # NoTid
\* mutant: the wait loop forgets to look at the owner
BlockedBy_never(t, r) == FALSE

\* The condition of the wait loop.
BlockedBy(t, r) == lock_table_reverse[r] \notin {NoTid, t}

\* mutant: the lock set of the transaction is not recorded
Take_reverse_only(w, r) ==
    /\ lock_table_reverse' = [lock_table_reverse EXCEPT ![r] = tid[w]]
    /\ held' = [held EXCEPT ![w] = @ \cup {r}]
    /\ pc' = [pc EXCEPT ![w] = "running"]
    /\ UNCHANGED lock_table

\* The rest of the call once the loop falls through: a free row is entered in
\* both tables, a row the transaction already owns changes nothing.
Take(w, r) ==
    /\ IF lock_table_reverse[r] = NoTid
       THEN /\ lock_table_reverse' = [lock_table_reverse EXCEPT ![r] = tid[w]]
            /\ lock_table' = [lock_table EXCEPT ![tid[w]] = @ \cup {r}]
       ELSE UNCHANGED tables
    /\ held' = [held EXCEPT ![w] = @ \cup {r}]
    /\ pc' = [pc EXCEPT ![w] = "running"]

Acquire(w, r) ==
    /\ pc[w] = "running"
    /\ ~BlockedBy(tid[w], r)
    /\ Take(w, r)
    /\ want' = [want EXCEPT ![w] = r]
    /\ UNCHANGED <<transaction_id_seed, tid>>

Block(w, r) ==
    /\ pc[w] = "running"
    /\ BlockedBy(tid[w], r)
    /\ pc' = [pc EXCEPT ![w] = "waiting"]
    /\ want' = [want EXCEPT ![w] = r]
    /\ UNCHANGED <<transaction_id_seed, tables, tid, held>>

\* A condition variable may wake a thread nobody notified.
SpuriousWakeup(w) ==
    /\ pc[w] = "waiting"
    /\ pc' = [pc EXCEPT ![w] = "woken"]
    /\ UNCHANGED <<transaction_id_seed, tables, tid, want, held>>

AcquireAfterWait(w) ==
    /\ pc[w] = "woken"
    /\ ~BlockedBy(tid[w], want[w])
    /\ Take(w, want[w])
    /\ UNCHANGED <<transaction_id_seed, tid, want>>

WaitAgain(w) ==
    /\ pc[w] = "woken"
    /\ BlockedBy(tid[w], want[w])
    /\ pc' = [pc EXCEPT ![w] = "waiting"]
    /\ UNCHANGED <<transaction_id_seed, tables, tid, want, held>>

-----------------------------------------------------------------------------
(* ReleaseLockFromLockTable, called when the statement ends or throws.     *)

\* mutant: the early return is taken although the transaction owns rows
NothingToRelease_always(t) == TRUE
NothingToRelease(t) == lock_table[t] = {}

ReleaseNothing(w) ==
    /\ pc[w] = "running"
    /\ NothingToRelease(tid[w])
    /\ pc' = [pc EXCEPT ![w] = "idle"]
    /\ held' = [held EXCEPT ![w] = {}]
    /\ UNCHANGED <<transaction_id_seed, tables, tid, want>>

Release(w) ==
    /\ pc[w] = "running"
    /\ ~NothingToRelease(tid[w])
    /\ lock_table_reverse' =
         [r \in Rids |-> IF r \in lock_table[tid[w]] /\ lock_table_reverse[r] = tid[w]
                         THEN NoTid ELSE lock_table_reverse[r]]
    /\ lock_table' = [lock_table EXCEPT ![tid[w]] = {}]
    /\ held' = [held EXCEPT ![w] = {}]
    /\ pc' = [pc EXCEPT ![w] = "notifying"]
    /\ UNCHANGED <<transaction_id_seed, tid, want>>

\* mutant: notify_one wakes at most one of the sleepers
Woken_one(S) == IF S = {} THEN {} ELSE {CHOOSE v \in S : TRUE}
\* notify_all wakes every sleeper, whichever row it waits for.
Woken(S) == S

NotifyAll(w) ==
    /\ pc[w] = "notifying"
    /\ pc' = [v \in Workers |->
                IF v = w THEN "idle"
                ELSE IF v \in Woken({u \in Workers : pc[u] = "waiting"}) THEN "woken"
                ELSE pc[v]]
    /\ UNCHANGED <<transaction_id_seed, tables, tid, want, held>>

\* Every request of the bounded behaviour has been served.
AllServed ==
    /\ transaction_id_seed = MaxTx
    /\ \A w \in Workers : pc[w] = "idle"
    /\ UNCHANGED vars

Step(w) ==
    \/ BeginTransaction(w)
    \/ \E r \in Rids : Acquire(w, r) \/ Block(w, r)
    \/ SpuriousWakeup(w)
    \/ AcquireAfterWait(w)
    \/ WaitAgain(w)
    \/ ReleaseNothing(w)
    \/ Release(w)
    \/ NotifyAll(w)

Next == (\E w \in Workers : Step(w)) \/ AllServed

Spec == Init /\ [][Next]_vars

\* A thread that can run does run, and a scan is over a finite page, so its
\* transaction ends.  Nothing makes the condition variable wake on its own, and
\* nothing makes a client send another request.
Fairness ==
    \A w \in Workers :
        /\ WF_vars(AcquireAfterWait(w))
        /\ WF_vars(WaitAgain(w))
        /\ WF_vars(ReleaseNothing(w) \/ Release(w))
        /\ WF_vars(NotifyAll(w))

FairSpec == Spec /\ Fairness

-----------------------------------------------------------------------------
(* Properties.                                                             *)

\* The two tables are inverse to each other: a row is in a transaction's lock
\* set exactly when its reverse entry names that transaction.  Release walks
\* one of them and erases from the other (lock_manager.cpp:35-40), so any drift
\* would leave a row owned by nobody that can free it.
TablesMirror ==
    \A r \in Rids, t \in Tids : r \in lock_table[t] <=> lock_table_reverse[r] = t

\* No two transactions hold one row at the same time (the promise the docs give
\* for the lock manager), and what a transaction believes it holds is what the
\* tables say it owns, even while other transactions release theirs.
ExclusiveRows ==
    /\ \A v, w \in Workers : v # w => held[v] \cap held[w] = {}
    /\ \A w \in Workers : \A r \in held[w] : lock_table_reverse[r] = tid[w]

\* A row stays owned only while a transaction with its id is under way: nothing
\* a failed or finished statement locked is left behind in the tables.
NoOrphanLock ==
    \A r \in Rids : lock_table_reverse[r] # NoTid =>
        \E w \in Workers : Live(w) /\ tid[w] = lock_table_reverse[r] /\ r \in held[w]

\* No lost wakeup: a thread asleep on the condition variable still has a reason
\* to sleep (its row belongs to another id), or a releaser is on its way to
\* notify_all.  The gap between unlock() and notify_all() is where it could fail.
NoLostWakeup ==
    \A w \in Workers : pc[w] = "waiting" =>
        \/ BlockedBy(tid[w], want[w])
        \/ \E v \in Workers : pc[v] = "notifying"

\* A worker that waits has been handed no row behind the one it waits for: its scan met
\* the slots of its rows in order.  A slot counted but not yet placed, whose rid has the
\* offset 0, is met out of order (heap_writer.cpp:28-44); Statements has those.
Waiting(w) == pc[w] \in {"waiting", "woken"}
WaitsInOrder(w) == Waiting(w) => \A r \in held[w] : r <= want[w]

\* As long as scans wait in order, a blocked scan gets its row once the transactions
\* ahead of it end: it is neither forgotten asleep nor part of a deadlock.  (Out of order,
\* two scans may wait for each other: AcquireLockFromLockTable detects no cycle.)
BlockedScanResumes ==
    [](\A w \in Workers : WaitsInOrder(w)) =>
        \A w \in Workers : pc[w] = "waiting" ~> pc[w] = "running"

-----------------------------------------------------------------------------
(* The abstract lock service: the owner of a row is the worker whose       *)
(* transaction was handed it.                                              *)

owner == [r \in Rids |->
            IF \E w \in Workers : r \in held[w]
            THEN CHOOSE w \in Workers : r \in held[w]
            ELSE NoWorker]

Abstract == INSTANCE RowLocks

\* Whatever the two tables, the ids and the wakeups do, the transactions see the
\* lock service of RowLocks: rows are taken only when free and given back all at
\* once.
ImplementsRowLocks == Abstract!Spec
=============================================================================
