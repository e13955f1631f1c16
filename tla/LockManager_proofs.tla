------------------------- MODULE LockManager_proofs -------------------------
(***************************************************************************)
(* Proofs about LockManager for every set of workers, every number of rows *)
(* and every number of transactions up to the width of a transaction id.   *)
(* NoWrap is the one assumption the code does not make true by itself; the *)
(* run lock_tid_wrap shows what happens without it.                        *)
(***************************************************************************)
EXTENDS LockManager, NaturalsInduction, WellFoundedInduction, TLAPS

NoWrap == MaxTx <= TidSpace

\* Idle and notifying workers hold no row.
DoneHoldsNothing == \A w \in Workers : ~Live(w) => held[w] = {}

\* What a transaction was handed is registered under its id.
HeldIsOwned == \A w \in Workers : \A r \in held[w] : lock_table_reverse[r] = tid[w]

\* Ids of live transactions were given out, and to one transaction each.
LiveTidsDistinct ==
    /\ \A w \in Workers : Live(w) => tid[w] < transaction_id_seed
    /\ \A v, w \in Workers : Live(v) /\ Live(w) /\ v # w => tid[v] # tid[w]

\* No transaction waits for a row it holds.
WaitsForOthers ==
    \A w \in Workers : Waiting(w) => want[w] \in Rids /\ want[w] \notin held[w]

IInv ==
    /\ TypeOK
    /\ TablesMirror
    /\ DoneHoldsNothing
    /\ HeldIsOwned
    /\ LiveTidsDistinct
    /\ NoOrphanLock
    /\ WaitsForOthers
    /\ NoLostWakeup

-----------------------------------------------------------------------------

LEMMA TidOfSeed ==
    ASSUME NoWrap, NEW s \in 0 .. MaxTx, s < MaxTx
    PROVE  get_transaction_id(s) = s
BY LockManagerAssumption, SMT DEF get_transaction_id, NoWrap

\* Type correctness of one step: every value a step stores is in range.
LEMMA TypeOKStep == TypeOK /\ [Next]_vars => TypeOK'
<1> SUFFICES ASSUME TypeOK, [Next]_vars PROVE TypeOK'
  OBVIOUS
<1> USE DEF TypeOK, tables
<1>1. 0 \notin Rids
  BY DEF Rids
<1>2. ASSUME NEW w \in Workers, BeginTransaction(w) PROVE TypeOK'
  <2>1. get_transaction_id(transaction_id_seed) \in Tids
    BY LockManagerAssumption, SMT DEF get_transaction_id, Tids
  <2>2. transaction_id_seed + 1 \in 0 .. MaxTx
    BY LockManagerAssumption, <1>2 DEF BeginTransaction
  <2> QED BY <1>2, <2>1, <2>2 DEF BeginTransaction, PCs
<1>3. ASSUME NEW w \in Workers, NEW r \in Rids, Take(w, r)
      PROVE  /\ lock_table_reverse' \in [Rids -> Tids \cup {NoTid}]
             /\ lock_table' \in [Tids -> SUBSET Rids]
             /\ pc' \in [Workers -> PCs]
             /\ held' \in [Workers -> SUBSET Rids]
             /\ pc' = [pc EXCEPT ![w] = "running"]
  <2>1. CASE lock_table_reverse[r] = NoTid
    BY <1>3, <2>1 DEF Take, PCs
  <2>2. CASE lock_table_reverse[r] # NoTid
    BY <1>3, <2>2 DEF Take, PCs
  <2> QED BY <2>1, <2>2
<1>4. ASSUME NEW w \in Workers, NEW r \in Rids, Acquire(w, r) PROVE TypeOK'
  <2>1. Take(w, r)
    BY <1>4 DEF Acquire
  <2> QED BY <1>1, <1>3, <1>4, <2>1 DEF Acquire
<1>5. ASSUME NEW w \in Workers, NEW r \in Rids, Block(w, r) PROVE TypeOK'
  BY <1>1, <1>5 DEF Block, PCs
<1>6. ASSUME NEW w \in Workers, AcquireAfterWait(w) PROVE TypeOK'
  <2>1. want[w] \in Rids /\ Take(w, want[w])
    BY <1>6 DEF AcquireAfterWait
  <2> QED BY <1>3, <1>6, <2>1 DEF AcquireAfterWait
<1>7. ASSUME NEW w \in Workers, SpuriousWakeup(w) \/ WaitAgain(w) \/ ReleaseNothing(w)
      PROVE TypeOK'
  BY <1>7 DEF SpuriousWakeup, WaitAgain, ReleaseNothing, PCs
<1>8. ASSUME NEW w \in Workers, Release(w) PROVE TypeOK'
  BY <1>8 DEF Release, PCs
<1>9. ASSUME NEW w \in Workers, NotifyAll(w) PROVE TypeOK'
  BY <1>9 DEF NotifyAll, Woken, PCs
<1>10. CASE AllServed \/ UNCHANGED vars
  BY <1>10 DEF AllServed, vars
<1> QED
  BY <1>2, <1>4, <1>5, <1>6, <1>7, <1>8, <1>9, <1>10 DEF Next, Step


-----------------------------------------------------------------------------
(* The inductive invariant.                                                *)

LEMMA InitIInv == Init => IInv
BY LockManagerAssumption
   DEF Init, IInv, TypeOK, TablesMirror, DoneHoldsNothing, HeldIsOwned, Live,
       LiveTidsDistinct, NoOrphanLock, WaitsForOthers, Waiting, NoLostWakeup,
       PCs, Tids, NoTid

\* The end of AcquireLockFromLockTable, reached with or without a wait.
LEMMA TakeStep ==
    ASSUME IInv, TypeOK', NEW w \in Workers, NEW r \in Rids,
           Live(w), ~BlockedBy(tid[w], r), Take(w, r),
           want' = [want EXCEPT ![w] = r],
           UNCHANGED <<transaction_id_seed, tid>>
    PROVE  IInv'
<1> USE DEF IInv, TypeOK
<1>1. /\ pc' = [pc EXCEPT ![w] = "running"]
      /\ held' = [held EXCEPT ![w] = @ \cup {r}]
      /\ \A v \in Workers : Live(v)' <=> Live(v)
      /\ tid[w] \in Tids /\ NoTid \notin Tids
  BY DEF Take, Live, Tids, NoTid
<1>2. /\ lock_table_reverse' = [lock_table_reverse EXCEPT ![r] = tid[w]]
      /\ \/ lock_table_reverse[r] = NoTid
         \/ lock_table_reverse[r] = tid[w]
      /\ lock_table' = [lock_table EXCEPT ![tid[w]] = @ \cup {r}]
  <2>1. CASE lock_table_reverse[r] = NoTid
    BY <2>1 DEF Take
  <2>2. CASE lock_table_reverse[r] = tid[w]
    BY <2>2, <1>1 DEF Take, tables, TablesMirror
  <2> QED BY <2>1, <2>2 DEF BlockedBy
<1>3. TablesMirror'
  <2> SUFFICES ASSUME NEW x \in Rids, NEW t \in Tids
               PROVE  x \in lock_table'[t] <=> lock_table_reverse'[x] = t
    BY DEF TablesMirror
  <2>1. x \in lock_table[t] <=> lock_table_reverse[x] = t
    BY DEF TablesMirror
  <2>2. CASE x = r
    BY <1>1, <1>2, <2>1, <2>2
  <2>3. CASE x # r
    BY <1>1, <1>2, <2>1, <2>3
  <2> QED BY <2>2, <2>3
<1>4. DoneHoldsNothing'
  BY <1>1 DEF DoneHoldsNothing
<1>5. HeldIsOwned'
  <2> SUFFICES ASSUME NEW v \in Workers, NEW x \in held'[v]
               PROVE  lock_table_reverse'[x] = tid[v]
    BY DEF HeldIsOwned
  <2>1. CASE v = w /\ x = r
    BY <1>1, <1>2, <2>1
  <2>2. CASE x \in held[v]
    BY <1>1, <1>2, <2>2 DEF HeldIsOwned
  <2> QED BY <1>1, <2>1, <2>2
<1>6. LiveTidsDistinct'
  BY <1>1 DEF LiveTidsDistinct
<1>7. NoOrphanLock'
  BY <1>1, <1>2 DEF NoOrphanLock
<1>8. WaitsForOthers'
  BY <1>1 DEF WaitsForOthers, Waiting
<1>9. NoLostWakeup'
  <2> SUFFICES ASSUME NEW v \in Workers, pc'[v] = "waiting",
                      ~BlockedBy(tid[v], want[v])'
               PROVE  \E u \in Workers : pc'[u] = "notifying"
    BY DEF NoLostWakeup
  <2>1. v # w /\ pc[v] = "waiting" /\ want'[v] = want[v] /\ tid'[v] = tid[v]
    BY <1>1
  <2>2. ~BlockedBy(tid[v], want[v])
    BY <1>1, <1>2, <2>1 DEF BlockedBy
  <2>3. PICK u \in Workers : pc[u] = "notifying"
    BY <2>1, <2>2 DEF NoLostWakeup
  <2> QED BY <1>1, <2>3 DEF Live
<1> QED
  BY <1>3, <1>4, <1>5, <1>6, <1>7, <1>8, <1>9


LEMMA BeginStep ==
    ASSUME NoWrap, IInv, TypeOK', NEW w \in Workers, BeginTransaction(w)
    PROVE  IInv'
<1> USE DEF IInv, TypeOK
<1>1. /\ tid' = [tid EXCEPT ![w] = transaction_id_seed]
      /\ transaction_id_seed' = transaction_id_seed + 1
      /\ pc[w] = "idle" /\ pc' = [pc EXCEPT ![w] = "running"]
      /\ want' = [want EXCEPT ![w] = 0]
      /\ UNCHANGED <<lock_table_reverse, lock_table, held>>
      /\ held[w] = {}
  BY TidOfSeed DEF BeginTransaction, tables, DoneHoldsNothing, Live
<1>2. \A v \in Workers : v # w => (Live(v)' <=> Live(v)) /\ tid'[v] = tid[v]
  BY <1>1 DEF Live
<1>3. LiveTidsDistinct'
  <2>1. \A v \in Workers : Live(v)' /\ v # w => tid'[v] < transaction_id_seed
    BY <1>2 DEF LiveTidsDistinct
  <2>2. tid'[w] = transaction_id_seed /\ transaction_id_seed \in Int
    BY <1>1, LockManagerAssumption
  <2>3. \A v \in Workers : tid'[v] \in Int
    BY DEF Tids
  <2> QED BY <1>1, <1>2, <2>1, <2>2, <2>3 DEF LiveTidsDistinct
<1>4. TablesMirror' /\ DoneHoldsNothing' /\ HeldIsOwned'
  BY <1>1, <1>2 DEF TablesMirror, DoneHoldsNothing, HeldIsOwned, Live
<1>5. NoOrphanLock'
  BY <1>1, <1>2 DEF NoOrphanLock
<1>6. WaitsForOthers'
  BY <1>1 DEF WaitsForOthers, Waiting
<1>7. NoLostWakeup'
  BY <1>1 DEF NoLostWakeup, BlockedBy
<1> QED BY <1>3, <1>4, <1>5, <1>6, <1>7

\* Steps that leave tables, ids and held rows alone.
LEMMA WaitStep ==
    ASSUME IInv, TypeOK', NEW w \in Workers, NEW r \in Rids,
           Block(w, r) \/ SpuriousWakeup(w) \/ WaitAgain(w)
    PROVE  IInv'
<1> USE DEF IInv, TypeOK
<1>1. /\ UNCHANGED <<transaction_id_seed, lock_table_reverse, lock_table, tid, held>>
      /\ Live(w)
      /\ \/ pc' = [pc EXCEPT ![w] = "waiting"] /\ BlockedBy(tid[w], want'[w])
         \/ pc' = [pc EXCEPT ![w] = "woken"]
      /\ \A v \in Workers : v # w => want'[v] = want[v]
      /\ want'[w] \in Rids /\ want'[w] \notin held[w]
  <2>1. \A x \in held[w] : ~BlockedBy(tid[w], x)
    BY DEF HeldIsOwned, BlockedBy
  <2>2. CASE Block(w, r)
    BY <2>1, <2>2 DEF Block, tables, Live
  <2>3. CASE SpuriousWakeup(w) \/ WaitAgain(w)
    BY <2>3 DEF SpuriousWakeup, WaitAgain, tables, Live, WaitsForOthers, Waiting
  <2> QED BY <2>2, <2>3
<1>2. \A v \in Workers : Live(v)' <=> Live(v)
  BY <1>1 DEF Live
<1>3. TablesMirror' /\ DoneHoldsNothing' /\ HeldIsOwned' /\ LiveTidsDistinct' /\ NoOrphanLock'
  BY <1>1, <1>2
     DEF TablesMirror, DoneHoldsNothing, HeldIsOwned, LiveTidsDistinct, NoOrphanLock
<1>4. WaitsForOthers'
  BY <1>1 DEF WaitsForOthers, Waiting
<1>5. NoLostWakeup'
  BY <1>1, <1>2 DEF NoLostWakeup, BlockedBy, Live
<1> QED BY <1>3, <1>4, <1>5

\* Both exits of ReleaseLockFromLockTable leave the transaction without rows and
\* the other transactions with theirs.
LEMMA ReleaseStep ==
    ASSUME IInv, TypeOK', NEW w \in Workers, ReleaseNothing(w) \/ Release(w)
    PROVE  IInv'
<1> USE DEF IInv, TypeOK
<1>1. /\ Live(w) /\ ~Live(w)'
      /\ \A v \in Workers : v # w => (Live(v)' <=> Live(v)) /\ pc'[v] = pc[v]
      /\ held' = [held EXCEPT ![w] = {}]
      /\ UNCHANGED <<transaction_id_seed, tid, want>>
      /\ lock_table' = [lock_table EXCEPT ![tid[w]] = {}]
      /\ tid[w] \in Tids /\ NoTid \notin Tids
  BY DEF ReleaseNothing, Release, Live, tables, NothingToRelease, Tids, NoTid
<1>2. \A x \in Rids : lock_table_reverse'[x] =
        IF lock_table_reverse[x] = tid[w] THEN NoTid ELSE lock_table_reverse[x]
  <2>1. CASE ReleaseNothing(w)
    BY <1>1, <2>1 DEF ReleaseNothing, tables, NothingToRelease, TablesMirror
  <2>2. CASE Release(w)
    BY <1>1, <2>2 DEF Release, TablesMirror
  <2> QED BY <2>1, <2>2
<1>3. \A v \in Workers : v # w /\ held[v] # {} => tid[v] # tid[w]
  BY <1>1 DEF LiveTidsDistinct, DoneHoldsNothing
<1>4. TablesMirror'
  <2> SUFFICES ASSUME NEW x \in Rids, NEW t \in Tids
               PROVE  x \in lock_table'[t] <=> lock_table_reverse'[x] = t
    BY DEF TablesMirror
  <2>1. x \in lock_table[t] <=> lock_table_reverse[x] = t
    BY DEF TablesMirror
  <2> QED BY <1>1, <1>2, <2>1
<1>5. DoneHoldsNothing'
  BY <1>1 DEF DoneHoldsNothing
<1>6. HeldIsOwned'
  BY <1>1, <1>2, <1>3 DEF HeldIsOwned
<1>7. LiveTidsDistinct'
  BY <1>1 DEF LiveTidsDistinct
<1>8. NoOrphanLock'
  <2> SUFFICES ASSUME NEW x \in Rids, lock_table_reverse'[x] # NoTid
               PROVE  \E v \in Workers : /\ Live(v)' /\ x \in held'[v]
                                         /\ tid'[v] = lock_table_reverse'[x]
    BY DEF NoOrphanLock
  <2>1. lock_table_reverse[x] # tid[w] /\ lock_table_reverse'[x] = lock_table_reverse[x]
    BY <1>2
  <2>2. PICK v \in Workers : Live(v) /\ tid[v] = lock_table_reverse[x] /\ x \in held[v]
    BY <2>1 DEF NoOrphanLock
  <2> QED BY <1>1, <2>1, <2>2
<1>9. WaitsForOthers'
  BY <1>1 DEF WaitsForOthers, Waiting, Live
<1>10. NoLostWakeup'
  <2>1. CASE ReleaseNothing(w)
    BY <1>1, <2>1 DEF ReleaseNothing, NoLostWakeup, BlockedBy, tables, Live
  <2>2. CASE Release(w)
    BY <2>2 DEF Release, NoLostWakeup
  <2> QED BY <2>1, <2>2
<1> QED
  BY <1>4, <1>5, <1>6, <1>7, <1>8, <1>9, <1>10

LEMMA NotifyStep ==
    ASSUME IInv, TypeOK', NEW w \in Workers, NotifyAll(w)
    PROVE  IInv'
<1> USE DEF IInv, TypeOK
<1>1. /\ UNCHANGED <<transaction_id_seed, lock_table_reverse, lock_table, tid, want, held>>
      /\ \A v \in Workers : Live(v)' <=> Live(v)
      /\ \A v \in Workers : pc'[v] # "waiting"
      /\ \A v \in Workers : pc'[v] = "woken" => pc[v] \in {"waiting", "woken"}
  BY DEF NotifyAll, Woken, tables, Live
<1> QED
  BY <1>1 DEF TablesMirror, DoneHoldsNothing, HeldIsOwned, LiveTidsDistinct, NoOrphanLock,
              WaitsForOthers, Waiting, NoLostWakeup

LEMMA IInvStep == NoWrap /\ IInv /\ [Next]_vars => IInv'
<1> SUFFICES ASSUME NoWrap, IInv, [Next]_vars PROVE IInv'
  OBVIOUS
<1>1. TypeOK'
  BY TypeOKStep DEF IInv
<1>2. ASSUME NEW w \in Workers, NEW r \in Rids, Acquire(w, r) PROVE IInv'
  <2>1. Live(w)
    BY <1>2 DEF Acquire, Live
  <2> QED BY <1>1, <1>2, <2>1, TakeStep DEF Acquire
<1>3. ASSUME NEW w \in Workers, AcquireAfterWait(w) PROVE IInv'
  <2>1. Live(w) /\ want[w] \in Rids /\ want' = [want EXCEPT ![w] = want[w]]
    BY <1>3 DEF AcquireAfterWait, Live, IInv, TypeOK, Rids
  <2>2. ~BlockedBy(tid[w], want[w]) /\ Take(w, want[w]) /\ UNCHANGED <<transaction_id_seed, tid>>
    BY <1>3 DEF AcquireAfterWait
  <2> QED BY <1>1, <2>1, <2>2, TakeStep
<1>4. ASSUME NEW w \in Workers, SpuriousWakeup(w) \/ WaitAgain(w) PROVE IInv'
  <2>1. want[w] \in Rids
    BY <1>4 DEF SpuriousWakeup, WaitAgain, IInv, WaitsForOthers, Waiting
  <2> QED BY <1>1, <1>4, <2>1, WaitStep
<1>5. CASE AllServed \/ UNCHANGED vars
  BY <1>5 DEF AllServed, vars, tables, IInv, TypeOK, TablesMirror, DoneHoldsNothing, HeldIsOwned,
     LiveTidsDistinct, NoOrphanLock, WaitsForOthers, Waiting, NoLostWakeup, Live, BlockedBy
<1> QED
  BY <1>1, <1>2, <1>3, <1>4, <1>5, BeginStep, WaitStep, ReleaseStep, NotifyStep DEF Next, Step

THEOREM Invariance == ASSUME NoWrap PROVE Spec => []IInv
<1>1. IInv /\ [Next]_vars => IInv'
  BY IInvStep
<1> QED BY <1>1, InitIInv, PTL DEF Spec

-----------------------------------------------------------------------------
(* What follows from the invariant.                                        *)

\* Every variable keeps its type, whether or not transaction ids wrap around.
THEOREM TypeCorrect == Spec => []TypeOK
<1>1. Init => TypeOK
  BY InitIInv DEF IInv
<1> QED BY <1>1, TypeOKStep, PTL DEF Spec

\* A row handed to two workers would be owned by two ids at once.
LEMMA HeldRowsDisjoint == IInv => ExclusiveRows
<1> SUFFICES ASSUME IInv, NEW v \in Workers, NEW w \in Workers, v # w
             PROVE  held[v] \cap held[w] = {}
  BY DEF ExclusiveRows, IInv, HeldIsOwned
<1> SUFFICES ASSUME NEW r \in held[v] \cap held[w] PROVE FALSE
  OBVIOUS
<1>1. tid[v] = tid[w]
  BY DEF IInv, HeldIsOwned
<1>2. Live(v) /\ Live(w)
  BY DEF IInv, DoneHoldsNothing
<1> QED BY <1>1, <1>2 DEF IInv, LiveTidsDistinct

\* As long as ids do not wrap, no row is ever held by two transactions, and a
\* transaction's rows stay registered to it until it ends (lock_manager.cpp:5-44).
THEOREM Exclusive == ASSUME NoWrap PROVE Spec => []ExclusiveRows
BY Invariance, HeldRowsDisjoint, PTL

\* The two lock tables never disagree.
THEOREM Mirror == ASSUME NoWrap PROVE Spec => []TablesMirror
<1>1. IInv => TablesMirror
  BY DEF IInv
<1> QED BY <1>1, Invariance, PTL

\* Locks of finished transactions are gone from the tables.
THEOREM NoOrphans == ASSUME NoWrap PROVE Spec => []NoOrphanLock
<1>1. IInv => NoOrphanLock
  BY DEF IInv
<1> QED BY <1>1, Invariance, PTL

\* No worker sleeps on the condition variable without a reason.
THEOREM NoLostWakeups == ASSUME NoWrap PROVE Spec => []NoLostWakeup
<1>1. IInv => NoLostWakeup
  BY DEF IInv
<1> QED BY <1>1, Invariance, PTL

\* Workers each of which waits for a row that one of them was handed.
WaitCycle(S) ==
    /\ S # {}
    /\ \A v \in S : Waiting(v) /\ \E w \in S : want[v] \in held[w]

\* A set of numbers up to n has a greatest: n minus it is least.
LEMMA GreatestNumber ==
    ASSUME NEW n \in Nat, NEW T \in SUBSET (1 .. n), T # {}
    PROVE  \E m \in T : \A k \in T : k <= m
<1> DEFINE R == {p \in Nat \X Nat : p[1] < p[2]}
           D == {d \in Nat : n - d \in T}
<1>1. IsWellFoundedOn(R, Nat)
  BY NatLessThanWellFounded, Zenon DEF OpToRel
<1>2. \A k \in T : n - k \in D /\ k \in Int
  <2> SUFFICES ASSUME NEW k \in T PROVE n - k \in D /\ k \in Int
    OBVIOUS
  <2>1. k \in 1 .. n /\ n - k \in Nat /\ n - (n - k) = k
    OBVIOUS
  <2> QED BY <2>1
<1>3. D \in SUBSET Nat /\ D # {}
  BY <1>2
<1>4. PICK d \in D : \A e \in D : <<e, d>> \notin R
  <2> HIDE DEF R, D
  <2> QED BY <1>1, <1>3, WFMin
<1>5. \A e \in D : ~(e < d)
  BY <1>4
<1>6. ASSUME NEW k \in T PROVE k <= n - d
  BY <1>2, <1>5
<1> QED BY <1>6

\* Whatever set of workers waits for each other's rows, one of them waits out of order,
\* that is, holds a row behind the one it waits for: row locks, their wait loop and the
\* reacquiring of own rows (lock_manager.cpp:13-19) add no deadlock of their own.
THEOREM NoDeadlock ==
    ASSUME NoWrap
    PROVE  Spec => [](\A S \in SUBSET Workers : WaitCycle(S) => \E v \in S : ~WaitsInOrder(v))
<1>1. IInv => \A S \in SUBSET Workers : WaitCycle(S) => \E v \in S : ~WaitsInOrder(v)
  <2> SUFFICES ASSUME IInv, NEW S \in SUBSET Workers, WaitCycle(S),
                      \A v \in S : WaitsInOrder(v)
               PROVE  FALSE
    OBVIOUS
  <2>1. \A v \in S : want[v] \in Rids /\ want[v] \notin held[v]
    BY DEF WaitCycle, IInv, WaitsForOthers
  <2>2. PICK v \in S : \A w \in S : want[w] <= want[v]
    <3> DEFINE T == {want[w] : w \in S}
    <3>1. T \in SUBSET (1 .. NumRids) /\ T # {} /\ NumRids \in Nat
      BY <2>1, LockManagerAssumption DEF WaitCycle, Rids
    <3>2. PICK m \in T : \A k \in T : k <= m
      BY <3>1, GreatestNumber
    <3> QED BY <3>2
  <2>3. PICK w \in S : want[v] \in held[w]
    BY DEF WaitCycle
  <2>4. want[v] <= want[w] /\ want[w] # want[v]
    BY <2>1, <2>3 DEF WaitsInOrder, WaitCycle
  <2>5. want[w] <= want[v]
    BY <2>2
  <2>6. want[v] \in Int /\ want[w] \in Int
    BY <2>1 DEF Rids
  <2> QED BY <2>4, <2>5, <2>6
<1> QED BY <1>1, Invariance, PTL

-----------------------------------------------------------------------------
(* LockManager implements RowLocks.                                        *)

\* The mapped owner of a row is the one worker holding it.
OwnerHolds ==
    /\ owner = [r \in Rids |-> owner[r]]
    /\ \A w \in Workers, r \in Rids : r \in held[w] <=> owner[r] = w
    /\ \A r \in Rids : owner[r] \in Workers \cup {NoWorker}

LEMMA OwnerIsHolder == IInv => OwnerHolds
<1> SUFFICES ASSUME IInv PROVE OwnerHolds
  OBVIOUS
<1>1. ASSUME NEW w \in Workers, NEW r \in Rids, r \in held[w] PROVE owner[r] = w
  <2>1. \A v \in Workers : r \in held[v] => v = w
    BY <1>1, HeldRowsDisjoint DEF ExclusiveRows
  <2> QED BY <1>1, <2>1 DEF owner
<1>2. ASSUME NEW r \in Rids
      PROVE  owner[r] = NoWorker \/ (owner[r] \in Workers /\ r \in held[owner[r]])
  BY DEF owner
<1>3. owner = [r \in Rids |-> owner[r]]
  BY DEF owner
<1> QED BY <1>1, <1>2, <1>3, LockManagerAssumption DEF OwnerHolds

\* A step of LockManager is a step of RowLocks or leaves the owners alone.
LEMMA StepRefines ==
    IInv /\ OwnerHolds /\ OwnerHolds' /\ [Next]_vars => [Abstract!Next]_owner
<1> SUFFICES ASSUME IInv, OwnerHolds, OwnerHolds', [Next]_vars
             PROVE  Abstract!Next \/ owner' = owner
  OBVIOUS
<1> USE DEF IInv, TypeOK
<1>1. ASSUME held' = held PROVE owner' = owner
  BY <1>1 DEF owner
<1>2. ASSUME NEW w \in Workers, NEW r \in Rids, held' = [held EXCEPT ![w] = @ \cup {r}],
             ~BlockedBy(tid[w], r), Live(w)
      PROVE  Abstract!Next \/ owner' = owner
  <2>1. CASE r \in held[w]
    BY <1>1, <1>2, <2>1
  <2>2. CASE r \notin held[w] /\ owner[r] = NoWorker
    <3>1. \A x \in Rids : owner'[x] = IF x = r THEN w ELSE owner[x]
      BY <1>2, <2>2 DEF OwnerHolds
    <3>2. owner' = [owner EXCEPT ![r] = w]
      BY <3>1 DEF OwnerHolds
    <3> QED BY <2>2, <3>2 DEF Abstract!Next, Abstract!Lock
  <2>3. CASE r \notin held[w] /\ owner[r] # NoWorker
    <3>1. PICK v \in Workers : r \in held[v] /\ v # w
      BY <2>3 DEF OwnerHolds
    <3>2. lock_table_reverse[r] = tid[v] /\ Live(v) /\ tid[v] # tid[w] /\ tid[v] # NoTid
      BY <1>2, <3>1 DEF HeldIsOwned, DoneHoldsNothing, LiveTidsDistinct, Tids, NoTid
    <3> QED BY <1>2, <3>2 DEF BlockedBy
  <2> QED BY <2>1, <2>2, <2>3
<1>3. ASSUME NEW w \in Workers, held' = [held EXCEPT ![w] = {}]
      PROVE  Abstract!Next
  <2>1. \A x \in Rids : owner'[x] = IF owner[x] = w THEN NoWorker ELSE owner[x]
    BY <1>3, LockManagerAssumption DEF OwnerHolds
  <2>2. owner' = [x \in Rids |-> IF owner[x] = w THEN NoWorker ELSE owner[x]]
    BY <2>1 DEF OwnerHolds
  <2> QED BY <2>2 DEF Abstract!Next, Abstract!UnlockAll
<1>4. ASSUME NEW w \in Workers, NEW r \in Rids, Acquire(w, r)
      PROVE  Abstract!Next \/ owner' = owner
  BY <1>2, <1>4 DEF Acquire, Take, Live
<1>5. ASSUME NEW w \in Workers, AcquireAfterWait(w)
      PROVE  Abstract!Next \/ owner' = owner
  BY <1>2, <1>5 DEF AcquireAfterWait, Take, Live, WaitsForOthers, Waiting
<1>6. ASSUME NEW w \in Workers, ReleaseNothing(w) \/ Release(w)
      PROVE  Abstract!Next
  BY <1>3, <1>6 DEF ReleaseNothing, Release
<1>7. ASSUME NEW w \in Workers, NEW r \in Rids, Block(w, r) PROVE owner' = owner
  BY <1>1, <1>7 DEF Block
<1>8. ASSUME AllServed \/ UNCHANGED vars PROVE owner' = owner
  BY <1>1, <1>8 DEF AllServed, vars
<1>9. ASSUME NEW w \in Workers, BeginTransaction(w) \/ SpuriousWakeup(w) \/ WaitAgain(w) \/ NotifyAll(w)
      PROVE  owner' = owner
  BY <1>1, <1>9 DEF BeginTransaction, SpuriousWakeup, WaitAgain, NotifyAll
<1> QED
  BY <1>4, <1>5, <1>6, <1>7, <1>8, <1>9 DEF Next, Step

\* Transactions that use LockManager see the lock service RowLocks.
THEOREM Implements == ASSUME NoWrap PROVE Spec => ImplementsRowLocks
<1>1. Init => Abstract!Init
  BY DEF Init, owner, Abstract!Init
<1>2. IInv /\ IInv' /\ [Next]_vars => [Abstract!Next]_owner
  <2>1. IInv' => OwnerHolds'
    BY OwnerIsHolder, PTL
  <2> QED BY <2>1, OwnerIsHolder, StepRefines
<1> QED BY <1>1, <1>2, Invariance, PTL DEF Spec, ImplementsRowLocks, Abstract!Spec
=============================================================================
