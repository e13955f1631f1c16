-------------------------- MODULE BufferPool_proofs --------------------------
(***************************************************************************)
(* Proofs about BufferPool for every finite set of threads, every number   *)
(* of frames and every set of pages.                                       *)
(***************************************************************************)
EXTENDS BufferPool, FiniteSetTheorems, TLAPS

\* A pointer in use leads to the page its thread works on.
PointersHold == \A t \in Threads : InUse(t) => page_id[pointer[t]] = page[t]

\* PinsAreExact, page by page.
PinsOn(p)  == Cardinality(Users(p)) + Cardinality(Committers(p)) + leaked[p]
PinsByPage == \A p \in Pages, f \in Frames : page_id[f] = p => pin_count[f] = PinsOn(p)

\* Only heap pages are committed.
CommitsAreHeap == \A t \in Threads : pc[t] = "committing" => page[t][1] = "HEAP"

\* The pins lost on a page keep it in its frame.
LeaksAreLoaded == \A p \in Pages : FrameOf(p) = NoFrame => leaked[p] = 0

\* Thread t has changed page p and is still to mark it or to commit it.
Unsaved(t, p) == page[t] = p /\ (pc[t] = "modified" \/ (pc[t] = "marked" /\ p[1] = "HEAP"))

\* A page whose dirty bit is reset, or about to be by a commit, is as the file
\* has it, unless a thread is still to save its change or failed before it did.
ChangesAreSaved ==
    \A p \in Pages, f \in Frames :
        /\ page_id[f] = p
        /\ page_data[f] # disk[p]
        /\ ~dirty_bit[f] \/ \E t \in Threads : pc[t] = "committing" /\ page[t] = p
        => leaked[p] > 0 \/ \E t \in Threads : Unsaved(t, p)

IInv ==
    /\ TypeOK
    /\ TableMatchesFrames
    /\ PointersHold
    /\ PinsByPage
    /\ CommitsAreHeap
    /\ LeaksAreLoaded
    /\ ChangesAreSaved

-----------------------------------------------------------------------------
(* Facts about one state.                                                  *)

LEMMA Constants ==
    /\ NoFrame \notin Frames
    /\ NoPage \notin Pages
    /\ Frames \subseteq Nat
    /\ ZeroPage \in Contents
    /\ MaxVersion \in Nat
    /\ MaxLeaks \in Nat
BY BufferPoolAssumption DEF NoFrame, Frames, Pages, ZeroPage, Contents

\* The frame a thread's pointer leads to is the one its page is mapped to.
LEMMA PointerIsFrame ==
    ASSUME TypeOK, TableMatchesFrames, PointersHold, NEW t \in Threads, InUse(t)
    PROVE  /\ pointer[t] \in Frames
           /\ page[t] \in Pages
           /\ page_id[pointer[t]] = page[t]
           /\ FrameOf(page[t]) = pointer[t]
           /\ ~Free(pointer[t])
<1>1. pointer[t] \in Frames /\ page[t] \in Pages
  BY DEF TypeOK
<1>2. page_id[pointer[t]] = page[t]
  BY DEF PointersHold
<1>3. FrameOf(page[t]) = pointer[t]
  BY <1>1, <1>2 DEF TableMatchesFrames
<1> QED BY <1>1, <1>2, <1>3, Constants DEF Free

LEMMA UsersFinite ==
    ASSUME NEW p
    PROVE  /\ IsFiniteSet(Users(p)) /\ Cardinality(Users(p)) \in Nat
           /\ IsFiniteSet(Committers(p)) /\ Cardinality(Committers(p)) \in Nat
<1>1. Users(p) \subseteq Threads /\ Committers(p) \subseteq Threads
  BY DEF Users, Committers
<1> QED BY <1>1, BufferPoolAssumption, FS_Subset, FS_CardinalityType

\* A frame somebody works on has a pin.
LEMMA UsedIsPinned ==
    ASSUME TypeOK, TableMatchesFrames, PointersHold, PinsByPage,
           NEW t \in Threads, InUse(t)
    PROVE  pin_count[pointer[t]] > 0
<1>1. pointer[t] \in Frames /\ page[t] \in Pages /\ ~Free(pointer[t]) /\ page_id[pointer[t]] = page[t]
  BY PointerIsFrame
<1>2. t \in Users(page[t])
  BY DEF Users
<1>3. Cardinality(Users(page[t])) # 0
  BY <1>2, UsersFinite, FS_EmptySet
<1>4. leaked[page[t]] \in Nat
  BY <1>1 DEF TypeOK
<1>5. pin_count[pointer[t]] = Cardinality(Users(page[t])) + Cardinality(Committers(page[t])) + leaked[page[t]]
  BY <1>1 DEF PinsByPage, PinsOn
<1> QED BY <1>3, <1>4, <1>5, UsersFinite

\* Nobody works on a frame without pins, and no pin on its page is lost.
LEMMA UnpinnedIsUnused ==
    ASSUME TypeOK, TableMatchesFrames, PointersHold, PinsByPage,
           NEW f \in Frames, ~Free(f), pin_count[f] = 0
    PROVE  /\ \A t \in Threads : InUse(t) => page[t] # page_id[f] /\ pointer[t] # f
           /\ leaked[page_id[f]] = 0
<1>1. page_id[f] \in Pages /\ leaked[page_id[f]] \in Nat
  BY DEF TypeOK, Free
<1>2. 0 = Cardinality(Users(page_id[f])) + Cardinality(Committers(page_id[f])) + leaked[page_id[f]]
  BY <1>1 DEF PinsByPage, PinsOn
<1>3. Cardinality(Users(page_id[f])) = 0 /\ leaked[page_id[f]] = 0
  BY <1>1, <1>2, UsersFinite
<1>4. Users(page_id[f]) = {}
  BY <1>3, UsersFinite, FS_EmptySet
<1> QED BY <1>3, <1>4 DEF Users, PointersHold

-----------------------------------------------------------------------------
(* Type correctness.                                                       *)

LEMMA TypeOKStep == TypeOK /\ [Next]_vars => TypeOK'
<1> SUFFICES ASSUME TypeOK, [Next]_vars PROVE TypeOK'
  OBVIOUS
<1> USE DEF TypeOK
<1>1. ASSUME NEW t \in Threads, NEW p \in Pages, Hit(t, p) PROVE TypeOK'
  <2>1. FrameOf(p) \in Frames
    BY <1>1 DEF Hit, FrameOf, make_key
  <2>2. pin_count' \in [Frames -> Nat]
    <3>1. pin_count' = [pin_count EXCEPT ![FrameOf(p)] = pin_count[FrameOf(p)] + 1]
      BY <1>1 DEF Hit
    <3> HIDE <1>1
    <3>2. pin_count[FrameOf(p)] + 1 \in Nat
      BY <2>1
    <3> QED BY <2>1, <3>1, <3>2
  <2> QED BY <1>1, <2>1, <2>2 DEF Hit, Return, lookup, PCs, InUse
<1>2. ASSUME NEW t \in Threads, NEW p \in Pages, NEW f \in Frames, LoadFree(t, p, f) PROVE TypeOK'
  <2>1. replacement_check_queue' \in Seq(Frames)
    BY <1>2 DEF LoadFree
  <2>2. /\ table' \in [Pages -> Frames \cup {NoFrame}]
        /\ page_id' \in [Frames -> Pages \cup {NoPage}]
        /\ pin_count' \in [Frames -> Nat]
        /\ page_data' \in [Frames -> Contents]
    BY <1>2 DEF LoadFree, make_key
  <2> QED BY <1>2, <2>1, <2>2 DEF LoadFree, Return, PCs, InUse
<1>3. ASSUME NEW t \in Threads, NEW p \in Pages, NEW i \in Positions, LoadEvict(t, p, i) PROVE TypeOK'
  <2> DEFINE f == replacement_check_queue[i]
  <2>1. f \in Frames /\ Len(replacement_check_queue) \in Nat /\ i \in Nat /\ i >= 1
    BY DEF Positions
  <2>2. replacement_check_queue' \in Seq(Frames)
    <3>1. QueueAfter(i) \in Seq(Frames)
      BY <2>1 DEF QueueAfter, Positions
    <3> QED BY <1>3, <2>1, <3>1 DEF LoadEvict
  <2>3. page_id[f] \in Pages
    BY <1>3, <2>1 DEF LoadEvict, Free
  <2>4. disk' \in [Pages -> Contents]
    BY <1>3, <2>1, <2>3 DEF LoadEvict, Written
  <2>5. /\ table' \in [Pages -> Frames \cup {NoFrame}]
        /\ page_id' \in [Frames -> Pages \cup {NoPage}]
        /\ pin_count' \in [Frames -> Nat]
        /\ dirty_bit' \in [Frames -> BOOLEAN]
    BY <1>3, <2>1, <2>3 DEF LoadEvict, Remapped, make_key
  <2>6. page_data' \in [Frames -> Contents]
    BY <1>3, <2>1, <2>4 DEF LoadEvict
  <2> HIDE DEF f
  <2> QED BY <1>3, <2>1, <2>2, <2>4, <2>5, <2>6 DEF f, LoadEvict, Return, PCs, InUse
<1>4. ASSUME NEW t \in Threads, NEW p \in Pages, NEW l \in BOOLEAN, Refuse(t, p, l) PROVE TypeOK'
  BY <1>4 DEF Refuse, frames, lookup, PCs, InUse
<1>5. ASSUME NEW t \in Threads, Recover(t) PROVE TypeOK'
  BY <1>5 DEF Recover, frames, lookup, PCs, InUse
<1>6. ASSUME NEW t \in Threads, Modify(t) PROVE TypeOK'
  <2>1. pointer[t] \in Frames
    BY <1>6 DEF Modify, InUse
  <2>2. page_data' \in [Frames -> Contents]
    <3>1. page_data[pointer[t]] + 1 \in Contents
      <4>1. page_data[pointer[t]] \in 0 .. MaxVersion /\ page_data[pointer[t]] < MaxVersion
        BY <1>6, <2>1 DEF Modify, Contents
      <4> QED BY <4>1, Constants DEF Contents
    <3> QED BY <1>6, <2>1, <3>1 DEF Modify
  <2> QED BY <1>6, <2>2 DEF Modify, lookup, PCs, InUse
<1>7. ASSUME NEW t \in Threads, MarkDirty(t) \/ FetchPageWrite(t) PROVE TypeOK'
  <2>1. pointer[t] \in Frames /\ page[t] \in Pages
    BY <1>7 DEF MarkDirty, FetchPageWrite, InUse
  <2> QED BY <1>7, <2>1 DEF MarkDirty, FetchPageWrite, frames, lookup, PCs, InUse
<1>8. ASSUME NEW t \in Threads, CommitWrite(t) PROVE TypeOK'
  <2>1. FrameOf(page[t]) \in Frames /\ page[t] \in Pages
    BY <1>8 DEF CommitWrite, InUse, FrameOf, make_key
  <2>2. pin_count' \in [Frames -> Nat] /\ disk' \in [Pages -> Contents]
    <3>1. pin_count' = [pin_count EXCEPT ![FrameOf(page[t])] = pin_count[FrameOf(page[t])] + 1]
      BY <1>8 DEF CommitWrite
    <3>2. pin_count[FrameOf(page[t])] + 1 \in Nat
      BY <2>1
    <3>3. pin_count' \in [Frames -> Nat]
      BY <2>1, <3>1, <3>2
    <3> QED BY <1>8, <2>1, <3>3 DEF CommitWrite
  <2> QED BY <1>8, <2>1, <2>2 DEF CommitWrite, lookup, PCs, InUse
<1>9. ASSUME NEW f PROVE UnPinned(f) \in [Frames -> Nat]
  <2>1. CASE f \in Frames
    BY <2>1 DEF UnPinned
  <2>2. CASE f \notin Frames
    BY <2>2 DEF UnPinned
  <2> QED BY <2>1, <2>2
<1>10. ASSUME NEW t \in Threads, CommitClear(t) PROVE TypeOK'
  <2>1. page[t] \in Pages
    BY <1>10 DEF CommitClear, InUse
  <2>2. dirty_bit' \in [Frames -> BOOLEAN] /\ pin_count' \in [Frames -> Nat]
    BY <1>9, <1>10 DEF CommitClear
  <2> QED BY <1>10, <2>1, <2>2 DEF CommitClear, lookup, PCs, InUse
<1>11. ASSUME NEW t \in Threads, UnPin(t) PROVE TypeOK'
  <2>1. pin_count' \in [Frames -> Nat]
    BY <1>9, <1>11 DEF UnPin
  <2> QED BY <1>11, <2>1 DEF UnPin, lookup, PCs, InUse
<1>12. ASSUME NEW t \in Threads, Fail(t) PROVE TypeOK'
  <2>1. page[t] \in Pages
    BY <1>12 DEF Fail, InUse
  <2>2. leaked' \in [Pages -> 0 .. MaxLeaks]
    <3>1. leaked[page[t]] \in 0 .. MaxLeaks /\ leaked[page[t]] < MaxLeaks
      BY <1>12, <2>1 DEF Fail
    <3>2. leaked[page[t]] + 1 \in 0 .. MaxLeaks
      BY <3>1, Constants
    <3> QED BY <1>12, <2>1, <3>2 DEF Fail
  <2> QED BY <1>12, <2>2 DEF Fail, frames, lookup, PCs, InUse
<1>13. CASE Shutdown \/ Crash
  <2>1. disk' \in [Pages -> Contents]
    <3>1. final_write \in [Pages -> Contents]
      BY DEF final_write
    <3> QED BY <1>13, <3>1 DEF Shutdown, Crash
  <2>2. Restart
    BY <1>13 DEF Shutdown, Crash
  <2>3. 0 \in Nat /\ 0 \in 0 .. MaxLeaks /\ ZeroPage \in Contents
    BY Constants
  <2>4. /\ page_id' \in [Frames -> Pages \cup {NoPage}]
        /\ pin_count' \in [Frames -> Nat]
        /\ dirty_bit' \in [Frames -> BOOLEAN]
        /\ page_data' \in [Frames -> Contents]
        /\ table' \in [Pages -> Frames \cup {NoFrame}]
        /\ leaked' \in [Pages -> 0 .. MaxLeaks]
    BY <2>2, <2>3 DEF Restart
  <2>5. replacement_check_queue' \in Seq(Frames)
    BY <2>2 DEF Restart
  <2>6. pc' \in [Threads -> PCs] /\ \A t \in Threads : ~InUse(t)'
    BY <2>2 DEF Restart, PCs, InUse
  <2>7. page' \in [Threads -> Pages \cup {NoPage}] /\ pointer' \in [Threads -> Frames \cup {NoFrame}] /\ abandoned' \in BOOLEAN
    BY <2>2 DEF Restart
  <2> HIDE DEF TypeOK
  <2> QED BY <2>1, <2>4, <2>5, <2>6, <2>7 DEF TypeOK
<1>14. CASE UNCHANGED vars
  BY <1>14 DEF vars, frames, lookup, clients, InUse
<1> QED
  BY <1>1, <1>2, <1>3, <1>4, <1>5, <1>6, <1>7, <1>8, <1>10, <1>11, <1>12, <1>13, <1>14
     DEF Next, Step, PageAccess

-----------------------------------------------------------------------------
(* The table and the pointers.                                             *)

LEMMA InitIInv == Init => IInv
<1> SUFFICES ASSUME Init PROVE IInv
  OBVIOUS
<1>1. 0 \in Nat /\ 0 \in 0 .. MaxLeaks /\ ZeroPage \in Contents
  BY Constants
<1>2. /\ page_id \in [Frames -> Pages \cup {NoPage}]
      /\ pin_count \in [Frames -> Nat]
      /\ dirty_bit \in [Frames -> BOOLEAN]
      /\ page_data \in [Frames -> Contents]
      /\ table \in [Pages -> Frames \cup {NoFrame}]
      /\ disk \in [Pages -> Contents]
      /\ leaked \in [Pages -> 0 .. MaxLeaks]
  BY <1>1 DEF Init
<1>3. replacement_check_queue \in Seq(Frames)
  BY DEF Init
<1>4. /\ pc \in [Threads -> PCs]
      /\ page \in [Threads -> Pages \cup {NoPage}]
      /\ pointer \in [Threads -> Frames \cup {NoFrame}]
      /\ abandoned \in BOOLEAN
      /\ \A t \in Threads : pc[t] = "idle"
  BY DEF Init, PCs
<1>5. \A t \in Threads : ~InUse(t)
  BY <1>4 DEF InUse
<1>6. TypeOK
  BY <1>2, <1>3, <1>4, <1>5 DEF TypeOK
<1>7. /\ \A f \in Frames, p \in Pages : page_id[f] # p /\ table[p] # f
      /\ \A p \in Pages : leaked[p] = 0
  BY Constants DEF Init
<1>8. TableMatchesFrames /\ PinsByPage /\ LeaksAreLoaded /\ ChangesAreSaved
  BY <1>7 DEF TableMatchesFrames, PinsByPage, LeaksAreLoaded, ChangesAreSaved, FrameOf, make_key
<1>9. PointersHold /\ CommitsAreHeap
  BY <1>4, <1>5 DEF PointersHold, CommitsAreHeap
<1> QED BY <1>6, <1>8, <1>9 DEF IInv

LEMMA NoFrameIsNoFrame == NoFrame \notin Frames /\ NoPage \notin Pages
BY Constants

LEMMA TableStep ==
    TypeOK /\ TableMatchesFrames /\ [Next]_vars => TableMatchesFrames'
<1> SUFFICES ASSUME TypeOK, TableMatchesFrames, [Next]_vars PROVE TableMatchesFrames'
  OBVIOUS
<1> USE NoFrameIsNoFrame DEF TypeOK, TableMatchesFrames, FrameOf, make_key
<1>1. ASSUME NEW t \in Threads, NEW p \in Pages, NEW f \in Frames, LoadFree(t, p, f)
      PROVE  TableMatchesFrames'
  BY <1>1 DEF LoadFree, FirstFree, Free
<1>2. ASSUME NEW t \in Threads, NEW p \in Pages, NEW i \in Positions, LoadEvict(t, p, i)
      PROVE  TableMatchesFrames'
  <2> DEFINE f == replacement_check_queue[i]
  <2>1. f \in Frames /\ page_id[f] \in Pages
    BY <1>2 DEF LoadEvict, Free, Positions
  <2>2. table' = Remapped(f, p) /\ page_id' = [page_id EXCEPT ![f] = p] /\ table[p] = NoFrame
    BY <1>2 DEF LoadEvict
  <2> HIDE DEF f
  <2> QED BY <2>1, <2>2 DEF Remapped
<1>3. CASE Restart
  BY <1>3 DEF Restart
<1>4. CASE UNCHANGED <<page_id, table>>
  BY <1>4
<1> QED
  BY <1>1, <1>2, <1>3, <1>4
     DEF Next, Step, PageAccess, Hit, Refuse, Recover, Modify, MarkDirty, FetchPageWrite, CommitWrite,
         CommitClear, UnPin, Fail, Shutdown, Crash, vars, frames, lookup

LEMMA PointersStep ==
    TypeOK /\ TableMatchesFrames /\ PointersHold /\ PinsByPage /\ [Next]_vars => PointersHold'
<1> SUFFICES ASSUME TypeOK, TableMatchesFrames, PointersHold, PinsByPage, [Next]_vars PROVE PointersHold'
  OBVIOUS
<1>1. ASSUME NEW t \in Threads, NEW p \in Pages, Hit(t, p) PROVE PointersHold'
  <2>1. FrameOf(p) \in Frames /\ page_id[FrameOf(p)] = p
    BY <1>1 DEF Hit, FrameOf, make_key, TypeOK, TableMatchesFrames
  <2> QED BY <1>1, <2>1 DEF Hit, Return, PointersHold, InUse, TypeOK
<1>2. ASSUME NEW t \in Threads, NEW p \in Pages, NEW f \in Frames, LoadFree(t, p, f)
      PROVE  PointersHold'
  <2>1. \A u \in Threads : InUse(u) => pointer[u] # f /\ pointer[u] \in Frames
    BY <1>2, PointerIsFrame DEF LoadFree, FirstFree
  <2> QED BY <1>2, <2>1 DEF LoadFree, Return, PointersHold, InUse, TypeOK
<1>3. ASSUME NEW t \in Threads, NEW p \in Pages, NEW i \in Positions, LoadEvict(t, p, i)
      PROVE  PointersHold'
  <2> DEFINE f == replacement_check_queue[i]
  <2>1. f \in Frames /\ ~Free(f) /\ pin_count[f] = 0
    BY <1>3 DEF LoadEvict, Positions, Victim, TypeOK
  <2>2. \A u \in Threads : InUse(u) => pointer[u] # f
    BY <2>1, UnpinnedIsUnused
  <2>3. page_id' = [page_id EXCEPT ![f] = p] /\ Return(t, p, f)
    BY <1>3 DEF LoadEvict
  <2> HIDE DEF f
  <2> QED BY <2>1, <2>2, <2>3 DEF Return, PointersHold, InUse, TypeOK
<1>4. CASE Restart
  BY <1>4 DEF Restart, PointersHold, InUse
<1>5. ASSUME NEW t \in Threads,
             \/ \E p \in Pages, l \in BOOLEAN : Refuse(t, p, l) /\ pc[t] = "idle"
             \/ Recover(t) \/ Modify(t) \/ MarkDirty(t) \/ FetchPageWrite(t) \/ CommitWrite(t) \/ CommitClear(t)
      PROVE  PointersHold'
  <2>1. UNCHANGED <<page_id, page, pointer>> /\ \A u \in Threads : InUse(u)' => InUse(u)
    BY <1>5 DEF Refuse, Recover, Modify, MarkDirty, FetchPageWrite, CommitWrite, CommitClear, frames, InUse, TypeOK
  <2> QED BY <2>1 DEF PointersHold
<1>6. ASSUME NEW t \in Threads, UnPin(t) \/ Fail(t) PROVE PointersHold'
  <2>1. /\ UNCHANGED page_id
        /\ \A u \in Threads : InUse(u)' => InUse(u) /\ UNCHANGED <<page[u], pointer[u]>>
    BY <1>6 DEF UnPin, Fail, frames, InUse, TypeOK
  <2> QED BY <2>1 DEF PointersHold
<1>7. CASE UNCHANGED vars
  BY <1>7 DEF vars, frames, clients, PointersHold, InUse
<1>8. CASE Shutdown \/ Crash
  BY <1>4, <1>8 DEF Shutdown, Crash
<1> QED
  BY <1>1, <1>2, <1>3, <1>5, <1>6, <1>7, <1>8 DEF Next, Step, PageAccess

-----------------------------------------------------------------------------
(* The pins of a page, as threads come and go.                             *)

LEMMA PinsType ==
    ASSUME TypeOK, NEW q \in Pages
    PROVE  PinsOn(q) \in Nat /\ leaked[q] \in Nat
<1>1. leaked[q] \in Nat
  BY DEF TypeOK
<1> QED BY <1>1, UsersFinite DEF PinsOn

\* A thread that changes neither its page nor its part in a commit.
LEMMA SamePins ==
    ASSUME \A u \in Threads : InUse(u)' <=> InUse(u),
           \A u \in Threads : pc'[u] = "committing" <=> pc[u] = "committing",
           UNCHANGED <<page, leaked>>, NEW q
    PROVE  PinsOn(q)' = PinsOn(q)
<1>1. Users(q)' = Users(q)
  BY DEF Users
<1>2. Committers(q)' = Committers(q)
  BY DEF Committers
<1> QED BY <1>1, <1>2 DEF PinsOn

\* A thread that gets a page adds a pin to it.
LEMMA JoinPins ==
    ASSUME TypeOK, NEW t \in Threads, ~InUse(t), NEW p \in Pages, NEW f, Return(t, p, f),
           NEW q \in Pages
    PROVE  PinsOn(q)' = IF q = p THEN PinsOn(q) + 1 ELSE PinsOn(q)
<1>1. Users(q)' = IF q = p THEN Users(q) \cup {t} ELSE Users(q)
  BY DEF Return, Users, InUse, TypeOK
<1>2. Committers(q)' = Committers(q)
  BY DEF Return, Committers, InUse, TypeOK
<1>3. t \notin Users(q)
  BY DEF Users
<1>4. Cardinality(Users(q) \cup {t}) = Cardinality(Users(q)) + 1
  BY <1>3, UsersFinite, FS_AddElement
<1>5. leaked'[q] = leaked[q]
  BY DEF Return
<1> QED BY <1>1, <1>2, <1>4, <1>5, UsersFinite, PinsType DEF PinsOn

\* A thread that leaves its page has one pin less on it.
LEMMA LeaveUsers ==
    ASSUME TypeOK, NEW t \in Threads, InUse(t), pc[t] # "committing",
           pc' = [pc EXCEPT ![t] = "idle"], page' = [page EXCEPT ![t] = NoPage],
           NEW q \in Pages
    PROVE  /\ Cardinality(Users(q))' =
                IF q = page[t] THEN Cardinality(Users(q)) - 1 ELSE Cardinality(Users(q))
           /\ Committers(q)' = Committers(q)
<1>1. Users(q)' = Users(q) \ {t}
  BY DEF Users, InUse, TypeOK
<1>2. Committers(q)' = Committers(q)
  BY DEF Committers, TypeOK
<1>3. t \in Users(q) <=> q = page[t]
  BY DEF Users
<1> QED BY <1>1, <1>2, <1>3, UsersFinite, FS_RemoveElement

\* CommitTransaction has one more pin on its page while it is under way.
LEMMA CommitPins ==
    ASSUME TypeOK, NEW t \in Threads, CommitWrite(t), NEW q \in Pages
    PROVE  PinsOn(q)' = IF q = page[t] THEN PinsOn(q) + 1 ELSE PinsOn(q)
<1>1. Users(q)' = Users(q)
  BY DEF CommitWrite, Users, InUse, TypeOK
<1>2. Committers(q)' = IF q = page[t] THEN Committers(q) \cup {t} ELSE Committers(q)
  BY DEF CommitWrite, Committers, TypeOK
<1>3. t \notin Committers(q)
  BY DEF CommitWrite, Committers
<1>4. Cardinality(Committers(q) \cup {t}) = Cardinality(Committers(q)) + 1
  BY <1>3, UsersFinite, FS_AddElement
<1>5. leaked'[q] = leaked[q]
  BY DEF CommitWrite
<1> QED BY <1>1, <1>2, <1>4, <1>5, UsersFinite, PinsType DEF PinsOn

LEMMA ClearPins ==
    ASSUME TypeOK, NEW t \in Threads, CommitClear(t), NEW q \in Pages
    PROVE  PinsOn(q)' = IF q = page[t] THEN PinsOn(q) - 1 ELSE PinsOn(q)
<1>1. Users(q)' = Users(q)
  BY DEF CommitClear, Users, InUse, TypeOK
<1>2. Committers(q)' = Committers(q) \ {t}
  BY DEF CommitClear, Committers, TypeOK
<1>3. t \in Committers(q) <=> q = page[t]
  BY DEF CommitClear, Committers
<1>4. Cardinality(Committers(q) \ {t}) = IF q = page[t] THEN Cardinality(Committers(q)) - 1 ELSE Cardinality(Committers(q))
  BY <1>3, UsersFinite, FS_RemoveElement
<1>5. leaked'[q] = leaked[q]
  BY DEF CommitClear
<1> QED BY <1>1, <1>2, <1>4, <1>5, UsersFinite, PinsType DEF PinsOn

\* A page without a frame has no pins.
LEMMA UnloadedHasNoPins ==
    ASSUME TypeOK, TableMatchesFrames, PointersHold, LeaksAreLoaded,
           NEW q \in Pages, FrameOf(q) = NoFrame
    PROVE  PinsOn(q) = 0
<1>1. \A t \in Threads : InUse(t) => page[t] # q
  BY PointerIsFrame, NoFrameIsNoFrame
<1>2. Users(q) = {} /\ Committers(q) = {}
  BY <1>1 DEF Users, Committers, InUse
<1>3. leaked[q] = 0
  BY DEF LeaksAreLoaded
<1> QED BY <1>2, <1>3, FS_EmptySet DEF PinsOn

LEMMA PinsStep ==
    /\ TypeOK /\ TableMatchesFrames /\ PointersHold /\ PinsByPage /\ LeaksAreLoaded
    /\ [Next]_vars
    => PinsByPage'
<1> SUFFICES ASSUME TypeOK, TableMatchesFrames, PointersHold, PinsByPage, LeaksAreLoaded, [Next]_vars,
                    NEW q \in Pages, NEW g \in Frames, page_id'[g] = q
             PROVE  pin_count'[g] = PinsOn(q)'
  BY DEF PinsByPage
<1>1. page_id[g] = q => pin_count[g] = PinsOn(q) /\ FrameOf(q) = g
  BY DEF PinsByPage, TableMatchesFrames
<1>2. pin_count[g] \in Nat /\ PinsOn(q) \in Nat /\ leaked[q] \in Nat
  BY PinsType DEF TypeOK
<1>3. ASSUME NEW t \in Threads, NEW p \in Pages, pc[t] = "idle", Hit(t, p)
      PROVE  pin_count'[g] = PinsOn(q)'
  <2>1. PinsOn(q)' = IF q = p THEN PinsOn(q) + 1 ELSE PinsOn(q)
    BY <1>3, JoinPins DEF Hit, InUse
  <2>2. page_id[g] = q /\ (q = p <=> FrameOf(p) = g)
    BY <1>3, <1>1 DEF Hit, TableMatchesFrames
  <2>3. pin_count'[g] = IF FrameOf(p) = g THEN pin_count[g] + 1 ELSE pin_count[g]
    BY <1>3 DEF Hit, TypeOK
  <2> QED BY <1>1, <2>1, <2>2, <2>3
<1>4. ASSUME NEW t \in Threads, NEW p \in Pages, NEW f \in Frames, pc[t] = "idle",
             FrameOf(p) = NoFrame, Return(t, p, f),
             page_id' = [page_id EXCEPT ![f] = p], pin_count' = [pin_count EXCEPT ![f] = 1]
      PROVE  pin_count'[g] = PinsOn(q)'
  <2>1. PinsOn(q)' = IF q = p THEN PinsOn(q) + 1 ELSE PinsOn(q)
    BY <1>4, JoinPins DEF InUse
  <2>2. CASE g = f
    <3>1. PinsOn(p) = 0
      BY <1>4, UnloadedHasNoPins
    <3>2. q = p /\ pin_count'[g] = 1
      BY <1>4, <2>2 DEF TypeOK
    <3> QED BY <2>1, <3>1, <3>2
  <2>3. CASE g # f
    <3>1. page_id[g] = q /\ pin_count'[g] = pin_count[g]
      BY <1>4, <2>3 DEF TypeOK
    <3>2. q # p
      BY <3>1, <1>1, <1>4, NoFrameIsNoFrame
    <3> QED BY <2>1, <3>1, <3>2, <1>1
  <2> QED BY <2>2, <2>3
<1>5. ASSUME NEW t \in Threads,
             \/ \E p \in Pages, l \in BOOLEAN : Refuse(t, p, l) /\ pc[t] = "idle"
             \/ Recover(t) \/ Modify(t) \/ MarkDirty(t) \/ FetchPageWrite(t)
      PROVE  pin_count'[g] = PinsOn(q)'
  <2>1. /\ \A u \in Threads : InUse(u)' <=> InUse(u)
        /\ \A u \in Threads : pc'[u] = "committing" <=> pc[u] = "committing"
        /\ UNCHANGED <<page, leaked, page_id, pin_count>>
    BY <1>5 DEF Refuse, Recover, Modify, MarkDirty, FetchPageWrite, frames, InUse, TypeOK
  <2>2. PinsOn(q)' = PinsOn(q)
    BY <2>1, SamePins
  <2> QED BY <1>1, <2>1, <2>2
<1>6. ASSUME NEW t \in Threads, CommitWrite(t) PROVE pin_count'[g] = PinsOn(q)'
  <2>1. PinsOn(q)' = IF q = page[t] THEN PinsOn(q) + 1 ELSE PinsOn(q)
    BY <1>6, CommitPins
  <2>2. page_id[g] = q /\ page[t] \in Pages
    BY <1>6 DEF CommitWrite, TypeOK, InUse
  <2>3. q = page[t] <=> FrameOf(page[t]) = g
    BY <2>2 DEF TableMatchesFrames
  <2>4. pin_count'[g] = IF FrameOf(page[t]) = g THEN pin_count[g] + 1 ELSE pin_count[g]
    BY <1>6 DEF CommitWrite, TypeOK
  <2> QED BY <1>1, <2>1, <2>2, <2>3, <2>4
<1>7. ASSUME NEW t \in Threads, InUse(t), page[t] = q, page_id[g] = q PROVE pin_count[g] > 0
  BY <1>1, <1>7, PointerIsFrame, UsedIsPinned
<1>8. ASSUME NEW t \in Threads, CommitClear(t) PROVE pin_count'[g] = PinsOn(q)'
  <2>1. PinsOn(q)' = IF q = page[t] THEN PinsOn(q) - 1 ELSE PinsOn(q)
    BY <1>8, ClearPins
  <2>2. page_id[g] = q /\ page[t] \in Pages /\ InUse(t)
    BY <1>8 DEF CommitClear, TypeOK, InUse
  <2>3. q = page[t] <=> FrameOf(page[t]) = g
    BY <2>2 DEF TableMatchesFrames
  <2>4. pin_count'[g] = IF FrameOf(page[t]) = g /\ pin_count[g] > 0 THEN pin_count[g] - 1 ELSE pin_count[g]
    BY <1>8 DEF CommitClear, UnPinned, TypeOK
  <2> QED BY <1>1, <1>7, <2>1, <2>2, <2>3, <2>4
<1>9. ASSUME NEW t \in Threads, UnPin(t) PROVE pin_count'[g] = PinsOn(q)'
  <2>1. InUse(t) /\ pc[t] # "committing" /\ page[t] \in Pages /\ page_id[g] = q /\ leaked' = leaked
    BY <1>9 DEF UnPin, MayUnPin, InUse, TypeOK
  <2>2. PinsOn(q)' = IF q = page[t] THEN PinsOn(q) - 1 ELSE PinsOn(q)
    <3>1. /\ Cardinality(Users(q))' = IF q = page[t] THEN Cardinality(Users(q)) - 1 ELSE Cardinality(Users(q))
          /\ Committers(q)' = Committers(q)
      BY <1>9, <2>1, LeaveUsers DEF UnPin
    <3>2. Cardinality(Users(q)) \in Nat /\ Cardinality(Committers(q)) \in Nat
      BY UsersFinite
    <3> QED BY <1>2, <2>1, <3>1, <3>2 DEF PinsOn
  <2>3. q = page[t] <=> FrameOf(page[t]) = g
    BY <2>1 DEF TableMatchesFrames
  <2>4. pin_count'[g] = IF FrameOf(page[t]) = g /\ pin_count[g] > 0 THEN pin_count[g] - 1 ELSE pin_count[g]
    BY <1>9 DEF UnPin, UnPinned, TypeOK
  <2> QED BY <1>1, <1>7, <2>1, <2>2, <2>3, <2>4
<1>10. ASSUME NEW t \in Threads, Fail(t) PROVE pin_count'[g] = PinsOn(q)'
  <2>1. InUse(t) /\ pc[t] # "committing" /\ page[t] \in Pages /\ page_id[g] = q /\ pin_count' = pin_count
    BY <1>10 DEF Fail, InUse, TypeOK, frames
  <2>2. leaked'[q] = IF q = page[t] THEN leaked[q] + 1 ELSE leaked[q]
    BY <1>10, <2>1 DEF Fail, TypeOK
  <2>3. PinsOn(q)' = PinsOn(q)
    <3>1. /\ Cardinality(Users(q))' = IF q = page[t] THEN Cardinality(Users(q)) - 1 ELSE Cardinality(Users(q))
          /\ Committers(q)' = Committers(q)
      BY <1>10, <2>1, LeaveUsers DEF Fail
    <3>2. Cardinality(Users(q)) \in Nat /\ Cardinality(Committers(q)) \in Nat
      BY UsersFinite
    <3> QED BY <1>2, <2>1, <2>2, <3>1, <3>2 DEF PinsOn
  <2> QED BY <1>1, <2>1, <2>3
<1>11. CASE Shutdown \/ Crash
  <2>1. page_id'[g] = NoPage
    BY <1>11 DEF Shutdown, Crash, Restart
  <2> QED BY <2>1, NoFrameIsNoFrame
<1>12. CASE UNCHANGED vars
  <2>1. PinsOn(q)' = PinsOn(q)
    BY <1>12, SamePins DEF vars, clients, InUse
  <2> QED BY <1>1, <1>12, <2>1 DEF vars, frames
<1>13. ASSUME NEW t \in Threads, NEW p \in Pages, NEW l \in BOOLEAN, PageAccess(t, p, l)
       PROVE  pin_count'[g] = PinsOn(q)'
  <2>1. ASSUME NEW f \in Frames, LoadFree(t, p, f) PROVE pin_count'[g] = PinsOn(q)'
    BY <1>4, <1>13, <2>1 DEF LoadFree, PageAccess
  <2>2. ASSUME NEW i \in Positions, LoadEvict(t, p, i) PROVE pin_count'[g] = PinsOn(q)'
    <3>1. replacement_check_queue[i] \in Frames
      BY DEF Positions, TypeOK
    <3> QED BY <1>4, <1>13, <2>2, <3>1 DEF LoadEvict, PageAccess
  <2> QED BY <1>3, <1>5, <1>13, <2>1, <2>2 DEF PageAccess
<1> QED
  BY <1>5, <1>6, <1>8, <1>9, <1>10, <1>11, <1>12, <1>13 DEF Next, Step

-----------------------------------------------------------------------------
(* Commits, leaked pins and unsaved changes.                               *)

LEMMA CommitsStep == TypeOK /\ CommitsAreHeap /\ [Next]_vars => CommitsAreHeap'
<1> SUFFICES ASSUME TypeOK, CommitsAreHeap, [Next]_vars, NEW u \in Threads, pc'[u] = "committing"
             PROVE  page'[u][1] = "HEAP"
  BY DEF CommitsAreHeap
<1> USE DEF TypeOK, CommitsAreHeap
<1>1. ASSUME NEW t \in Threads, NEW p \in Pages, NEW l \in BOOLEAN, PageAccess(t, p, l)
      PROVE  page'[u][1] = "HEAP"
  BY <1>1 DEF PageAccess, Hit, LoadFree, LoadEvict, Return, Refuse
<1>2. ASSUME NEW t \in Threads,
             Recover(t) \/ Modify(t) \/ MarkDirty(t) \/ FetchPageWrite(t) \/ CommitWrite(t)
               \/ CommitClear(t) \/ UnPin(t) \/ Fail(t)
      PROVE  page'[u][1] = "HEAP"
  BY <1>2 DEF Recover, Modify, MarkDirty, FetchPageWrite, CommitWrite, CommitClear, UnPin, Fail
<1>3. CASE Shutdown \/ Crash
  BY <1>3 DEF Shutdown, Crash, Restart
<1>4. CASE UNCHANGED vars
  BY <1>4 DEF vars, clients
<1> QED
  BY <1>1, <1>2, <1>3, <1>4 DEF Next, Step

LEMMA LeaksStep ==
    /\ TypeOK /\ TableMatchesFrames /\ PointersHold /\ PinsByPage /\ LeaksAreLoaded
    /\ [Next]_vars
    => LeaksAreLoaded'
<1> SUFFICES ASSUME TypeOK, TableMatchesFrames, PointersHold, PinsByPage, LeaksAreLoaded, [Next]_vars,
                    NEW q \in Pages, FrameOf(q)' = NoFrame
             PROVE  leaked'[q] = 0
  BY DEF LeaksAreLoaded
<1> USE DEF FrameOf, make_key
<1>1. ASSUME NEW t \in Threads, NEW p \in Pages, NEW f \in Frames, LoadFree(t, p, f)
      PROVE  leaked'[q] = 0
  BY <1>1, NoFrameIsNoFrame DEF LoadFree, Return, LeaksAreLoaded, TypeOK
<1>2. ASSUME NEW t \in Threads, NEW p \in Pages, NEW i \in Positions, LoadEvict(t, p, i)
      PROVE  leaked'[q] = 0
  <2> DEFINE f == replacement_check_queue[i]
  <2>1. f \in Frames /\ ~Free(f) /\ pin_count[f] = 0
    BY <1>2 DEF LoadEvict, Positions, Victim, TypeOK
  <2>2. leaked[page_id[f]] = 0
    BY <2>1, UnpinnedIsUnused
  <2>3. table' = Remapped(f, p) /\ leaked' = leaked
    BY <1>2 DEF LoadEvict, Return
  <2> HIDE DEF f
  <2> QED BY <2>1, <2>2, <2>3, NoFrameIsNoFrame DEF Remapped, LeaksAreLoaded, TypeOK
<1>3. ASSUME NEW t \in Threads, Fail(t) PROVE leaked'[q] = 0
  <2>1. FrameOf(page[t]) # NoFrame
    BY <1>3, PointerIsFrame, NoFrameIsNoFrame DEF Fail, InUse
  <2>2. q # page[t]
    BY <1>3, <2>1 DEF Fail, lookup
  <2> QED BY <1>3, <2>2 DEF Fail, lookup, LeaksAreLoaded, TypeOK
<1>4. CASE Shutdown \/ Crash
  BY <1>4 DEF Shutdown, Crash, Restart
<1>5. CASE UNCHANGED <<table, leaked>>
  BY <1>5 DEF LeaksAreLoaded
<1> QED
  BY <1>1, <1>2, <1>3, <1>4, <1>5
     DEF Next, Step, PageAccess, Hit, Return, Refuse, Recover, Modify, MarkDirty, FetchPageWrite,
         CommitWrite, CommitClear, UnPin, vars, frames, lookup

LEMMA SavedStep ==
    /\ TypeOK /\ TableMatchesFrames /\ PointersHold /\ CommitsAreHeap /\ ChangesAreSaved
    /\ [Next]_vars
    => ChangesAreSaved'
<1> DEFINE Committing(q) == \E t \in Threads : pc[t] = "committing" /\ page[t] = q
           Accounted(q)  == leaked[q] > 0 \/ \E t \in Threads : Unsaved(t, q)
<1> SUFFICES ASSUME TypeOK, TableMatchesFrames, PointersHold, CommitsAreHeap, ChangesAreSaved,
                    [Next]_vars, NEW q \in Pages, NEW g \in Frames,
                    page_id'[g] = q, page_data'[g] # disk'[q], ~dirty_bit'[g] \/ Committing(q)'
             PROVE  Accounted(q)'
  BY DEF ChangesAreSaved
<1>1. ASSUME page_id[g] = q, page_data[g] # disk[q], ~dirty_bit[g] \/ Committing(q)
      PROVE  Accounted(q)
  BY <1>1 DEF ChangesAreSaved
<1>2. page_id[g] = q => FrameOf(q) = g
  BY DEF TableMatchesFrames
<1>3. ASSUME NEW t \in Threads, NEW p \in Pages, NEW f \in Frames, pc[t] = "idle", Return(t, p, f)
      PROVE  (Committing(q)' => Committing(q)) /\ (Accounted(q) => Accounted(q)')
  BY <1>3 DEF Return, Unsaved, TypeOK
<1>4. ASSUME NEW t \in Threads, NEW p \in Pages, pc[t] = "idle", Hit(t, p) PROVE Accounted(q)'
  <2>1. FrameOf(p) \in Frames
    BY <1>4 DEF Hit, FrameOf, make_key, TypeOK
  <2>2. Return(t, p, FrameOf(p)) /\ UNCHANGED <<page_id, page_data, disk, dirty_bit>>
    BY <1>4 DEF Hit
  <2> QED BY <1>1, <1>3, <1>4, <2>1, <2>2
<1>5. ASSUME NEW t \in Threads, NEW p \in Pages, NEW f \in Frames, pc[t] = "idle", LoadFree(t, p, f)
      PROVE  Accounted(q)'
  <2>1. g # f
    BY <1>5 DEF LoadFree, TypeOK
  <2>2. page_id[g] = q /\ page_data'[g] = page_data[g] /\ dirty_bit' = dirty_bit /\ disk' = disk
    BY <1>5, <2>1 DEF LoadFree, TypeOK
  <2>3. Return(t, p, f)
    BY <1>5 DEF LoadFree
  <2> QED BY <1>1, <1>3, <1>5, <2>2, <2>3
<1>6. ASSUME NEW t \in Threads, NEW p \in Pages, NEW i \in Positions, pc[t] = "idle", LoadEvict(t, p, i)
      PROVE  Accounted(q)'
  <2> DEFINE f == replacement_check_queue[i]
  <2>1. f \in Frames /\ page_id[f] \in Pages
    BY <1>6 DEF LoadEvict, Positions, Free, TypeOK
  <2>2. /\ disk' = Written(f) /\ page_id' = [page_id EXCEPT ![f] = p] /\ Return(t, p, f)
        /\ dirty_bit' = [dirty_bit EXCEPT ![f] = FALSE]
        /\ page_data' = [page_data EXCEPT ![f] = disk'[p]]
    BY <1>6 DEF LoadEvict
  <2> HIDE DEF f
  <2>3. g # f
    BY <2>1, <2>2 DEF TypeOK
  <2>4. page_id[g] = q /\ page_data'[g] = page_data[g] /\ dirty_bit'[g] = dirty_bit[g]
    BY <2>1, <2>2, <2>3 DEF TypeOK
  <2>5. page_id[f] # q
    BY <1>2, <2>1, <2>3, <2>4 DEF TableMatchesFrames
  <2>6. disk'[q] = disk[q]
    BY <2>1, <2>2, <2>5 DEF Written, TypeOK
  <2> QED BY <1>1, <1>3, <1>6, <2>1, <2>2, <2>4, <2>6
<1>7. ASSUME NEW t \in Threads,
             \/ \E p \in Pages, l \in BOOLEAN : Refuse(t, p, l) /\ pc[t] = "idle"
             \/ Recover(t)
      PROVE  Accounted(q)'
  <2>1. UNCHANGED <<page_id, page_data, disk, dirty_bit, page, leaked>>
    BY <1>7 DEF Refuse, Recover, frames
  <2>2. \A u \in Threads : pc'[u] # pc[u] => pc[u] \in {"idle", "refused"} /\ pc'[u] \in {"idle", "refused"}
    BY <1>7 DEF Refuse, Recover, TypeOK
  <2>3. (Committing(q)' => Committing(q)) /\ (Accounted(q) => Accounted(q)')
    BY <2>1, <2>2 DEF Unsaved
  <2> QED BY <1>1, <2>1, <2>3
\* The rest are steps of a thread on its page: what becomes of that page, and of others.
<1>8. ASSUME NEW t \in Threads, InUse(t), page[t] # q,
             \A u \in Threads : u # t => UNCHANGED <<pc[u], page[u]>>,
             page'[t] \in {page[t], NoPage}, leaked'[q] = leaked[q]
      PROVE  (Committing(q)' => Committing(q)) /\ (Accounted(q) => Accounted(q)')
  BY <1>8, NoFrameIsNoFrame DEF Unsaved
<1>9. ASSUME NEW t \in Threads, InUse(t)
      PROVE  /\ pointer[t] \in Frames /\ page[t] \in Pages /\ FrameOf(page[t]) = pointer[t]
             /\ page_id[pointer[t]] = page[t]
  BY <1>9, PointerIsFrame
<1>10. ASSUME NEW t \in Threads, Modify(t) PROVE Accounted(q)'
  <2>1. InUse(t) /\ page_id' = page_id
    BY <1>10 DEF Modify, InUse
  <2>2. CASE page[t] = q
    BY <1>10, <2>2 DEF Modify, Unsaved, TypeOK
  <2>3. CASE page[t] # q
    <3>1. g # pointer[t]
      BY <1>9, <2>1, <2>3
    <3>2. page_data'[g] = page_data[g] /\ UNCHANGED <<disk, dirty_bit>>
      BY <1>10, <3>1 DEF Modify, TypeOK
    <3>3. (Committing(q)' => Committing(q)) /\ (Accounted(q) => Accounted(q)')
      BY <1>8, <1>10, <2>1, <2>3 DEF Modify, TypeOK
    <3> QED BY <1>1, <2>1, <3>2, <3>3
  <2> QED BY <2>2, <2>3
<1>11. ASSUME NEW t \in Threads, MarkDirty(t) PROVE Accounted(q)'
  <2>1. InUse(t) /\ UNCHANGED <<page_id, page_data, disk>>
    BY <1>11 DEF MarkDirty, InUse
  <2>2. CASE page[t] = q
    <3>1. g = pointer[t]
      BY <1>2, <1>9, <2>1, <2>2
    <3>2. dirty_bit'[g] = TRUE
      BY <1>9, <1>11, <2>1, <3>1 DEF MarkDirty, TypeOK
    <3>3. Committing(q)
      BY <1>11, <3>2 DEF MarkDirty, TypeOK
    <3>4. q[1] = "HEAP"
      BY <3>3 DEF CommitsAreHeap
    <3> QED BY <1>11, <2>2, <3>4 DEF MarkDirty, Unsaved, TypeOK
  <2>3. CASE page[t] # q
    <3>1. g # pointer[t]
      BY <1>9, <2>1, <2>3
    <3>2. dirty_bit'[g] = dirty_bit[g]
      BY <1>11, <3>1 DEF MarkDirty, TypeOK
    <3>3. (Committing(q)' => Committing(q)) /\ (Accounted(q) => Accounted(q)')
      BY <1>8, <1>11, <2>1, <2>3 DEF MarkDirty, TypeOK
    <3> QED BY <1>1, <2>1, <3>2, <3>3
  <2> QED BY <2>2, <2>3
<1>12. ASSUME NEW t \in Threads, FetchPageWrite(t) \/ CommitWrite(t) PROVE Accounted(q)'
  <2>1. InUse(t) /\ UNCHANGED <<page_id, page_data, dirty_bit, page, leaked>>
    BY <1>12 DEF FetchPageWrite, CommitWrite, InUse, frames
  <2>2. disk' = [disk EXCEPT ![page[t]] = page_data[pointer[t]]]
    BY <1>9, <1>12, <2>1 DEF FetchPageWrite, CommitWrite
  <2>3. page[t] # q
    BY <1>2, <1>9, <2>1, <2>2 DEF TypeOK
  <2>4. disk'[q] = disk[q]
    BY <2>2, <2>3 DEF TypeOK
  <2>5. (Committing(q)' => Committing(q)) /\ (Accounted(q) => Accounted(q)')
    BY <1>8, <1>12, <2>1, <2>3 DEF FetchPageWrite, CommitWrite, TypeOK
  <2> QED BY <1>1, <2>1, <2>4, <2>5
<1>13. ASSUME NEW t \in Threads, CommitClear(t) PROVE Accounted(q)'
  <2>1. /\ InUse(t) /\ UNCHANGED <<page_id, page_data, disk, page, leaked>>
        /\ (Committing(q)' => Committing(q)) /\ (Accounted(q) => Accounted(q)')
    BY <1>13 DEF CommitClear, InUse, Unsaved, TypeOK
  <2>2. CASE page[t] = q
    <3>1. Committing(q)
      BY <1>13, <2>2 DEF CommitClear
    <3> QED BY <1>1, <2>1, <3>1
  <2>3. CASE page[t] # q
    <3>1. g # FrameOf(page[t])
      BY <1>9, <2>1, <2>3
    <3>2. dirty_bit'[g] = dirty_bit[g]
      BY <1>13, <3>1 DEF CommitClear, TypeOK
    <3> QED BY <1>1, <2>1, <3>2
  <2> QED BY <2>2, <2>3
<1>14. ASSUME NEW t \in Threads, UnPin(t) PROVE Accounted(q)'
  <2>1. UNCHANGED <<page_id, page_data, disk, dirty_bit, leaked>>
    BY <1>14 DEF UnPin
  <2>2. (Committing(q)' => Committing(q)) /\ (Accounted(q) => Accounted(q)')
    BY <1>14 DEF UnPin, MayUnPin, Unsaved, TypeOK
  <2> QED BY <1>1, <2>1, <2>2
<1>15. ASSUME NEW t \in Threads, Fail(t) PROVE Accounted(q)'
  <2>1. InUse(t) /\ page[t] \in Pages /\ UNCHANGED <<page_id, page_data, disk, dirty_bit>>
    BY <1>15, <1>9 DEF Fail, InUse, frames
  <2>2. CASE page[t] = q
    <3>1. leaked'[q] = leaked[q] + 1 /\ leaked[q] \in Nat
      BY <1>15, <2>2 DEF Fail, TypeOK
    <3> QED BY <3>1
  <2>3. CASE page[t] # q
    <3>1. (Committing(q)' => Committing(q)) /\ (Accounted(q) => Accounted(q)')
      BY <1>8, <1>15, <2>1, <2>3 DEF Fail, TypeOK
    <3> QED BY <1>1, <2>1, <3>1
  <2> QED BY <2>2, <2>3
<1>16. CASE Shutdown \/ Crash
  <2>1. page_id'[g] = NoPage
    BY <1>16 DEF Shutdown, Crash, Restart
  <2> QED BY <2>1, NoFrameIsNoFrame
<1>17. CASE UNCHANGED vars
  <2>1. (Committing(q)' => Committing(q)) /\ (Accounted(q) => Accounted(q)')
    BY <1>17 DEF vars, clients, Unsaved
  <2> QED BY <1>1, <1>17, <2>1 DEF vars, frames
<1> HIDE DEF Accounted, Committing
<1> QED
  BY <1>4, <1>5, <1>6, <1>7, <1>10, <1>11, <1>12, <1>13, <1>14, <1>15, <1>16, <1>17
     DEF Next, Step, PageAccess

-----------------------------------------------------------------------------
(* The replacement queue.                                                  *)

\* Where position j of the queue was before the victim at position i of n moved
\* to the end.
Source(n, i, j) == IF j <= n - i THEN j + i ELSE IF j < n THEN j - (n - i) ELSE i

LEMMA QueueAfterEviction ==
    ASSUME TypeOK, NEW i \in Positions,
           replacement_check_queue' = Append(QueueAfter(i), replacement_check_queue[i])
    PROVE  /\ Positions' = Positions
           /\ \A j \in Positions :
                /\ Source(Len(replacement_check_queue), i, j) \in Positions
                /\ replacement_check_queue'[j]
                     = replacement_check_queue[Source(Len(replacement_check_queue), i, j)]
           /\ \A k \in Positions : \E j \in Positions : Source(Len(replacement_check_queue), i, j) = k
           /\ \A j, k \in Positions : Source(Len(replacement_check_queue), i, j)
                                        = Source(Len(replacement_check_queue), i, k) => j = k
<1> DEFINE q == replacement_check_queue
           n == Len(q)
           back  == SubSeq(q, i + 1, n)
           front == SubSeq(q, 1, i - 1)
<1>1. q \in Seq(Frames) /\ Len(q) = n /\ n \in Nat /\ i \in 1 .. n /\ Positions = 1 .. n
  BY DEF TypeOK, Positions
<1>2. q' = Append(back \o front, q[i])
  BY DEF QueueAfter
<1>3. Positions' = 1 .. Len(q')
  BY DEF Positions
<1> HIDE DEF q
<1>4. /\ back \in Seq(Frames) /\ Len(back) = n - i
      /\ \A j \in 1 .. n - i : back[j] = q[j + i]
  BY <1>1
<1>5. /\ front \in Seq(Frames) /\ Len(front) = i - 1
      /\ \A j \in 1 .. i - 1 : front[j] = q[j]
  BY <1>1
<1> HIDE DEF back, front, n
<1>6. /\ back \o front \in Seq(Frames) /\ Len(back \o front) = n - 1
      /\ \A j \in 1 .. n - 1 : (back \o front)[j] = IF j <= n - i THEN q[j + i] ELSE q[j - (n - i)]
  <2>1. back \o front \in Seq(Frames) /\ Len(back \o front) = n - 1
    <3>1. back \in Seq(Frames) /\ front \in Seq(Frames)
      BY <1>4, <1>5
    <3>2. back \o front \in Seq(Frames) /\ Len(back \o front) = Len(back) + Len(front)
      BY <3>1
    <3> QED BY <1>1, <1>4, <1>5, <3>2
  <2>2. ASSUME NEW j \in 1 .. n - 1
        PROVE  (back \o front)[j] = IF j <= n - i THEN q[j + i] ELSE q[j - (n - i)]
    <3>1. (back \o front)[j] = IF j <= n - i THEN back[j] ELSE front[j - (n - i)]
      BY <1>1, <1>4, <1>5
    <3>2. CASE j <= n - i
      BY <1>1, <1>4, <3>1, <3>2
    <3>3. CASE ~(j <= n - i)
      <4>1. j - (n - i) \in 1 .. i - 1
        BY <1>1, <3>3
      <4> QED BY <1>5, <3>1, <3>3, <4>1
    <3> QED BY <3>2, <3>3
  <2> QED BY <2>1, <2>2
<1>7. q[i] \in Frames
  BY <1>1
<1>8. Len(q') = n
  BY <1>1, <1>2, <1>6, <1>7
<1>9. ASSUME NEW j \in 1 .. n PROVE Source(n, i, j) \in 1 .. n /\ q'[j] = q[Source(n, i, j)]
  <2>1. Source(n, i, j) \in 1 .. n
    BY <1>1 DEF Source
  <2>2. q'[j] = IF j < n THEN (back \o front)[j] ELSE q[i]
    BY <1>1, <1>2, <1>6, <1>7
  <2>3. j < n => j \in 1 .. n - 1
    BY <1>1
  <2> QED BY <1>1, <1>6, <2>1, <2>2, <2>3 DEF Source
<1>10. ASSUME NEW k \in 1 .. n PROVE \E j \in 1 .. n : Source(n, i, j) = k
  <2>1. CASE k > i
    <3>1. k - i \in 1 .. n /\ Source(n, i, k - i) = k
      BY <1>1, <2>1 DEF Source
    <3> QED BY <3>1
  <2>2. CASE k < i
    <3>1. k + (n - i) \in 1 .. n /\ Source(n, i, k + (n - i)) = k
      BY <1>1, <2>2 DEF Source
    <3> QED BY <3>1
  <2>3. CASE k = i
    <3>1. n \in 1 .. n /\ Source(n, i, n) = k
      BY <1>1, <2>3 DEF Source
    <3> QED BY <3>1
  <2> QED BY <1>1, <2>1, <2>2, <2>3
<1>11. \A j, k \in 1 .. n : Source(n, i, j) = Source(n, i, k) => j = k
  BY <1>1 DEF Source
<1> QED BY <1>1, <1>3, <1>8, <1>9, <1>10, <1>11 DEF q, n

LEMMA QueueStep ==
    TypeOK /\ QueueHoldsOccupied /\ [Next]_vars => QueueHoldsOccupied'
<1> SUFFICES ASSUME TypeOK, QueueHoldsOccupied, [Next]_vars PROVE QueueHoldsOccupied'
  OBVIOUS
<1>1. ASSUME NEW t \in Threads, NEW p \in Pages, NEW f \in Frames, LoadFree(t, p, f)
      PROVE  QueueHoldsOccupied'
  <2> DEFINE q == replacement_check_queue
             n == Len(q)
  <2>1. q \in Seq(Frames) /\ n \in Nat /\ Positions = 1 .. n /\ \A i \in 1 .. n : q[i] \in Frames
    BY DEF TypeOK, Positions
  <2>2. q' = Append(q, f)
    BY <1>1 DEF LoadFree
  <2>3. Positions' = 1 .. n + 1 /\ q'[n + 1] = f /\ \A i \in 1 .. n : q'[i] = q[i]
    BY <2>1, <2>2 DEF Positions
  <2>4. \A i \in 1 .. n : q[i] # f
    BY <1>1, <2>1 DEF QueueHoldsOccupied, LoadFree, FirstFree
  <2>5. \A g \in Frames : Free(g)' <=> (Free(g) /\ g # f)
    BY <1>1, NoFrameIsNoFrame DEF LoadFree, Free, TypeOK
  <2>6. \A i \in 1 .. n + 1 : i \in 1 .. n \/ i = n + 1
    BY <2>1
  <2>7. n + 1 \in 1 .. n + 1 /\ 1 .. n \subseteq 1 .. n + 1
    BY <2>1
  <2>8. /\ \A g \in Frames : ~Free(g) <=> \E i \in 1 .. n : q[i] = g
        /\ \A i, j \in 1 .. n : q[i] = q[j] => i = j
    BY <2>1 DEF QueueHoldsOccupied
  <2> HIDE DEF q, n
  <2>9. \A g \in Frames : ~Free(g)' <=> \E i \in 1 .. n + 1 : q'[i] = g
    BY <2>3, <2>5, <2>6, <2>7, <2>8
  <2>10. \A i, j \in 1 .. n + 1 : q'[i] = q'[j] => i = j
    BY <2>3, <2>4, <2>6, <2>8
  <2> QED BY <2>3, <2>9, <2>10 DEF q, QueueHoldsOccupied
<1>2. ASSUME NEW t \in Threads, NEW p \in Pages, NEW i \in Positions, LoadEvict(t, p, i)
      PROVE  QueueHoldsOccupied'
  <2> DEFINE q == replacement_check_queue
             S(j) == Source(Len(q), i, j)
  <2>1. /\ Positions' = Positions
        /\ \A j \in Positions : S(j) \in Positions /\ q'[j] = q[S(j)]
        /\ \A k \in Positions : \E j \in Positions : S(j) = k
        /\ \A j, k \in Positions : S(j) = S(k) => j = k
    BY <1>2, QueueAfterEviction DEF LoadEvict
  <2>2. \A g \in Frames : ~Free(g) /\ ~Free(g)'
    <3>1. \A g \in Frames : ~Free(g)
      BY <1>2 DEF LoadEvict
    <3>2. page_id' = [page_id EXCEPT ![q[i]] = p]
      BY <1>2 DEF LoadEvict
    <3> QED BY <3>1, <3>2, NoFrameIsNoFrame DEF Free, TypeOK
  <2>3. \A g \in Frames : \E k \in Positions : q[k] = g
    BY <2>2 DEF QueueHoldsOccupied
  <2>4. \A j, k \in Positions : q[j] = q[k] => j = k
    BY DEF QueueHoldsOccupied
  <2> HIDE DEF q, S
  <2>5. \A g \in Frames : \E j \in Positions : q'[j] = g
    BY <2>1, <2>3
  <2>6. \A j, k \in Positions : q'[j] = q'[k] => j = k
    BY <2>1, <2>4
  <2> QED BY <2>1, <2>2, <2>5, <2>6 DEF q, QueueHoldsOccupied
<1>3. CASE Shutdown \/ Crash
  BY <1>3 DEF Shutdown, Crash, Restart, QueueHoldsOccupied, Positions, Free
<1>4. CASE UNCHANGED <<page_id, replacement_check_queue>>
  BY <1>4 DEF QueueHoldsOccupied, Positions, Free
<1> QED
  BY <1>1, <1>2, <1>3, <1>4
     DEF Next, Step, PageAccess, Hit, Refuse, Recover, Modify, MarkDirty, FetchPageWrite, CommitWrite,
         CommitClear, UnPin, Fail, vars, frames, lookup

-----------------------------------------------------------------------------
(* What holds in every state.                                              *)

LEMMA IInvStep == IInv /\ [Next]_vars => IInv'
BY TypeOKStep, TableStep, PointersStep, PinsStep, CommitsStep, LeaksStep, SavedStep DEF IInv

LEMMA Invariance == Spec => []IInv
BY InitIInv, IInvStep, PTL DEF Spec

\* Every variable keeps its type: in particular no pin count becomes negative and
\* a thread at work on a page has a frame and a page.
THEOREM TypeCorrect == Spec => []TypeOK
<1>1. IInv => TypeOK
  BY DEF IInv
<1> QED BY <1>1, Invariance, PTL

\* page_access and page_replacement_policy keep the page table and the frames in
\* step: no page is ever in two frames, none is mapped to a frame of another page.
THEOREM TableMatches == Spec => []TableMatchesFrames
<1>1. IInv => TableMatchesFrames
  BY DEF IInv
<1> QED BY <1>1, Invariance, PTL

\* The pin count of a frame is the number of its users, of its commits and of the
\* pins its failed statements left behind (page_access, un_pin).
THEOREM PinsExact == Spec => []PinsAreExact
<1>1. IInv => PinsAreExact
  <2> SUFFICES ASSUME IInv, NEW f \in Frames, ~Free(f)
               PROVE  pin_count[f] = Cardinality(Users(page_id[f]))
                        + Cardinality(Committers(page_id[f])) + leaked[page_id[f]]
    BY DEF PinsAreExact
  <2>1. page_id[f] \in Pages
    BY DEF IInv, TypeOK, Free
  <2> QED BY <2>1 DEF IInv, PinsByPage, PinsOn
<1> QED BY <1>1, Invariance, PTL

\* The Page * of a thread is never pulled from under it: its frame holds its page
\* and has a pin until the thread gives the page back.
THEOREM PointersValid == Spec => []PointersStayValid
<1>1. IInv => PointersStayValid
  BY PointerIsFrame, UsedIsPinned DEF IInv, PointersStayValid
<1> QED BY <1>1, Invariance, PTL

LEMMA IInvPersisted == IInv => EvictableIsPersisted
<1> SUFFICES ASSUME IInv, NEW f \in Frames, ~Free(f), pin_count[f] = 0, ~dirty_bit[f],
                    page_data[f] # disk[page_id[f]]
             PROVE  FALSE
  BY DEF EvictableIsPersisted
<1>1. page_id[f] \in Pages
  BY DEF IInv, TypeOK, Free
<1>2. leaked[page_id[f]] = 0 /\ \A t \in Threads : InUse(t) => page[t] # page_id[f]
  BY UnpinnedIsUnused DEF IInv
<1>3. \E t \in Threads : Unsaved(t, page_id[f])
  BY <1>1, <1>2 DEF IInv, ChangesAreSaved
<1> QED BY <1>2, <1>3 DEF Unsaved, InUse

\* What the replacement may drop without writing it is in the file, in whatever
\* order inserts set the dirty bit and commits reset it (wal.cpp:97-109).
THEOREM EvictablePersisted == Spec => []EvictableIsPersisted
BY IInvPersisted, Invariance, PTL

\* No frame is ever lost from the replacement queue or queued twice.
THEOREM QueueComplete == Spec => []QueueHoldsOccupied
<1>1. Init => QueueHoldsOccupied
  BY DEF Init, QueueHoldsOccupied, Positions, Free
<1>2. Init => TypeOK
  BY InitIInv DEF IInv
<1> QED BY <1>1, <1>2, QueueStep, TypeOKStep, PTL DEF Spec

\* The frames, the page table and the replacement queue tell of the same pages, each once.
THEOREM BookkeepingKept == Spec => []BookkeepingAgrees
<1>1. TableMatchesFrames /\ QueueHoldsOccupied => BookkeepingAgrees
  BY DEF BookkeepingAgrees
<1> QED BY <1>1, TableMatches, QueueComplete, PTL

\* page_access refuses a page only when every frame has a pin.
THEOREM RefusedOnlyWhenPinned == Spec => RefusedOnlyWhenAllPinned
<1>1. TypeOK /\ QueueHoldsOccupied /\ [Next]_vars
        => [\A t \in Threads : pc[t] # "refused" /\ pc'[t] = "refused" =>
               \A f \in Frames : pin_count[f] > 0]_vars
  <2> SUFFICES ASSUME TypeOK, QueueHoldsOccupied, [Next]_vars,
                      NEW u \in Threads, pc[u] # "refused", pc'[u] = "refused", NEW f \in Frames
               PROVE  pin_count[f] > 0
    OBVIOUS
  <2>1. ASSUME NEW t \in Threads, NEW p \in Pages, NEW l \in BOOLEAN, Refuse(t, p, l)
        PROVE  pin_count[f] > 0
    <3>1. \A g \in Frames : ~Free(g)
      BY <2>1 DEF Refuse
    <3>2. PICK i \in Positions : replacement_check_queue[i] = f
      BY <3>1 DEF QueueHoldsOccupied
    <3>3. pin_count[f] # 0 /\ pin_count[f] \in Nat
      BY <2>1, <3>2 DEF Refuse, TypeOK
    <3> QED BY <3>3
  <2>2. ASSUME NEW t \in Threads, NEW p \in Pages, NEW l \in BOOLEAN, PageAccess(t, p, l),
               ~Refuse(t, p, l)
        PROVE  FALSE
    BY <2>2 DEF PageAccess, Hit, LoadFree, LoadEvict, Return, TypeOK
  <2>3. ASSUME NEW t \in Threads,
               Recover(t) \/ Modify(t) \/ MarkDirty(t) \/ FetchPageWrite(t) \/ CommitWrite(t)
                 \/ CommitClear(t) \/ UnPin(t) \/ Fail(t)
        PROVE  FALSE
    BY <2>3 DEF Recover, Modify, MarkDirty, FetchPageWrite, CommitWrite, CommitClear, UnPin, Fail, TypeOK
  <2>4. ~Shutdown /\ ~Crash /\ ~UNCHANGED vars
    BY DEF Shutdown, Crash, Restart, vars, clients
  <2> QED BY <2>1, <2>2, <2>3, <2>4 DEF Next, Step
<1> QED BY <1>1, TypeCorrect, QueueComplete, PTL DEF Spec, RefusedOnlyWhenAllPinned

-----------------------------------------------------------------------------
(* The end of the program, and the page store the pool implements.         *)

\* What the files hold after final_write.
LEMMA FinalWrite ==
    ASSUME IInv, NEW p \in Pages
    PROVE  final_write[p] = IF \E f \in Frames : page_id[f] = p /\ dirty_bit[f] THEN Content(p) ELSE disk[p]
<1>1. CASE \E f \in Frames : page_id[f] = p /\ dirty_bit[f]
  <2> DEFINE f == CHOOSE f \in Frames : page_id[f] = p /\ dirty_bit[f]
  <2>1. f \in Frames /\ page_id[f] = p
    BY <1>1
  <2>2. final_write[p] = page_data[f]
    BY <1>1 DEF final_write
  <2> HIDE DEF f
  <2>3. FrameOf(p) = f
    BY <2>1 DEF IInv, TableMatchesFrames
  <2> QED BY <1>1, <2>1, <2>2, <2>3, NoFrameIsNoFrame DEF Content
<1>2. CASE ~\E f \in Frames : page_id[f] = p /\ dirty_bit[f]
  BY <1>2 DEF final_write
<1> QED BY <1>1, <1>2

\* Of an orderly shutdown every page comes back as its users left it, except where
\* a statement failed in the middle of its change.
THEOREM ShutdownKeeps == Spec => ShutdownKeepsChanges
<1>1. IInv /\ [Next]_vars
        => [Shutdown => \A p \in Pages : leaked[p] = 0 => disk'[p] = Content(p)]_vars
  <2> SUFFICES ASSUME IInv, Shutdown, NEW p \in Pages, leaked[p] = 0
               PROVE  disk'[p] = Content(p)
    OBVIOUS
  <2>1. disk'[p] = final_write[p]
    BY DEF Shutdown
  <2>2. CASE \E f \in Frames : page_id[f] = p /\ dirty_bit[f]
    BY <2>1, <2>2, FinalWrite
  <2>3. CASE FrameOf(p) = NoFrame
    BY <2>1, <2>3, FinalWrite DEF Content
  <2>4. CASE FrameOf(p) # NoFrame /\ ~\E f \in Frames : page_id[f] = p /\ dirty_bit[f]
    <3>1. FrameOf(p) \in Frames /\ page_id[FrameOf(p)] = p
      BY <2>4 DEF IInv, TypeOK, TableMatchesFrames, FrameOf, make_key
    <3>2. page_data[FrameOf(p)] = disk[p]
      BY <2>4, <3>1 DEF IInv, ChangesAreSaved, Unsaved, Shutdown
    <3> QED BY <2>1, <2>4, <3>2, FinalWrite DEF Content
  <2> QED BY <2>2, <2>3, <2>4
<1> QED BY <1>1, Invariance, PTL DEF Spec, ShutdownKeepsChanges

\* The pool as a page store: loading, evicting and writing back change no content.
LEMMA StepRefines ==
    IInv /\ [Next]_vars => [Store!Next]_<<Current, disk>>
<1> SUFFICES ASSUME IInv, [Next]_vars
             PROVE  Store!Next \/ (Current' = Current /\ disk' = disk)
  OBVIOUS
<1> USE DEF IInv
<1>1. ASSUME \A p \in Pages : Content(p)' = Content(p) PROVE Current' = Current
  BY <1>1 DEF Current
<1>2. ASSUME UNCHANGED <<table, page_data, disk>> PROVE Current' = Current /\ disk' = disk
  BY <1>1, <1>2 DEF Content, FrameOf, make_key
<1>3. ASSUME NEW p \in Pages, disk' = [disk EXCEPT ![p] = Content(p)], Current' = Current
      PROVE  Store!Next
  <2>1. Current[p] = Content(p)
    BY DEF Current
  <2> QED BY <1>3, <2>1 DEF Store!Next, Store!Persist
<1>4. ASSUME NEW t \in Threads, NEW p \in Pages, NEW f \in Frames, LoadFree(t, p, f)
      PROVE  Current' = Current /\ disk' = disk
  <2>1. \A q \in Pages : q # p => FrameOf(q) # f
    BY <1>4, NoFrameIsNoFrame DEF LoadFree, FirstFree, Free, TableMatchesFrames
  <2>2. \A q \in Pages : Content(q)' = Content(q)
    BY <1>4, <2>1, NoFrameIsNoFrame DEF LoadFree, Content, FrameOf, make_key, TypeOK
  <2> QED BY <1>1, <1>4, <2>2 DEF LoadFree
<1>5. ASSUME NEW t \in Threads, NEW p \in Pages, NEW i \in Positions, LoadEvict(t, p, i)
      PROVE  Store!Next \/ (Current' = Current /\ disk' = disk)
  <2>1. PICK f \in Frames, e \in Pages :
            f = replacement_check_queue[i] /\ e = page_id[f] /\ ~Free(f) /\ pin_count[f] = 0
    BY <1>5 DEF LoadEvict, Positions, Victim, Free, TypeOK
  <2>2. /\ disk' = Written(f) /\ table' = Remapped(f, p)
        /\ page_data' = [page_data EXCEPT ![f] = disk'[p]] /\ FrameOf(p) = NoFrame
    BY <1>5, <2>1 DEF LoadEvict
  <2>3. FrameOf(e) = f /\ e # p
    BY <2>1, <2>2, NoFrameIsNoFrame DEF TableMatchesFrames
  <2>4. Content(e) = page_data[f]
    BY <2>1, <2>3, NoFrameIsNoFrame DEF Content
  <2>5. ~dirty_bit[f] => page_data[f] = disk[e]
    BY <2>1, IInvPersisted DEF EvictableIsPersisted
  <2>6. disk' = [disk EXCEPT ![e] = Content(e)] \/ disk' = disk
    BY <2>1, <2>2, <2>4 DEF Written
  <2>7. disk'[e] = Content(e) /\ \A q \in Pages : q # e => disk'[q] = disk[q]
    BY <2>1, <2>2, <2>4, <2>5 DEF Written, TypeOK
  <2>8. \A q \in Pages : q # e => FrameOf(q) # f
    BY <2>1 DEF TableMatchesFrames
  <2>9. /\ FrameOf(e)' = NoFrame
        /\ FrameOf(p)' = f
        /\ \A q \in Pages : q # e /\ q # p => FrameOf(q)' = FrameOf(q)
    BY <2>1, <2>2, <2>3 DEF Remapped, FrameOf, make_key, TypeOK
  <2>10. Content(e)' = Content(e)
    BY <2>7, <2>9 DEF Content
  <2>11. Content(p)' = Content(p)
    BY <2>1, <2>2, <2>3, <2>7, <2>9, NoFrameIsNoFrame DEF Content, TypeOK
  <2>12. ASSUME NEW q \in Pages, q # e, q # p PROVE Content(q)' = Content(q)
    <3>1. FrameOf(q) # NoFrame => FrameOf(q) \in Frames
      BY DEF FrameOf, make_key, TypeOK
    <3>2. FrameOf(q) # NoFrame => page_data'[FrameOf(q)] = page_data[FrameOf(q)]
      BY <2>2, <2>8, <2>12, <3>1 DEF TypeOK
    <3> QED BY <2>7, <2>9, <2>12, <3>2 DEF Content
  <2>13. Current' = Current
    BY <1>1, <2>10, <2>11, <2>12
  <2> QED BY <1>3, <2>1, <2>6, <2>13
<1>6. ASSUME NEW t \in Threads, InUse(t)
      PROVE  /\ pointer[t] \in Frames /\ page[t] \in Pages /\ FrameOf(page[t]) = pointer[t]
             /\ Content(page[t]) = page_data[pointer[t]]
  BY <1>6, PointerIsFrame, NoFrameIsNoFrame DEF Content
<1>7. ASSUME NEW t \in Threads, Modify(t) PROVE Store!Next
  <2>1. InUse(t)
    BY <1>7 DEF Modify, InUse
  <2>2. PICK f \in Frames, p \in Pages :
            f = pointer[t] /\ p = page[t] /\ FrameOf(p) = f /\ Content(p) = page_data[f]
    BY <1>6, <2>1
  <2>3. /\ page_data' = [page_data EXCEPT ![f] = page_data[f] + 1] /\ page_data[f] < MaxVersion
        /\ UNCHANGED <<table, disk>>
    BY <1>7, <2>2 DEF Modify, lookup
  <2>4. Content(p)' = Content(p) + 1
    BY <2>2, <2>3, NoFrameIsNoFrame DEF Content, FrameOf, make_key, TypeOK
  <2>5. ASSUME NEW q \in Pages, q # p PROVE Content(q)' = Content(q)
    <3>1. FrameOf(q) # f
      BY <2>2, <2>5 DEF TableMatchesFrames
    <3> QED BY <2>2, <2>3, <3>1 DEF Content, FrameOf, make_key, TypeOK
  <2>6. Content(p) \in Contents /\ Content(p) + 1 \in Contents
    <3>1. page_data[f] \in 0 .. MaxVersion
      BY <2>2 DEF TypeOK, Contents
    <3>2. page_data[f] + 1 \in 0 .. MaxVersion
      BY <2>3, <3>1, Constants
    <3> QED BY <2>2, <3>1, <3>2 DEF Contents
  <2>7. Current[p] = Content(p) /\ Current'[p] = Content(p) + 1
    BY <2>2, <2>4 DEF Current
  <2>8. <<Current[p], Current'[p]>> \in {e \in Contents \X Contents : e[2] = e[1] + 1}
    BY <2>6, <2>7
  <2>9. Current' = [Current EXCEPT ![p] = Current'[p]]
    BY <2>2, <2>5 DEF Current
  <2>10. Store!Write(p)
    BY <2>3, <2>8, <2>9 DEF Store!Write, Store!Edit
  <2> QED BY <2>2, <2>10 DEF Store!Next
<1>8. ASSUME NEW t \in Threads, FetchPageWrite(t) \/ CommitWrite(t) PROVE Store!Next
  <2>1. InUse(t) /\ UNCHANGED <<table, page_data>>
    BY <1>8 DEF FetchPageWrite, CommitWrite, InUse, frames, lookup
  <2>2. disk' = [disk EXCEPT ![page[t]] = page_data[pointer[t]]]
    BY <1>6, <1>8, <2>1 DEF FetchPageWrite, CommitWrite
  <2>3. \A q \in Pages : Content(q)' = Content(q)
    BY <1>6, <2>1, <2>2 DEF Content, FrameOf, make_key, TypeOK
  <2> QED BY <1>1, <1>3, <1>6, <2>1, <2>2, <2>3
<1>9. ASSUME Restart, NEW S \in SUBSET Pages,
             disk' = [p \in Pages |-> IF p \in S THEN Current[p] ELSE disk[p]]
      PROVE  Store!Next
  <2>1. \A p \in Pages : Content(p)' = disk'[p]
    BY <1>9 DEF Restart, Content, FrameOf, make_key
  <2>2. Current' = disk'
    BY <1>9, <2>1 DEF Current
  <2> QED BY <1>9, <2>2 DEF Store!Next, Store!Stop
<1>10. CASE Shutdown
  <2> DEFINE S == {p \in Pages : \E f \in Frames : page_id[f] = p /\ dirty_bit[f]}
  <2>1. \A p \in Pages : final_write[p] = IF p \in S THEN Current[p] ELSE disk[p]
    BY FinalWrite DEF Current
  <2>2. final_write = [p \in Pages |-> final_write[p]]
    BY DEF final_write
  <2>3. disk' = [p \in Pages |-> IF p \in S THEN Current[p] ELSE disk[p]]
    BY <1>10, <2>1, <2>2 DEF Shutdown
  <2> QED BY <1>9, <1>10, <2>3 DEF Shutdown
<1>11. CASE Crash
  <2>1. disk' = [p \in Pages |-> IF p \in {} THEN Current[p] ELSE disk[p]]
    BY <1>11 DEF Crash, TypeOK
  <2>2. {} \in SUBSET Pages /\ Restart
    BY <1>11 DEF Crash
  <2> QED BY <1>9, <2>1, <2>2
<1> QED
  BY <1>2, <1>4, <1>5, <1>7, <1>8, <1>10, <1>11
     DEF Next, Step, PageAccess, Hit, Refuse, Recover, MarkDirty, CommitClear, UnPin, Fail,
         vars, frames, lookup

\* The buffer pool is a cache and nothing more: whatever is loaded, evicted, written
\* back or refused, readers see the content users last wrote, and a file only ever
\* receives the current content of its page.
THEOREM Implements == Spec => ImplementsPageStore
<1>1. Init => Store!Init
  <2> SUFFICES ASSUME Init PROVE Store!Init
    OBVIOUS
  <2>1. \A p \in Pages : Content(p) = ZeroPage
    BY DEF Init, Content, FrameOf, make_key
  <2> QED BY <2>1 DEF Init, Store!Init, Current
<1> QED BY <1>1, StepRefines, Invariance, PTL DEF Spec, ImplementsPageStore, Store!Spec
=============================================================================
