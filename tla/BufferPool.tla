----------------------------- MODULE BufferPool -----------------------------
(***************************************************************************)
(* The buffer pool of src/src/storage_manager/buffer_manager.{cpp,hpp} and *)
(* the way its callers use it: get a page (page_access), work on it        *)
(* through the returned pointer, give it back (un_pin).  Heap pages are    *)
(* changed by an insert, which marks the page and then commits it through  *)
(* the WAL (insert.cpp:12-21, wal.cpp:97-109); index pages are written when*)
(* they are new and otherwise only marked (index_writer.cpp).              *)
(*                                                                         *)
(* A call of page_access or un_pin is one step, under buffer_pool_lock or  *)
(* not.  The commit keeps the lock over two steps: page changes, un_pin and*)
(* index pages do without the lock and can fall between its write_page and *)
(* its reset of the dirty bit.  A scan or an insert whose page_access      *)
(* throws never reaches its unlock() and leaves the lock taken for good.   *)
(***************************************************************************)
EXTENDS Naturals, Sequences, FiniteSets

CONSTANTS
    Threads,        \* worker threads
    NumFrames,      \* buffer_size: 50 in the code
    HeapPids,       \* page numbers of the heap file
    IndexPids,      \* page numbers of the index file
    NoPage,         \* page_id of a free frame: INVALID_PAGE_ID
    MaxVersion,     \* bound: changes to one page
    MaxLeaks        \* bound: pins one page loses to failing statements

ASSUME BufferPoolAssumption ==
    /\ IsFiniteSet(Threads)
    /\ NumFrames \in Nat \ {0}
    /\ MaxVersion \in Nat
    /\ MaxLeaks \in Nat
    /\ NoPage \notin ({"HEAP"} \X HeapPids) \cup ({"INDEX"} \X IndexPids)

Frames   == 1 .. NumFrames
NoFrame  == 0
Pages    == ({"HEAP"} \X HeapPids) \cup ({"INDEX"} \X IndexPids)
Contents == 0 .. MaxVersion     \* a page as the number of changes it has seen
ZeroPage == 0                   \* read_page past the end of the file

VARIABLES
    page_id,        \* the page in each frame, with its type
    pin_count,
    dirty_bit,
    page_data,
    table,          \* PageKey -> frame
    replacement_check_queue,
    disk,           \* the heap and index files
    pc,             \* where each thread is
    page,           \* the page it works on
    pointer,        \* the Page * page_access returned to it
    abandoned,      \* buffer_pool_lock was left taken by a call that threw
    leaked          \* history: pins of each page nobody will give back

frames  == <<page_id, pin_count, dirty_bit, page_data>>
lookup  == <<table, replacement_check_queue>>
clients == <<pc, page, pointer>>
vars    == <<frames, lookup, disk, clients, abandoned, leaked>>

\* pinned: holds the page, has changed nothing it still has to save.  modified:
\* changed the page, dirty_bit not yet set.  marked: dirty_bit set.  committing:
\* inside CommitTransaction, page written, dirty bit not yet reset.  saved: back
\* from it.  refused: page_access threw.
PCs == {"idle", "pinned", "modified", "marked", "committing", "saved", "refused"}

InUse(t) == pc[t] \in {"pinned", "modified", "marked", "committing", "saved"}

\* buffer_pool_lock is free: nobody is in the middle of a commit, and nobody left
\* it taken.
Unlocked == ~abandoned /\ \A t \in Threads : pc[t] # "committing"

TypeOK ==
    /\ page_id \in [Frames -> Pages \cup {NoPage}]
    /\ pin_count \in [Frames -> Nat]
    /\ dirty_bit \in [Frames -> BOOLEAN]
    /\ page_data \in [Frames -> Contents]
    /\ table \in [Pages -> Frames \cup {NoFrame}]
    /\ replacement_check_queue \in Seq(Frames)
    /\ disk \in [Pages -> Contents]
    /\ pc \in [Threads -> PCs]
    /\ page \in [Threads -> Pages \cup {NoPage}]
    /\ pointer \in [Threads -> Frames \cup {NoFrame}]
    /\ abandoned \in BOOLEAN
    /\ leaked \in [Pages -> 0 .. MaxLeaks]
    /\ \A t \in Threads : InUse(t) => page[t] \in Pages /\ pointer[t] \in Frames

Init ==
    /\ page_id = [f \in Frames |-> NoPage]
    /\ pin_count = [f \in Frames |-> 0]
    /\ dirty_bit = [f \in Frames |-> FALSE]
    /\ page_data = [f \in Frames |-> ZeroPage]
    /\ table = [p \in Pages |-> NoFrame]
    /\ replacement_check_queue = << >>
    /\ disk = [p \in Pages |-> ZeroPage]
    /\ pc = [t \in Threads |-> "idle"]
    /\ page = [t \in Threads |-> NoPage]
    /\ pointer = [t \in Threads |-> NoFrame]
    /\ abandoned = FALSE
    /\ leaked = [p \in Pages |-> 0]

-----------------------------------------------------------------------------
(* page_access and page_replacement_policy.                                *)

\* mutant: pages are keyed by number alone
make_key_pid(p) == <<"HEAP", p[2]>>

\* (type << 32) | pid: one key per page of either file.
make_key(p) == p

FrameOf(p) == table[make_key(p)]

Free(f) == page_id[f] = NoPage

\* The first free frame of the array.
FirstFree(f) == Free(f) /\ \A g \in Frames : g < f => ~Free(g)

\* mutant: any queued frame will do
Victim_any(i) == i = 1

\* The replacement queue is rotated until a frame without pins is in front.
Victim(i) ==
    /\ pin_count[replacement_check_queue[i]] = 0
    /\ \A j \in 1 .. i - 1 : pin_count[replacement_check_queue[j]] # 0

Positions == 1 .. Len(replacement_check_queue)

\* mutant: the frames found pinned are dropped instead of pushed back
QueueAfter_dropped(i) ==
    SubSeq(replacement_check_queue, i + 1, Len(replacement_check_queue))

\* The queue once the victim at position i is taken out of it.
QueueAfter(i) ==
    SubSeq(replacement_check_queue, i + 1, Len(replacement_check_queue))
        \o SubSeq(replacement_check_queue, 1, i - 1)

\* The pointer page_access returns to thread t.
Return(t, p, f) ==
    /\ pc' = [pc EXCEPT ![t] = "pinned"]
    /\ page' = [page EXCEPT ![t] = p]
    /\ pointer' = [pointer EXCEPT ![t] = f]
    /\ UNCHANGED <<abandoned, leaked>>

Hit(t, p) ==
    /\ FrameOf(p) # NoFrame
    /\ pin_count' = [pin_count EXCEPT ![FrameOf(p)] = @ + 1]
    /\ Return(t, p, FrameOf(p))
    /\ UNCHANGED <<page_id, dirty_bit, page_data, lookup, disk>>

LoadFree(t, p, f) ==
    /\ FrameOf(p) = NoFrame
    /\ FirstFree(f)
    /\ page_id' = [page_id EXCEPT ![f] = p]
    /\ pin_count' = [pin_count EXCEPT ![f] = 1]
    /\ table' = [table EXCEPT ![make_key(p)] = f]
    /\ replacement_check_queue' = Append(replacement_check_queue, f)
    /\ page_data' = [page_data EXCEPT ![f] = disk[p]]
    /\ Return(t, p, f)
    /\ UNCHANGED <<dirty_bit, disk>>

\* mutant: the victim is written back only if somebody still pins it
Written_pinned(f) ==
    IF dirty_bit[f] /\ pin_count[f] > 0 THEN [disk EXCEPT ![page_id[f]] = page_data[f]] ELSE disk
\* The files after the victim in frame f is written back.
Written(f) == IF dirty_bit[f] THEN [disk EXCEPT ![page_id[f]] = page_data[f]] ELSE disk

\* The table once frame f holds p instead of the page it held.
Remapped(f, p) ==
    [table EXCEPT ![make_key(page_id[f])] = NoFrame, ![make_key(p)] = f]

LoadEvict(t, p, i) ==
    LET f == replacement_check_queue[i] IN
    /\ FrameOf(p) = NoFrame
    /\ \A g \in Frames : ~Free(g)
    /\ Victim(i)
    /\ disk' = Written(f)
    /\ table' = Remapped(f, p)
    /\ page_id' = [page_id EXCEPT ![f] = p]
    /\ pin_count' = [pin_count EXCEPT ![f] = 1]
    /\ dirty_bit' = [dirty_bit EXCEPT ![f] = FALSE]
    /\ replacement_check_queue' = Append(QueueAfter(i), f)
    /\ page_data' = [page_data EXCEPT ![f] = disk'[p]]
    /\ Return(t, p, f)

\* Every queued frame is pinned: the queue turns once and the call throws, past
\* the unlock() of a caller that took the lock.
Refuse(t, p, locked) ==
    /\ FrameOf(p) = NoFrame
    /\ \A g \in Frames : ~Free(g)
    /\ \A i \in Positions : pin_count[replacement_check_queue[i]] # 0
    /\ pc' = [pc EXCEPT ![t] = "refused"]
    /\ abandoned' = (abandoned \/ locked)
    /\ UNCHANGED <<frames, lookup, disk, page, pointer, leaked>>

\* A scan and an insert take the lock around the call; the index code and
\* get_last_pid (a heap page, given back at once) do not.
PageAccess(t, p, locked) ==
    /\ pc[t] = "idle"
    /\ locked => Unlocked /\ p[1] = "HEAP"
    /\ \/ Hit(t, p)
       \/ \E f \in Frames : LoadFree(t, p, f)
       \/ \E i \in Positions : LoadEvict(t, p, i)
       \/ Refuse(t, p, locked)

\* The worker catches the exception and takes its next request.
Recover(t) ==
    /\ pc[t] = "refused"
    /\ pc' = [pc EXCEPT ![t] = "idle"]
    /\ UNCHANGED <<frames, lookup, disk, page, pointer, abandoned, leaked>>

-----------------------------------------------------------------------------
(* Working on a page.                                                      *)

\* The change itself, made through the pointer and without the lock.
Modify(t) ==
    /\ pc[t] = "pinned"
    /\ page_data[pointer[t]] < MaxVersion
    /\ page_data' = [page_data EXCEPT ![pointer[t]] = @ + 1]
    /\ pc' = [pc EXCEPT ![t] = "modified"]
    /\ UNCHANGED <<page_id, pin_count, dirty_bit, lookup, disk, page, pointer, abandoned, leaked>>

MarkDirty(t) ==
    /\ pc[t] = "modified"
    /\ dirty_bit' = [dirty_bit EXCEPT ![pointer[t]] = TRUE]
    /\ pc' = [pc EXCEPT ![t] = "marked"]
    /\ UNCHANGED <<page_id, pin_count, page_data, lookup, disk, page, pointer, abandoned, leaked>>

\* fetch_page initialises a new index page and writes it, without setting its
\* dirty_bit; the caller may go on to change the page or give it back.
FetchPageWrite(t) ==
    /\ pc[t] = "modified"
    /\ page[t][1] = "INDEX"
    /\ disk' = [disk EXCEPT ![page[t]] = page_data[pointer[t]]]
    /\ pc' = [pc EXCEPT ![t] = "pinned"]
    /\ UNCHANGED <<frames, lookup, page, pointer, abandoned, leaked>>

\* CommitTransaction takes the lock and pins the page once more; the caller's own
\* pin makes that access a hit.  Then it writes the page through.
CommitWrite(t) ==
    /\ pc[t] = "marked"
    /\ page[t][1] = "HEAP"
    /\ Unlocked
    /\ FrameOf(page[t]) # NoFrame
    /\ pin_count' = [pin_count EXCEPT ![FrameOf(page[t])] = @ + 1]
    /\ disk' = [disk EXCEPT ![page[t]] = page_data[FrameOf(page[t])]]
    /\ pc' = [pc EXCEPT ![t] = "committing"]
    /\ UNCHANGED <<page_id, dirty_bit, page_data, lookup, page, pointer, abandoned, leaked>>

\* mutant: the pin is given back twice and nothing stops the count at zero
UnPinned_twice(f) == [pin_count EXCEPT ![f] = @ - 2]
\* mutant: the pin is kept
UnPinned_kept(f) == pin_count
\* un_pin: a pin count never goes below zero.
UnPinned(f) ==
    [pin_count EXCEPT ![f] = IF pin_count[f] > 0 THEN pin_count[f] - 1 ELSE pin_count[f]]

\* ... resets the dirty bit, gives its pin back and the lock up.
CommitClear(t) ==
    /\ pc[t] = "committing"
    /\ dirty_bit' = [dirty_bit EXCEPT ![FrameOf(page[t])] = FALSE]
    /\ pin_count' = UnPinned(FrameOf(page[t]))
    /\ pc' = [pc EXCEPT ![t] = "saved"]
    /\ UNCHANGED <<page_id, page_data, lookup, disk, page, pointer, abandoned, leaked>>

\* mutant: a writer that has not saved its change gives the page back
MayUnPin_early(t) == pc[t] \in {"pinned", "modified", "marked", "saved"}
MayUnPin(t) ==
    \/ pc[t] \in {"pinned", "saved"}
    \/ pc[t] = "marked" /\ page[t][1] = "INDEX"

UnPin(t) ==
    /\ MayUnPin(t)
    /\ FrameOf(page[t]) # NoFrame
    /\ pin_count' = UnPinned(FrameOf(page[t]))
    /\ pc' = [pc EXCEPT ![t] = "idle"]
    /\ page' = [page EXCEPT ![t] = NoPage]
    /\ pointer' = [pointer EXCEPT ![t] = NoFrame]
    /\ UNCHANGED <<page_id, dirty_bit, page_data, lookup, disk, abandoned, leaked>>

\* A statement throws while it has the page: a full slot array, a row that does
\* not fit, a log at its last LSN, a missing key.  No handler gives the pin back.
Fail(t) ==
    /\ pc[t] \in {"pinned", "modified", "marked"}
    /\ leaked[page[t]] < MaxLeaks
    /\ leaked' = [leaked EXCEPT ![page[t]] = @ + 1]
    /\ pc' = [pc EXCEPT ![t] = "idle"]
    /\ page' = [page EXCEPT ![t] = NoPage]
    /\ pointer' = [pointer EXCEPT ![t] = NoFrame]
    /\ UNCHANGED <<frames, lookup, disk, abandoned>>

-----------------------------------------------------------------------------
(* The end of the program.                                                 *)

\* mutant: the destructor does not call final_write
final_write_skipped == disk
\* The files after every dirty frame is written.
final_write ==
    [p \in Pages |->
        IF \E f \in Frames : page_id[f] = p /\ dirty_bit[f]
        THEN page_data[CHOOSE f \in Frames : page_id[f] = p /\ dirty_bit[f]]
        ELSE disk[p]]

\* The next start: a pool without pages, and threads without work.
Restart ==
    /\ page_id' = [f \in Frames |-> NoPage]
    /\ pin_count' = [f \in Frames |-> 0]
    /\ dirty_bit' = [f \in Frames |-> FALSE]
    /\ page_data' = [f \in Frames |-> ZeroPage]
    /\ table' = [p \in Pages |-> NoFrame]
    /\ replacement_check_queue' = << >>
    /\ pc' = [t \in Threads |-> "idle"]
    /\ page' = [t \in Threads |-> NoPage]
    /\ pointer' = [t \in Threads |-> NoFrame]
    /\ abandoned' = FALSE
    /\ leaked' = [p \in Pages |-> 0]

\* The destructor of the pool calls final_write.
Shutdown ==
    /\ \A t \in Threads : pc[t] = "idle"
    /\ disk' = final_write
    /\ Restart

\* The process dies between any two steps, and starts again.
Crash == Restart /\ UNCHANGED disk

Step(t) ==
    \/ \E p \in Pages, locked \in BOOLEAN : PageAccess(t, p, locked)
    \/ Recover(t)
    \/ Modify(t)
    \/ MarkDirty(t)
    \/ FetchPageWrite(t)
    \/ CommitWrite(t)
    \/ CommitClear(t)
    \/ UnPin(t)
    \/ Fail(t)

Next == (\E t \in Threads : Step(t)) \/ Shutdown \/ Crash

Spec == Init /\ [][Next]_vars

-----------------------------------------------------------------------------
(* Properties.                                                             *)

\* The table and the frames describe the same pages: a page is mapped to a frame
\* exactly when that frame holds it.  So no page is in two frames, and a heap and
\* an index page of the same number do not share one.
TableMatchesFrames ==
    \A p \in Pages, f \in Frames : FrameOf(p) = f <=> page_id[f] = p

\* The replacement queue holds every occupied frame, once, and no free frame.  A
\* frame missing from it could never be evicted again.
QueueHoldsOccupied ==
    /\ \A f \in Frames : ~Free(f) <=> \E i \in Positions : replacement_check_queue[i] = f
    /\ \A i, j \in Positions :
         replacement_check_queue[i] = replacement_check_queue[j] => i = j

\* The pool's three accounts of its frames, what each holds, where each page is and what
\* may be replaced next, agree after every hit, eviction, refusal and restart.
BookkeepingAgrees == TableMatchesFrames /\ QueueHoldsOccupied

\* The pins of a frame are exactly those its users hold: one for every thread at
\* work on the page, one more for a commit under way, and the leaked ones.
Users(p)    == {t \in Threads : InUse(t) /\ page[t] = p}
Committers(p) == {t \in Threads : pc[t] = "committing" /\ page[t] = p}
PinsAreExact ==
    \A f \in Frames : ~Free(f) =>
        pin_count[f] = Cardinality(Users(page_id[f])) + Cardinality(Committers(page_id[f]))
                         + leaked[page_id[f]]

\* The Page * a thread got stays good until it gives the page back: the frame it
\* points to still holds that page and cannot be evicted.
PointersStayValid ==
    \A t \in Threads : InUse(t) =>
        page_id[pointer[t]] = page[t] /\ pin_count[pointer[t]] > 0

\* A frame the replacement may take without writing it holds what the file holds.
\* The dirty bit is reset under the lock but set without it, and a commit resets
\* it after other inserts may have changed the page again.
EvictableIsPersisted ==
    \A f \in Frames : ~Free(f) /\ pin_count[f] = 0 /\ ~dirty_bit[f] =>
        page_data[f] = disk[page_id[f]]

\* "All pages are pinned" is thrown only when they are: not because a frame got
\* lost from the queue.
RefusedOnlyWhenAllPinned ==
    [][\A t \in Threads : pc[t] # "refused" /\ pc'[t] = "refused" =>
         \A f \in Frames : pin_count[f] > 0]_vars

\* A statement that failed keeps no lock: once its worker has recovered, the pool
\* can be used again (worker_function.hpp:144-145).
FailedStatementReleasesLock == abandoned => \E t \in Threads : pc[t] = "refused"

\* What a reader of the page sees.
Content(p) == IF FrameOf(p) # NoFrame THEN page_data[FrameOf(p)] ELSE disk[p]

\* An orderly shutdown loses no change but those of statements that failed.
ShutdownKeepsChanges ==
    [][Shutdown => \A p \in Pages : leaked[p] = 0 => disk'[p] = Content(p)]_vars

Current == [p \in Pages |-> Content(p)]

Store == INSTANCE PageStore WITH
            content <- Current,
            stable <- disk,
            Edits <- {e \in Contents \X Contents : e[2] = e[1] + 1}

\* Caching is invisible: hits, loads, evictions and write-backs never change what
\* a reader of any page sees, and the file only ever gets the current content.
ImplementsPageStore == Store!Spec
=============================================================================
