-------------------------------- MODULE WAL --------------------------------
(***************************************************************************)
(* The write-ahead log of src/src/wal/wal.cpp with the file operation      *)
(* behind it (Disk_operator::write_to_wal) and the inserts that use it     *)
(* (insert.cpp:16-21): an insert puts its row on a heap page, commits it,  *)
(* and only then answers.  CommitTransaction holds wal_mutex from its      *)
(* first to its last step, but the page it writes is shared with other     *)
(* inserts, and the process may die between any two of its writes.         *)
(*                                                                         *)
(* The pages are what PageStore promises of the buffer pool: `content' is  *)
(* what a page holds, `stable' what is in the heap file.                   *)
(***************************************************************************)
EXTENDS Integers, Sequences

CONSTANTS
    Threads,        \* worker threads that insert
    Pids,           \* heap pages
    MaxSlots,       \* MAX_SLOTS, the rows of a page: 10 in the code
    MaxLsn,         \* the largest lsn a page header can hold: 65535 in the code
    MaxInserts,     \* bound: inserts in a behaviour
    MaxStops,       \* bound: crashes and shutdowns in a behaviour
    MaxMisreads     \* bound: records redone in a behaviour that are none

ASSUME WALAssumption ==
    /\ MaxSlots \in Nat \ {0}
    /\ MaxLsn \in Nat
    /\ MaxInserts \in Nat
    /\ MaxStops \in Nat
    /\ MaxMisreads \in Nat

Rows    == 1 .. MaxInserts      \* the row of each insert
NoRow   == 0
Garbage == -1                   \* bytes that are not the row of any insert
Slots   == 1 .. MaxSlots

\* Rows have one size, so a slot stands for its offset too.  count is slot_count:
\* a scan sees the rows of the slots up to it.
HeapPage == [count : 0 .. MaxSlots,
             data : [Slots -> Rows \cup {NoRow, Garbage}],
             lsn : 0 .. MaxLsn]
ZeroPage == [count |-> 0, data |-> [s \in Slots |-> NoRow], lsn |-> 0]

\* A record in wal.bin: whole, or cut off by a crash within its row or before it.
LogEntry == [kind : {"whole", "no_row", "fragment"},
             lsn : 1 .. MaxLsn, pid : Pids, slot : Slots, row : Rows]

VARIABLES
    content,    \* the heap pages as the buffer pool serves them
    stable,     \* the heap file
    log,        \* wal.bin behind its header
    header,     \* last_entry_offset, as an index into log; 0 when unset
    LSN,
    pc,         \* where each insert is
    rid,        \* the page and slot its row went to
    row,
    cursor,     \* offset of ReplayTransaction, as an index; 0 outside it
    stray,      \* the offset is not at the beginning of that record but in its bytes
    misreads,   \* history: how often a replay took such bytes for a record and redid it
    inserts,    \* inserts started so far
    stops,      \* crashes and shutdowns so far
    acked       \* history: inserts the client was told about

pages    == <<content, stable>>
wal_file == <<log, header>>
clients  == <<pc, rid, row, inserts, acked>>
replay   == <<cursor, stray, misreads>>
vars     == <<pages, wal_file, LSN, replay, clients, stops>>

\* written: row on the page.  logging: in CommitTransaction, record not yet in the
\* file.  appended: record in the file.  logged: header names it.  flushed: page
\* written, wal_mutex released.
PCs == {"idle", "written", "logging", "appended", "logged", "flushed"}

TypeOK ==
    /\ content \in [Pids -> HeapPage]
    /\ stable \in [Pids -> HeapPage]
    /\ log \in Seq(LogEntry)
    /\ header \in 0 .. Len(log)
    /\ LSN \in 0 .. MaxLsn
    /\ pc \in [Threads -> PCs]
    /\ rid \in [Threads -> [pid : Pids, slot : Slots]]
    /\ row \in [Threads -> Rows \cup {NoRow}]
    /\ cursor \in 0 .. Len(log) + 1
    /\ stray \in BOOLEAN
    /\ misreads \in 0 .. MaxMisreads
    /\ inserts \in 0 .. MaxInserts
    /\ stops \in 0 .. MaxStops
    /\ acked \subseteq [pid : Pids, slot : Slots, row : Rows]

Init ==
    /\ content = [p \in Pids |-> ZeroPage]
    /\ stable = [p \in Pids |-> ZeroPage]
    /\ log = << >>
    /\ header = 0
    /\ LSN = 0
    /\ pc = [t \in Threads |-> "idle"]
    /\ rid \in {[t \in Threads |-> [pid |-> p, slot |-> 1]] : p \in Pids}
    /\ row = [t \in Threads |-> NoRow]
    /\ cursor = 0
    /\ stray = FALSE
    /\ misreads = 0
    /\ inserts = 0
    /\ stops = 0
    /\ acked = {}

-----------------------------------------------------------------------------
(* An insert.                                                              *)

\* The bytes of a row, put where its slot says.
WithRow(page, s, bytes) == [page EXCEPT !.data[s] = bytes]

\* heap_write: the next slot of the page.  The row is there for every reader and
\* every writer of the page from now on.
HeapWrite(t, p) ==
    LET s == content[p].count + 1 IN
    /\ pc[t] = "idle"
    /\ cursor = 0
    /\ inserts < MaxInserts
    /\ s <= MaxSlots
    /\ content' = [content EXCEPT ![p] = [WithRow(@, s, inserts + 1) EXCEPT !.count = s]]
    /\ pc' = [pc EXCEPT ![t] = "written"]
    /\ rid' = [rid EXCEPT ![t] = [pid |-> p, slot |-> s]]
    /\ row' = [row EXCEPT ![t] = inserts + 1]
    /\ inserts' = inserts + 1
    /\ UNCHANGED <<stable, wal_file, LSN, replay, stops, acked>>

\* wal_mutex is free.
Unlocked == \A t \in Threads : pc[t] \in {"idle", "written", "flushed"}

BeginCommit(t) ==
    /\ pc[t] = "written"
    /\ Unlocked
    /\ LSN + 1 <= MaxLsn
    /\ pc' = [pc EXCEPT ![t] = "logging"]
    /\ UNCHANGED <<pages, wal_file, LSN, replay, rid, row, inserts, acked, stops>>

\* "Page LSN exceeds its 16-bit on-page representation": the statement fails and
\* its row stays on the page.
LsnExhausted(t) ==
    /\ pc[t] = "written"
    /\ Unlocked
    /\ LSN + 1 > MaxLsn
    /\ pc' = [pc EXCEPT ![t] = "idle"]
    /\ UNCHANGED <<pages, wal_file, LSN, replay, rid, row, inserts, acked, stops>>

\* The record CommitTransaction builds.
Record(t, kind) ==
    [kind |-> kind, lsn |-> LSN + 1, pid |-> rid[t].pid, slot |-> rid[t].slot, row |-> row[t]]

\* write_to_wal, first fsync: record and row at the end of the file.
AppendRecord(t) ==
    /\ pc[t] = "logging"
    /\ log' = Append(log, Record(t, "whole"))
    /\ pc' = [pc EXCEPT ![t] = "appended"]
    /\ UNCHANGED <<pages, header, LSN, replay, rid, row, inserts, acked, stops>>

\* mutant: the header is not updated
last_entry_offset_kept == header
\* mutant: the end of the file after the record instead of before it
last_entry_offset_end == Len(log) + 1
\* record_offset: where the record was appended.
last_entry_offset == Len(log)

\* write_to_wal, second fsync; then LSN = next_lsn.
UpdateHeader(t) ==
    /\ pc[t] = "appended"
    /\ header' = last_entry_offset
    /\ LSN' = LSN + 1
    /\ pc' = [pc EXCEPT ![t] = "logged"]
    /\ UNCHANGED <<pages, log, replay, rid, row, inserts, acked, stops>>

\* mutant: the page is stamped with the lsn the next record will get
Stamped_next(page, lsn) == [page EXCEPT !.lsn = IF lsn < MaxLsn THEN lsn + 1 ELSE lsn]
\* The page with the record's lsn in its header.
Stamped(page, lsn) == [page EXCEPT !.lsn = lsn]

\* mutant: the page is written before its header gets the lsn
Flushed_unstamped(p, page) == [stable EXCEPT ![p] = content[p]]
\* dp_write_page: the whole page, with whatever other inserts have put on it.
Flushed(p, page) == [stable EXCEPT ![p] = page]

FlushPage(t) ==
    LET p == rid[t].pid
        page == Stamped(content[p], LSN)
    IN
    /\ pc[t] = "logged"
    /\ content' = [content EXCEPT ![p] = page]
    /\ stable' = Flushed(p, page)
    /\ pc' = [pc EXCEPT ![t] = "flushed"]
    /\ UNCHANGED <<wal_file, LSN, replay, rid, row, inserts, acked, stops>>

\* CommitTransaction has returned; the client is told.
Ack(t) ==
    /\ pc[t] = "flushed"
    /\ acked' = acked \cup {[pid |-> rid[t].pid, slot |-> rid[t].slot, row |-> row[t]]}
    /\ pc' = [pc EXCEPT ![t] = "idle"]
    /\ UNCHANGED <<pages, wal_file, LSN, replay, rid, row, inserts, stops>>

-----------------------------------------------------------------------------
(* The end of the program and the next start.                              *)

\* mutant: numbering starts again at every start
RestoredLsn_zero(h) == 0
\* The constructor: the lsn of the record the header names.
RestoredLsn(h) == IF h = 0 THEN 0 ELSE log[h].lsn

Restart ==
    /\ stops < MaxStops
    /\ stops' = stops + 1
    /\ LSN' = RestoredLsn(header)
    /\ pc' = [t \in Threads |-> "idle"]
    /\ cursor' = 0
    /\ stray' = FALSE
    /\ UNCHANGED <<header, misreads, rid, row, inserts, acked>>

\* The process dies.  A record on its way to the file may be there in part.
Crash ==
    /\ content' = stable
    /\ \/ UNCHANGED log
       \/ \E t \in Threads, kind \in {"no_row", "fragment"} :
            pc[t] = "logging" /\ log' = Append(log, Record(t, kind))
    /\ UNCHANGED stable
    /\ Restart

\* The workers are joined, then the pool's destructor writes the dirty pages.
Shutdown ==
    /\ \A t \in Threads : pc[t] = "idle"
    /\ cursor = 0
    /\ stable' = content
    /\ UNCHANGED <<content, log>>
    /\ Restart

-----------------------------------------------------------------------------
(* ReplayTransaction, run before the workers start.                        *)

BeginReplay ==
    /\ \A t \in Threads : pc[t] = "idle"
    /\ cursor = 0
    /\ header # 0
    /\ cursor' = 1
    /\ UNCHANGED <<pages, wal_file, LSN, stray, misreads, clients, stops>>

\* mutant: every record is applied, whatever the page has seen
NeedsRedo_always(entry) == TRUE
NeedsRedo(entry) == content[entry.pid].lsn < entry.lsn

\* apply_redo: the row and the lsn, written through.  slot_count stays.
Redone(entry, bytes) ==
    IF NeedsRedo(entry)
    THEN LET page == Stamped(WithRow(content[entry.pid], entry.slot, bytes), entry.lsn)
         IN  /\ content' = [content EXCEPT ![entry.pid] = page]
             /\ stable' = [stable EXCEPT ![entry.pid] = page]
    ELSE UNCHANGED pages

\* mutant: the walk stops short of the record the header names
InLog_exclusive(i) == i < header
\* while (offset <= last_entry_offset)
InLog(i) == i <= header

\* Inside a record the offset is beyond its beginning.
Walking == cursor > 0 /\ InLog(IF stray THEN cursor + 1 ELSE cursor)

RedoRecord ==
    /\ Walking
    /\ ~stray
    /\ log[cursor].kind = "whole"
    /\ Redone(log[cursor], log[cursor].row)
    /\ cursor' = cursor + 1
    /\ UNCHANGED <<wal_file, LSN, stray, misreads, clients, stops>>

\* The walk goes on where what it took for a record and its row end.  Rows differ in
\* length from table to table, so that may be in the middle of any later record.
GoesOnBehind ==
    /\ cursor' \in cursor .. Len(log) + 1
    /\ stray' \in BOOLEAN
    /\ cursor' = cursor => stray /\ stray'

\* A record without its row, with later records behind it: their first bytes are
\* taken for the row.
RedoTornRecord ==
    /\ Walking
    /\ ~stray
    /\ log[cursor].kind = "no_row"
    /\ Redone(log[cursor], Garbage)
    /\ GoesOnBehind
    /\ UNCHANGED <<wal_file, LSN, misreads, clients, stops>>

\* Bytes that are no record: the rest of a torn one's header is taken from what follows,
\* or the walk is in the middle of one, among row bytes that clients chose.
NoRecordHere == Walking /\ (stray \/ log[cursor].kind = "fragment")

\* Such bytes may pass the checks, and name any lsn, page and place.
MisreadRecord ==
    /\ misreads < MaxMisreads
    /\ misreads' = misreads + 1
    /\ \E p \in Pids, hit \in SUBSET Slots : \E lsn \in content[p].lsn + 1 .. MaxLsn :
         LET data == [s \in Slots |-> IF s \in hit THEN Garbage ELSE content[p].data[s]]
             page == Stamped([content[p] EXCEPT !.data = data], lsn)
         IN  /\ content' = [content EXCEPT ![p] = page]
             /\ stable' = [stable EXCEPT ![p] = page]

\* With an lsn no page is behind, as zeroes have, they are passed over.
RedoNoRecord ==
    /\ NoRecordHere
    /\ MisreadRecord \/ UNCHANGED <<pages, misreads>>
    /\ GoesOnBehind
    /\ UNCHANGED <<wal_file, LSN, clients, stops>>

\* offset > last_entry_offset, or the checks fail: what is no record, or the row would
\* end behind the file.
EndReplay ==
    /\ cursor > 0
    /\ Walking => NoRecordHere \/ log[cursor].kind = "no_row"
    /\ cursor' = 0
    /\ stray' = FALSE
    /\ UNCHANGED <<pages, wal_file, LSN, misreads, clients, stops>>

Step(t) ==
    \/ \E p \in Pids : HeapWrite(t, p)
    \/ BeginCommit(t)
    \/ LsnExhausted(t)
    \/ AppendRecord(t)
    \/ UpdateHeader(t)
    \/ FlushPage(t)
    \/ Ack(t)

Replay == BeginReplay \/ RedoRecord \/ RedoTornRecord \/ RedoNoRecord \/ EndReplay

Done ==
    /\ inserts = MaxInserts
    /\ stops = MaxStops
    /\ \A t \in Threads : pc[t] = "idle"
    /\ UNCHANGED vars

Next == (\E t \in Threads : Step(t)) \/ Crash \/ Shutdown \/ Replay \/ Done

Spec == Init /\ [][Next]_vars

-----------------------------------------------------------------------------
(* Properties.                                                             *)

\* A row the client was told about is in the heap file, in its slot and below the
\* slot count, for ever: no crash, no later insert on the same page and no replay
\* of older, torn or doubly numbered records takes it away, nor one that loses its step
\* behind a torn record, until that one takes bytes for a record that are none.
AckedRowsSurvive ==
    misreads = 0 => \A a \in acked :
        /\ stable[a.pid].data[a.slot] = a.row
        /\ a.slot <= stable[a.pid].count

\* Its record is in the part of the log the header covers, whatever was replayed.
AckedRowsLogged ==
    \A a \in acked : \E i \in 1 .. header :
        /\ log[i].kind = "whole"
        /\ log[i].pid = a.pid
        /\ log[i].slot = a.slot
        /\ log[i].row = a.row

\* A page is never ahead of the log: "page lsn > wal lsn is violation" (redo.md:7).
\* Neither is the file ahead of what the log's header would restore.  It takes a misread
\* record to change that.
PageLsnNotAhead ==
    misreads = 0 => \A p \in Pids :
        /\ content[p].lsn <= LSN
        /\ stable[p].lsn <= RestoredLsn(header)

\* Numbering goes on where it stopped, across crashes: neither the log's counter nor,
\* unless a record was misread, the lsn of a page in the file ever goes back.
LsnsNeverGoBack ==
    [][/\ LSN' >= LSN
       /\ misreads = 0 => \A p \in Pids : stable'[p].lsn >= stable[p].lsn]_vars

\* A replay that comes to its end leaves no page behind the log, unless a crash
\* tore a record the header now lies behind.
ReplayCatchesUp ==
    [][EndReplay /\ (\A i \in 1 .. header : log[i].kind = "whole") =>
         \A i \in 1 .. header : stable[log[i].pid].lsn >= log[i].lsn]_vars

Store == INSTANCE PageStore WITH
            Pages <- Pids,
            Edits <- {e \in HeapPage \X HeapPage : e[1].count <= e[2].count}

\* The log uses the pages in no other way than the buffer pool allows: a page
\* changes alone and never loses a slot, is written through as it is, and a stop leaves
\* what PageStore says, even when a replay misreads the log.
UsesPageStore == Store!Spec

\* "WAL is synchronously flushed before the corresponding data page" (wal.cpp:93):
\* every row a scan of the heap file would return has its record in the log.
LogBeforeData ==
    \A p \in Pids : \A s \in 1 .. stable[p].count :
        \E i \in 1 .. Len(log) :
            log[i].pid = p /\ log[i].slot = s /\ log[i].row = stable[p].data[s]
=============================================================================
