----------------------------- MODULE WAL_proofs -----------------------------
(***************************************************************************)
(* What the log promises, for any number of threads, pages, slots and      *)
(* lsns: a row that was answered is in the log for ever, and in the heap   *)
(* file until a replay takes bytes for a record that are none, through     *)
(* crashes at any step and any number of replays.                          *)
(***************************************************************************)
EXTENDS WAL, TLAPS

\* What replay keeps of its own, left alone by most steps.
USE DEF replay

\* The thread holds wal_mutex.
Committing(t) == pc[t] \in {"logging", "appended", "logged"}

\* The thread is at work on a row of its own.
Live(t) == pc[t] # "idle"

-----------------------------------------------------------------------------
(* The invariant, in parts.                                                *)

\* CommitTransaction is under way once at most; replay runs alone.
Exclusion ==
    /\ \A t, u \in Threads : Committing(t) /\ Committing(u) => t = u
    /\ cursor > 0 => \A t \in Threads : pc[t] = "idle"
    /\ cursor = 0 => ~stray

\* The counter is what the next start would restore, and no record is ahead of it but
\* the one being written and those of crashes before the header was.
Numbering ==
    /\ LSN = RestoredLsn(header)
    /\ \A i \in 1 .. Len(log) : log[i].lsn <= LSN + 1
    /\ \A i \in 1 .. header : log[i].lsn <= LSN
    /\ \A t \in Threads :
          /\ pc[t] \in {"logging", "appended"} => LSN + 1 <= MaxLsn
          /\ pc[t] = "appended" => Len(log) > 0 /\ log[Len(log)] = Record(t, "whole")
          /\ pc[t] = "logged" => header = Len(log)

\* A page and its copy in the file have one lsn, which the log has reached.
PageNumbering ==
    \A p \in Pids : content[p].lsn = stable[p].lsn /\ (misreads = 0 => stable[p].lsn <= LSN)

\* Rows under way are distinct, from each other and from those answered, and each
\* is in its slot.
Placement ==
    /\ \A t \in Threads : Live(t) =>
          /\ row[t] \in 1 .. inserts
          /\ content[rid[t].pid].data[rid[t].slot] = row[t]
          /\ rid[t].slot <= content[rid[t].pid].count
    /\ \A t, u \in Threads : Live(t) /\ Live(u) /\ row[t] = row[u] => t = u
    /\ \A a \in acked : a.row \in 1 .. inserts
    /\ \A a \in acked, t \in Threads : Live(t) => row[t] # a.row

\* Row r is in slot s of page p, in the file too, and no record of the slot is newer
\* than the page: no replay will touch it.
Settled(p, s, r) ==
    /\ content[p].data[s] = r
    /\ s <= content[p].count
    /\ stable[p].data[s] = r
    /\ s <= stable[p].count
    /\ \A i \in 1 .. Len(log) : log[i].pid = p /\ log[i].slot = s => log[i].lsn <= stable[p].lsn

Durable ==
    misreads = 0 =>
        /\ \A a \in acked : Settled(a.pid, a.slot, a.row)
        /\ \A t \in Threads : pc[t] = "flushed" => Settled(rid[t].pid, rid[t].slot, row[t])

Logged(p, s, r) ==
    \E i \in 1 .. header :
        log[i].kind = "whole" /\ log[i].pid = p /\ log[i].slot = s /\ log[i].row = r

Recorded ==
    /\ \A a \in acked : Logged(a.pid, a.slot, a.row)
    /\ \A t \in Threads : pc[t] \in {"logged", "flushed"} => Logged(rid[t].pid, rid[t].slot, row[t])

\* No crash tore a record the header now lies behind.
WholeLog == \A i \in 1 .. header : log[i].kind = "whole"

\* Then the walk goes from record to record, and what it has been through is on the pages.
Replayed ==
    cursor > 0 /\ WholeLog =>
        /\ ~stray
        /\ \A i \in 1 .. header : i < cursor => log[i].lsn <= stable[log[i].pid].lsn

-----------------------------------------------------------------------------
(* What the steps do to pages and log, spelled out.                        *)

\* A page is a record, so changing a field keeps the others.
LEMMA PageFields ==
    ASSUME NEW page \in HeapPage
    PROVE  /\ page.count \in 0 .. MaxSlots
           /\ page.lsn \in 0 .. MaxLsn
           /\ page.data \in [Slots -> Rows \cup {NoRow, Garbage}]
BY DEF HeapPage

LEMMA WithRowFields ==
    ASSUME NEW page \in HeapPage, NEW s \in Slots, NEW r \in Rows \cup {NoRow, Garbage}
    PROVE  /\ WithRow(page, s, r) \in HeapPage
           /\ WithRow(page, s, r).count = page.count
           /\ WithRow(page, s, r).lsn = page.lsn
           /\ WithRow(page, s, r).data = [page.data EXCEPT ![s] = r]
BY DEF WithRow, HeapPage

LEMMA StampedFields ==
    ASSUME NEW page \in HeapPage, NEW l \in 0 .. MaxLsn
    PROVE  /\ Stamped(page, l) \in HeapPage
           /\ Stamped(page, l).count = page.count
           /\ Stamped(page, l).lsn = l
           /\ Stamped(page, l).data = page.data
BY DEF Stamped, HeapPage

LEMMA CountFields ==
    ASSUME NEW page \in HeapPage, NEW n \in 0 .. MaxSlots
    PROVE  /\ [page EXCEPT !.count = n] \in HeapPage
           /\ [page EXCEPT !.count = n].count = n
           /\ [page EXCEPT !.count = n].lsn = page.lsn
           /\ [page EXCEPT !.count = n].data = page.data
BY DEF HeapPage

LEMMA HeapWriteEffect ==
    ASSUME TypeOK, NEW t \in Threads, NEW p \in Pids, HeapWrite(t, p)
    PROVE  LET s == content[p].count + 1 IN
           /\ s \in Slots
           /\ inserts + 1 \in Rows
           /\ content' \in [Pids -> HeapPage]
           /\ content'[p].count = s
           /\ content'[p].lsn = content[p].lsn
           /\ content'[p].data = [content[p].data EXCEPT ![s] = inserts + 1]
           /\ \A q \in Pids \ {p} : content'[q] = content[q]
<1> DEFINE s == content[p].count + 1
           written == WithRow(content[p], s, inserts + 1)
           page == [written EXCEPT !.count = s]
<1>1. content[p] \in HeapPage
    BY DEF TypeOK
<1>2. s \in Slots /\ s \in 0 .. MaxSlots
    BY <1>1, PageFields, WALAssumption DEF HeapWrite, Slots
<1>3. inserts + 1 \in Rows
    BY WALAssumption DEF HeapWrite, TypeOK, Rows
<1>4. /\ written \in HeapPage
      /\ written.lsn = content[p].lsn
      /\ written.data = [content[p].data EXCEPT ![s] = inserts + 1]
    BY <1>1, <1>2, <1>3, WithRowFields
<1>5. content' = [content EXCEPT ![p] = page]
    BY DEF HeapWrite
<1> HIDE DEF s, written
<1>6. page \in HeapPage /\ page.count = s /\ page.lsn = written.lsn /\ page.data = written.data
    BY <1>2, <1>4, CountFields
<1> HIDE DEF page
<1>7. /\ content' \in [Pids -> HeapPage]
      /\ content'[p] = page
      /\ \A q \in Pids \ {p} : content'[q] = content[q]
    BY <1>5, <1>6 DEF TypeOK
<1> QED
    BY <1>2, <1>3, <1>4, <1>6, <1>7 DEF s

LEMMA FlushEffect ==
    ASSUME TypeOK, NEW t \in Threads, FlushPage(t)
    PROVE  LET p == rid[t].pid IN
           /\ p \in Pids
           /\ content' \in [Pids -> HeapPage] /\ stable' \in [Pids -> HeapPage]
           /\ content'[p].lsn = LSN
           /\ content'[p].count = content[p].count
           /\ content'[p].data = content[p].data
           /\ stable'[p] = content'[p]
           /\ \A q \in Pids \ {p} : content'[q] = content[q] /\ stable'[q] = stable[q]
<1> DEFINE p == rid[t].pid
           page == Stamped(content[p], LSN)
<1>1. p \in Pids
    BY DEF TypeOK
<1>2. page \in HeapPage /\ page.lsn = LSN /\ page.count = content[p].count /\ page.data = content[p].data
    BY <1>1, StampedFields DEF TypeOK
<1>3. content' = [content EXCEPT ![p] = page] /\ stable' = [stable EXCEPT ![p] = page]
    BY DEF FlushPage, Flushed
<1> HIDE DEF p, page
<1>4. /\ content' \in [Pids -> HeapPage] /\ stable' \in [Pids -> HeapPage]
      /\ content'[p] = page /\ stable'[p] = page
      /\ \A q \in Pids \ {p} : content'[q] = content[q] /\ stable'[q] = stable[q]
    BY <1>1, <1>2, <1>3 DEF TypeOK
<1> QED
    BY <1>1, <1>2, <1>4 DEF p

LEMMA RedoneEffect ==
    ASSUME TypeOK, NEW e \in LogEntry, NEW r \in Rows \cup {NoRow, Garbage}, Redone(e, r)
    PROVE  \/ /\ UNCHANGED pages
              /\ e.lsn <= content[e.pid].lsn
           \/ /\ content[e.pid].lsn < e.lsn
              /\ content' \in [Pids -> HeapPage] /\ stable' \in [Pids -> HeapPage]
              /\ content'[e.pid].lsn = e.lsn
              /\ content'[e.pid].count = content[e.pid].count
              /\ content'[e.pid].data = [content[e.pid].data EXCEPT ![e.slot] = r]
              /\ stable'[e.pid] = content'[e.pid]
              /\ \A q \in Pids \ {e.pid} : content'[q] = content[q] /\ stable'[q] = stable[q]
<1> DEFINE p == e.pid
           redone == WithRow(content[p], e.slot, r)
           page == Stamped(redone, e.lsn)
<1>1. p \in Pids /\ e.slot \in Slots /\ e.lsn \in 0 .. MaxLsn
    BY WALAssumption DEF LogEntry
<1>2. content[p] \in HeapPage
    BY <1>1 DEF TypeOK
<1>3. content[p].lsn \in 0 .. MaxLsn
    BY <1>2, PageFields
<1>4. CASE NeedsRedo(e)
    <2>1. content' = [content EXCEPT ![p] = page] /\ stable' = [stable EXCEPT ![p] = page]
        BY <1>4 DEF Redone
    <2>2. content[p].lsn < e.lsn
        BY <1>4 DEF NeedsRedo
    <2>3. /\ redone \in HeapPage /\ redone.count = content[p].count
          /\ redone.data = [content[p].data EXCEPT ![e.slot] = r]
        BY <1>1, <1>2, WithRowFields
    <2> HIDE DEF p, redone
    <2>4. page \in HeapPage /\ page.count = redone.count /\ page.data = redone.data /\ page.lsn = e.lsn
        BY <1>1, <2>3, StampedFields
    <2> HIDE DEF page
    <2>5. /\ content' \in [Pids -> HeapPage] /\ stable' \in [Pids -> HeapPage]
          /\ content'[p] = page /\ stable'[p] = page
          /\ \A q \in Pids \ {p} : content'[q] = content[q] /\ stable'[q] = stable[q]
        BY <1>1, <2>1, <2>4 DEF TypeOK
    <2> QED
        BY <2>2, <2>3, <2>4, <2>5 DEF p
<1>5. CASE ~NeedsRedo(e)
    <2>1. UNCHANGED pages
        BY <1>5 DEF Redone
    <2>2. ~(content[p].lsn < e.lsn)
        BY <1>5 DEF NeedsRedo
    <2> QED
        BY <1>1, <1>3, <2>1, <2>2, WALAssumption
<1> QED
    BY <1>4, <1>5

LEMMA EntryFields ==
    ASSUME TypeOK, NEW i \in 1 .. Len(log)
    PROVE  /\ log[i] \in LogEntry
           /\ log[i].lsn \in Nat
           /\ log[i].pid \in Pids
           /\ log[i].slot \in Slots
           /\ log[i].row \in Rows
<1>1. log[i] \in LogEntry
    BY DEF TypeOK
<1>2. \A e \in LogEntry : e.lsn \in Nat /\ e.pid \in Pids /\ e.slot \in Slots /\ e.row \in Rows
    BY WALAssumption DEF LogEntry
<1> QED
    BY <1>1, <1>2

\* A record that joins the log leaves the others where they are.
LEMMA LogGrows ==
    ASSUME TypeOK, NEW e \in LogEntry, log' = Append(log, e)
    PROVE  /\ log' \in Seq(LogEntry)
           /\ Len(log') = Len(log) + 1
           /\ log'[Len(log) + 1] = e
           /\ \A i \in 1 .. Len(log) : log'[i] = log[i]
BY DEF TypeOK

\* The record CommitTransaction writes.
LEMMA RecordFields ==
    ASSUME TypeOK, Numbering, Placement, NEW t \in Threads, pc[t] \in {"logging", "appended"},
           NEW kind \in {"whole", "no_row", "fragment"}
    PROVE  /\ Record(t, kind) \in LogEntry
           /\ Record(t, kind).kind = kind
           /\ Record(t, kind).lsn = LSN + 1
           /\ Record(t, kind).pid = rid[t].pid
           /\ Record(t, kind).slot = rid[t].slot
           /\ Record(t, kind).row = row[t]
<1>1. LSN + 1 \in 1 .. MaxLsn
    BY WALAssumption DEF TypeOK, Numbering
<1>2. rid[t].pid \in Pids /\ rid[t].slot \in Slots
    BY DEF TypeOK
<1>3. row[t] \in Rows
    BY WALAssumption DEF Placement, Live, TypeOK, Rows
<1> QED
    BY <1>1, <1>2, <1>3 DEF Record, LogEntry

\* One page is replaced, in memory and in the file, by one of as many slots and no lower lsn.
PageRedone(p) ==
    /\ content' \in [Pids -> HeapPage] /\ stable' \in [Pids -> HeapPage]
    /\ content'[p].count = content[p].count
    /\ content[p].lsn <= content'[p].lsn
    /\ stable'[p] = content'[p]
    /\ \A q \in Pids \ {p} : content'[q] = content[q] /\ stable'[q] = stable[q]

LEMMA MisreadEffect ==
    ASSUME TypeOK, MisreadRecord
    PROVE  /\ misreads' \in 1 .. MaxMisreads
           /\ \E p \in Pids : PageRedone(p)
<1>1. misreads' \in 1 .. MaxMisreads
    BY WALAssumption DEF MisreadRecord, TypeOK
<1>11. PICK p \in Pids, hit \in SUBSET Slots : \E lsn \in content[p].lsn + 1 .. MaxLsn :
         LET data == [s \in Slots |-> IF s \in hit THEN Garbage ELSE content[p].data[s]]
             page == Stamped([content[p] EXCEPT !.data = data], lsn)
         IN  /\ content' = [content EXCEPT ![p] = page]
             /\ stable' = [stable EXCEPT ![p] = page]
    BY DEF MisreadRecord
<1>2. PICK lsn \in content[p].lsn + 1 .. MaxLsn :
         LET data == [s \in Slots |-> IF s \in hit THEN Garbage ELSE content[p].data[s]]
             page == Stamped([content[p] EXCEPT !.data = data], lsn)
         IN  /\ content' = [content EXCEPT ![p] = page]
             /\ stable' = [stable EXCEPT ![p] = page]
    BY <1>11
<1> DEFINE data == [s \in Slots |-> IF s \in hit THEN Garbage ELSE content[p].data[s]]
           bytes == [content[p] EXCEPT !.data = data]
           page == Stamped(bytes, lsn)
<1>3. content[p] \in HeapPage
    BY DEF TypeOK
<1>4. content[p].lsn \in 0 .. MaxLsn /\ content[p].data \in [Slots -> Rows \cup {NoRow, Garbage}]
    BY <1>3, PageFields
<1>5. data \in [Slots -> Rows \cup {NoRow, Garbage}]
    BY <1>4
<1>6. lsn \in 0 .. MaxLsn /\ content[p].lsn <= lsn
    BY <1>4, WALAssumption
<1> HIDE DEF data
<1>7. bytes \in HeapPage /\ bytes.count = content[p].count
    BY <1>3, <1>5 DEF HeapPage
<1> HIDE DEF bytes
<1>8. page \in HeapPage /\ page.count = content[p].count /\ page.lsn = lsn
    BY <1>6, <1>7, StampedFields
<1>9. content' = [content EXCEPT ![p] = page] /\ stable' = [stable EXCEPT ![p] = page]
    BY <1>2 DEF data, bytes
<1> HIDE DEF page
<1>10. PageRedone(p)
    BY <1>6, <1>8, <1>9 DEF PageRedone, TypeOK
<1> QED
    BY <1>1, <1>10

\* A stop: the counter stays, and the log may gain a record in pieces.
LEMMA StopEffect ==
    ASSUME TypeOK, Numbering, Placement, Crash \/ Shutdown
    PROVE  /\ pc' = [t \in Threads |-> "idle"]
           /\ cursor' = 0
           /\ stray' = FALSE
           /\ LSN' = LSN
           /\ stops' \in 0 .. MaxStops
           /\ UNCHANGED <<header, misreads, rid, row, inserts, acked>>
           /\ content' = stable'
           /\ stable' = stable \/ stable' = content
           /\ \/ log' = log
              \/ \E t \in Threads, e \in LogEntry :
                    /\ pc[t] = "logging"
                    /\ log' = Append(log, e)
                    /\ e.lsn = LSN + 1
                    /\ e.pid = rid[t].pid
                    /\ e.slot = rid[t].slot
<1>1. Restart
    BY DEF Crash, Shutdown
<1>2. LSN' = LSN
    BY <1>1 DEF Restart, Numbering
<1>3. stops' \in 0 .. MaxStops
    BY <1>1, WALAssumption DEF Restart, TypeOK
<1>4. \/ log' = log
      \/ \E t \in Threads, e \in LogEntry :
            /\ pc[t] = "logging"
            /\ log' = Append(log, e)
            /\ e.lsn = LSN + 1
            /\ e.pid = rid[t].pid
            /\ e.slot = rid[t].slot
    <2>1. CASE Shutdown \/ UNCHANGED log
        BY <2>1 DEF Shutdown
    <2>2. ASSUME NEW t \in Threads, NEW kind \in {"no_row", "fragment"},
                 pc[t] = "logging", log' = Append(log, Record(t, kind))
          PROVE  \E u \in Threads, e \in LogEntry :
                    /\ pc[u] = "logging"
                    /\ log' = Append(log, e)
                    /\ e.lsn = LSN + 1
                    /\ e.pid = rid[u].pid
                    /\ e.slot = rid[u].slot
        BY <2>2, RecordFields
    <2> QED
        BY <2>1, <2>2 DEF Crash
<1>5. content' = stable' /\ (stable' = stable \/ stable' = content)
    BY DEF Crash, Shutdown
<1> QED
    BY <1>1, <1>2, <1>3, <1>4, <1>5 DEF Restart

-----------------------------------------------------------------------------
(* Types.                                                                  *)

LEMMA TypeInit == Init => TypeOK
<1> SUFFICES ASSUME Init
             PROVE  TypeOK
    OBVIOUS
<1>1. ZeroPage \in HeapPage
    BY WALAssumption DEF ZeroPage, HeapPage, Slots
<1>2. PICK p \in Pids : rid = [t \in Threads |-> [pid |-> p, slot |-> 1]]
    BY DEF Init
<1>3. rid \in [Threads -> [pid : Pids, slot : Slots]]
    BY <1>2, WALAssumption DEF Slots
<1>4. stray \in BOOLEAN
    BY DEF Init
<1> QED
    BY <1>1, <1>3, <1>4, WALAssumption DEF Init, TypeOK, PCs

LEMMA TypeStep == TypeOK /\ Exclusion /\ Numbering /\ Placement /\ [Next]_vars => TypeOK'
<1> SUFFICES ASSUME TypeOK, Exclusion, Numbering, Placement, [Next]_vars
             PROVE  TypeOK'
    OBVIOUS
<1> USE WALAssumption
<1>0. Len(log) \in Nat
    BY DEF TypeOK
<1>1. ASSUME NEW t \in Threads, NEW p \in Pids, HeapWrite(t, p)
      PROVE  TypeOK'
    <2>1. /\ content' \in [Pids -> HeapPage]
          /\ content[p].count + 1 \in Slots
          /\ inserts + 1 \in Rows
        BY <1>1, HeapWriteEffect
    <2>2. [pid |-> p, slot |-> content[p].count + 1] \in [pid : Pids, slot : Slots]
        BY <2>1
    <2>3. rid' \in [Threads -> [pid : Pids, slot : Slots]] /\ row' \in [Threads -> Rows \cup {NoRow}]
        BY <1>1, <2>1, <2>2 DEF HeapWrite, TypeOK
    <2>4. inserts' \in 0 .. MaxInserts
        BY <1>1, <2>1 DEF HeapWrite, Rows
    <2> QED
        BY <1>1, <2>1, <2>3, <2>4 DEF HeapWrite, TypeOK, PCs, wal_file
<1>2. ASSUME NEW t \in Threads, BeginCommit(t) \/ LsnExhausted(t)
      PROVE  TypeOK'
    BY <1>2 DEF BeginCommit, LsnExhausted, TypeOK, PCs, pages, wal_file
<1>3. ASSUME NEW t \in Threads, AppendRecord(t)
      PROVE  TypeOK'
    <2>1. Record(t, "whole") \in LogEntry
        BY <1>3, RecordFields DEF AppendRecord
    <2>2. log' \in Seq(LogEntry) /\ Len(log') = Len(log) + 1
        BY <1>3, <2>1, LogGrows DEF AppendRecord
    <2> QED
        BY <1>3, <2>2 DEF AppendRecord, TypeOK, PCs, pages
<1>4. ASSUME NEW t \in Threads, UpdateHeader(t)
      PROVE  TypeOK'
    <2>1. LSN + 1 \in 0 .. MaxLsn
        BY <1>4 DEF UpdateHeader, Numbering, TypeOK
    <2>2. header' = Len(log) /\ LSN' = LSN + 1
        BY <1>4 DEF UpdateHeader, last_entry_offset
    <2>3. header' \in 0 .. Len(log)
        BY <1>0, <2>2
    <2>4. UNCHANGED <<content, stable, log, replay, rid, row, inserts, acked, stops>>
        BY <1>4 DEF UpdateHeader, pages
    <2>5. pc' \in [Threads -> PCs]
        BY <1>4 DEF UpdateHeader, TypeOK, PCs
    <2> QED
        BY <2>1, <2>2, <2>3, <2>4, <2>5 DEF TypeOK
<1>5. ASSUME NEW t \in Threads, FlushPage(t)
      PROVE  TypeOK'
    <2>1. content' \in [Pids -> HeapPage] /\ stable' \in [Pids -> HeapPage]
        BY <1>5, FlushEffect
    <2> QED
        BY <1>5, <2>1 DEF FlushPage, TypeOK, PCs, wal_file
<1>6. ASSUME NEW t \in Threads, Ack(t)
      PROVE  TypeOK'
    <2>1. row[t] \in Rows
        BY <1>6 DEF Ack, Placement, Live, TypeOK, Rows
    <2>2. [pid |-> rid[t].pid, slot |-> rid[t].slot, row |-> row[t]] \in [pid : Pids, slot : Slots, row : Rows]
        BY <2>1 DEF TypeOK
    <2> QED
        BY <1>6, <2>2 DEF Ack, TypeOK, PCs, pages, wal_file
<1>7. ASSUME Crash \/ Shutdown
      PROVE  TypeOK'
    <2>1. /\ pc' \in [Threads -> PCs]
          /\ cursor' = 0 /\ stray' = FALSE
          /\ LSN' = LSN
          /\ stops' \in 0 .. MaxStops
          /\ UNCHANGED <<header, misreads, rid, row, inserts, acked>>
          /\ content' = stable' /\ (stable' = stable \/ stable' = content)
        BY <1>7, StopEffect DEF PCs
    <2>2. log' \in Seq(LogEntry) /\ Len(log') \in Nat /\ Len(log) <= Len(log')
        <3>1. CASE log' = log
            BY <3>1 DEF TypeOK
        <3>2. ASSUME NEW e \in LogEntry, log' = Append(log, e)
              PROVE  log' \in Seq(LogEntry) /\ Len(log') \in Nat /\ Len(log) <= Len(log')
            BY <3>2 DEF TypeOK
        <3> QED
            BY <1>7, <3>1, <3>2, StopEffect
    <2>3. header' \in 0 .. Len(log') /\ cursor' \in 0 .. Len(log') + 1
        BY <2>1, <2>2 DEF TypeOK
    <2> QED
        BY <2>1, <2>2, <2>3 DEF TypeOK
<1>8. ASSUME NEW r \in Rows \cup {NoRow, Garbage}, Walking, ~stray, Redone(log[cursor], r),
             cursor' \in 0 .. Len(log) + 1, stray' \in BOOLEAN,
             UNCHANGED <<wal_file, LSN, misreads, clients, stops>>
      PROVE  TypeOK'
    <2>1. log[cursor] \in LogEntry
        BY <1>8 DEF Walking, InLog, TypeOK
    <2>2. content' \in [Pids -> HeapPage] /\ stable' \in [Pids -> HeapPage]
        BY <1>8, <2>1, RedoneEffect DEF pages, TypeOK
    <2> QED
        BY <1>8, <2>2 DEF TypeOK, wal_file, clients
<1>9. CASE BeginReplay \/ EndReplay
    <2>1. cursor' \in 0 .. Len(log) + 1
        BY <1>0, <1>9 DEF BeginReplay, EndReplay
    <2>2. stray' \in BOOLEAN
        BY <1>9, Zenon DEF BeginReplay, EndReplay, TypeOK
    <2> QED
        BY <1>9, <2>1, <2>2 DEF BeginReplay, EndReplay, TypeOK, wal_file, clients, pages
<1>10. CASE RedoRecord
    <2>1. cursor \in 1 .. Len(log)
        BY <1>10 DEF RedoRecord, Walking, InLog, TypeOK
    <2>2. log[cursor].row \in Rows
        BY <2>1, EntryFields
    <2>3. cursor' \in 0 .. Len(log) + 1 /\ stray' \in BOOLEAN
        BY <1>0, <1>10, <2>1 DEF RedoRecord, TypeOK
    <2> QED
        BY <1>8, <1>10, <2>2, <2>3 DEF RedoRecord
<1>11. GoesOnBehind => cursor' \in 0 .. Len(log) + 1 /\ stray' \in BOOLEAN
    BY <1>0 DEF GoesOnBehind, TypeOK
<1>13. CASE RedoTornRecord
    BY <1>8, <1>11, <1>13 DEF RedoTornRecord
<1>14. CASE RedoNoRecord
    <2>1. /\ content' \in [Pids -> HeapPage] /\ stable' \in [Pids -> HeapPage]
          /\ misreads' \in 0 .. MaxMisreads
        BY <1>14, MisreadEffect DEF RedoNoRecord, PageRedone, TypeOK, pages
    <2> QED
        BY <1>11, <1>14, <2>1 DEF RedoNoRecord, TypeOK, wal_file, clients
<1>12. CASE UNCHANGED vars
    BY <1>12 DEF vars, TypeOK, pages, wal_file, clients
<1> QED
    BY <1>1, <1>2, <1>3, <1>4, <1>5, <1>6, <1>7, <1>9, <1>10, <1>12, <1>13, <1>14
    DEF Next, Step, Replay, Done

-----------------------------------------------------------------------------
(* Who may do what: wal_mutex, replay, and the numbering of records.       *)

LEMMA ExclusionStep == TypeOK /\ Exclusion /\ [Next]_vars => Exclusion'
<1> SUFFICES ASSUME TypeOK, Exclusion, [Next]_vars
             PROVE  Exclusion'
    OBVIOUS
<1> USE DEF Exclusion, Committing
<1>1. ASSUME NEW t \in Threads, NEW p \in Pids, HeapWrite(t, p)
      PROVE  Exclusion'
    BY <1>1 DEF HeapWrite, TypeOK
<1>2. ASSUME NEW t \in Threads, BeginCommit(t)
      PROVE  Exclusion'
    BY <1>2 DEF BeginCommit, Unlocked, TypeOK
<1>3. ASSUME NEW t \in Threads, LsnExhausted(t) \/ AppendRecord(t) \/ UpdateHeader(t) \/ FlushPage(t) \/ Ack(t)
      PROVE  Exclusion'
    BY <1>3 DEF LsnExhausted, AppendRecord, UpdateHeader, FlushPage, Ack, TypeOK
<1>4. CASE Crash \/ Shutdown
    BY <1>4 DEF Crash, Shutdown, Restart
<1>5. CASE Replay
    <2>1. pc' = pc
        BY <1>5 DEF Replay, BeginReplay, RedoRecord, RedoTornRecord, RedoNoRecord, EndReplay, clients
    <2>2. \A t \in Threads : pc[t] = "idle"
        BY <1>5 DEF Replay, BeginReplay, RedoRecord, RedoTornRecord, RedoNoRecord, NoRecordHere,
                    Walking, EndReplay
    <2>3. cursor' = 0 => stray' = FALSE
        <3>1. cursor \in Nat
            BY DEF TypeOK
        <3>2. CASE BeginReplay \/ EndReplay
            BY <3>2 DEF BeginReplay, EndReplay
        <3>3. CASE RedoRecord
            BY <3>1, <3>3 DEF RedoRecord
        <3>4. CASE RedoTornRecord \/ RedoNoRecord
            BY <3>1, <3>4 DEF RedoTornRecord, RedoNoRecord, NoRecordHere, Walking, GoesOnBehind
        <3> QED
            BY <1>5, <3>2, <3>3, <3>4 DEF Replay
    <2> QED
        BY <2>1, <2>2, <2>3
<1>6. CASE UNCHANGED vars
    BY <1>6 DEF vars, clients
<1> QED
    BY <1>1, <1>2, <1>3, <1>4, <1>5, <1>6 DEF Next, Step, Done

\* Steps that leave the log, its header and the counter alone.
LEMMA NumberingKept ==
    ASSUME Numbering, UNCHANGED <<log, header, LSN>>,
           \A t \in Threads :
              /\ pc'[t] \in {"logging", "appended"} => LSN + 1 <= MaxLsn
              /\ pc'[t] \in {"appended", "logged"} =>
                    pc[t] = pc'[t] /\ rid'[t] = rid[t] /\ row'[t] = row[t]
    PROVE  Numbering'
<1>1. RestoredLsn(header)' = RestoredLsn(header)
    BY DEF RestoredLsn
<1>2. \A t \in Threads : pc'[t] = "appended" => Record(t, "whole")' = Record(t, "whole")
    BY DEF Record
<1> QED
    BY <1>1, <1>2 DEF Numbering

LEMMA NumberingStep == TypeOK /\ Exclusion /\ Numbering /\ Placement /\ [Next]_vars => Numbering'
<1> SUFFICES ASSUME TypeOK, Exclusion, Numbering, Placement, [Next]_vars
             PROVE  Numbering'
    OBVIOUS
<1>0. /\ LSN \in Nat /\ header \in Nat /\ Len(log) \in Nat /\ header <= Len(log)
      /\ \A i \in 1 .. Len(log) : log[i] \in LogEntry /\ log[i].lsn \in Nat
    <2>1. \A i \in 1 .. Len(log) : log[i] \in LogEntry /\ log[i].lsn \in Nat
        BY EntryFields
    <2> QED
        BY <2>1, WALAssumption DEF TypeOK
<1>1. ASSUME NEW t \in Threads, AppendRecord(t)
      PROVE  Numbering'
    <2> DEFINE e == Record(t, "whole")
    <2>1. e \in LogEntry /\ e.lsn = LSN + 1
        BY <1>1, RecordFields DEF AppendRecord
    <2> HIDE DEF e
    <2>2. log' = Append(log, e)
        BY <1>1 DEF AppendRecord, e
    <2>3. /\ Len(log') = Len(log) + 1
          /\ log'[Len(log) + 1] = e
          /\ \A i \in 1 .. Len(log) : log'[i] = log[i]
        BY <2>1, <2>2, LogGrows
    <2>4. header' = header /\ LSN' = LSN /\ rid' = rid /\ row' = row
        BY <1>1 DEF AppendRecord
    <2>5. RestoredLsn(header)' = RestoredLsn(header)
        BY <1>0, <2>3, <2>4 DEF RestoredLsn
    <2>6. \A u \in Threads : pc'[u] \in {"logging", "appended", "logged"} => u = t /\ pc'[u] = "appended"
        BY <1>1 DEF AppendRecord, Exclusion, Committing, TypeOK
    <2>7. Record(t, "whole")' = e
        BY <2>4 DEF Record, e
    <2>8. LSN + 1 <= MaxLsn
        BY <1>1 DEF AppendRecord, Numbering
    <2>9. \A i \in 1 .. Len(log') : log'[i].lsn <= LSN + 1
        BY <1>0, <2>1, <2>3 DEF Numbering
    <2>10. \A i \in 1 .. header : log'[i].lsn <= LSN
        BY <1>0, <2>3 DEF Numbering
    <2>11. \A u \in Threads :
              /\ pc'[u] \in {"logging", "appended"} => LSN + 1 <= MaxLsn
              /\ pc'[u] = "appended" => Len(log') > 0 /\ log'[Len(log')] = Record(u, "whole")'
              /\ pc'[u] = "logged" => header' = Len(log')
        BY <1>0, <2>3, <2>6, <2>7, <2>8
    <2>12. LSN' = RestoredLsn(header)'
        BY <2>4, <2>5 DEF Numbering
    <2> QED
        BY <2>4, <2>9, <2>10, <2>11, <2>12 DEF Numbering
<1>2. ASSUME NEW t \in Threads, UpdateHeader(t)
      PROVE  Numbering'
    <2>1. header' = Len(log) /\ LSN' = LSN + 1 /\ log' = log
        BY <1>2 DEF UpdateHeader, last_entry_offset
    <2>2. Len(log) > 0 /\ log[Len(log)] = Record(t, "whole")
        BY <1>2 DEF UpdateHeader, Numbering
    <2>3. Record(t, "whole").lsn = LSN + 1
        BY <1>2, RecordFields DEF UpdateHeader
    <2>4. RestoredLsn(header)' = LSN'
        BY <1>0, <2>1, <2>2, <2>3 DEF RestoredLsn
    <2>5. \A u \in Threads : pc'[u] \in {"logging", "appended", "logged"} => pc'[u] = "logged"
        BY <1>2 DEF UpdateHeader, Exclusion, Committing, TypeOK
    <2>6. \A i \in 1 .. Len(log) : log[i].lsn <= LSN'
        BY <1>0, <2>1 DEF Numbering
    <2>7. \A i \in 1 .. Len(log) : log[i].lsn <= LSN' + 1
        BY <1>0, <2>1, <2>6
    <2> QED
        BY <2>1, <2>4, <2>5, <2>6, <2>7 DEF Numbering
<1>3. CASE Crash \/ Shutdown
    <2>1. /\ header' = header /\ LSN' = LSN
          /\ pc' = [t \in Threads |-> "idle"]
        BY <1>3, StopEffect
    <2>2. /\ Len(log') \in Nat /\ Len(log) <= Len(log')
          /\ \A i \in 1 .. Len(log) : log'[i] = log[i]
          /\ \A i \in 1 .. Len(log') : log'[i].lsn <= LSN + 1
        <3>1. CASE log' = log
            BY <1>0, <3>1 DEF Numbering
        <3>2. CASE log' # log
            <4>1. PICK e \in LogEntry : log' = Append(log, e) /\ e.lsn = LSN + 1
                BY <1>3, <3>2, StopEffect
            <4>2. /\ Len(log') = Len(log) + 1
                  /\ log'[Len(log) + 1] = e
                  /\ \A i \in 1 .. Len(log) : log'[i] = log[i]
                BY <4>1, LogGrows
            <4> QED
                BY <1>0, <4>1, <4>2 DEF Numbering
        <3> QED
            BY <3>1, <3>2
    <2>3. RestoredLsn(header)' = RestoredLsn(header)
        BY <1>0, <2>1, <2>2 DEF RestoredLsn
    <2>4. \A i \in 1 .. header : log'[i].lsn <= LSN
        BY <1>0, <2>2 DEF Numbering
    <2> QED
        BY <2>1, <2>2, <2>3, <2>4 DEF Numbering
<1>4. ASSUME NEW t \in Threads, NEW p \in Pids, HeapWrite(t, p)
      PROVE  Numbering'
    <2>1. UNCHANGED <<log, header, LSN>>
        BY <1>4 DEF HeapWrite, wal_file
    <2>2. \A u \in Threads : pc'[u] \in {"logging", "appended", "logged"} =>
             pc[u] = pc'[u] /\ rid'[u] = rid[u] /\ row'[u] = row[u]
        BY <1>4 DEF HeapWrite, TypeOK
    <2>3. \A u \in Threads : pc'[u] \in {"logging", "appended"} => LSN + 1 <= MaxLsn
        BY <2>2 DEF Numbering
    <2> QED
        BY <2>1, <2>2, <2>3, NumberingKept
<1>5. ASSUME NEW t \in Threads, BeginCommit(t) \/ LsnExhausted(t) \/ FlushPage(t) \/ Ack(t)
      PROVE  Numbering'
    <2>1. UNCHANGED <<log, header, LSN, rid, row>>
        BY <1>5 DEF BeginCommit, LsnExhausted, FlushPage, Ack, wal_file
    <2>2. \A u \in Threads :
             /\ pc'[u] \in {"logging", "appended"} => LSN + 1 <= MaxLsn
             /\ pc'[u] \in {"appended", "logged"} => pc[u] = pc'[u]
        BY <1>5 DEF BeginCommit, LsnExhausted, FlushPage, Ack, TypeOK, Numbering
    <2> QED
        BY <2>1, <2>2, NumberingKept
<1>6. CASE Replay \/ UNCHANGED vars
    <2>1. UNCHANGED <<log, header, LSN, pc, rid, row>>
        BY <1>6 DEF Replay, BeginReplay, RedoRecord, RedoTornRecord, RedoNoRecord, EndReplay, vars, wal_file, clients
    <2>2. \A u \in Threads : pc[u] \in {"logging", "appended"} => LSN + 1 <= MaxLsn
        BY DEF Numbering
    <2> QED
        BY <2>1, <2>2, NumberingKept
<1> QED
    BY <1>1, <1>2, <1>3, <1>4, <1>5, <1>6 DEF Next, Step, Done

\* What replay does with a record: it is redone or passed.
LEMMA RedoSteps ==
    ASSUME TypeOK, Exclusion, Numbering, RedoRecord \/ RedoTornRecord
    PROVE  /\ UNCHANGED <<log, header, LSN, misreads, pc, rid, row, inserts, acked>>
           /\ \A t \in Threads : pc[t] = "idle"
           /\ cursor \in 1 .. header
           /\ log[cursor] \in LogEntry
           /\ log[cursor].lsn <= LSN
           /\ \E r \in Rows \cup {NoRow, Garbage} : Redone(log[cursor], r)
<1>1. cursor \in 1 .. header /\ cursor \in 1 .. Len(log) /\ cursor > 0
    BY DEF RedoRecord, RedoTornRecord, Walking, InLog, TypeOK
<1>2. log[cursor] \in LogEntry /\ log[cursor].row \in Rows
    BY <1>1, EntryFields
<1>3. log[cursor].lsn <= LSN
    BY <1>1 DEF Numbering
<1>4. \E r \in Rows \cup {NoRow, Garbage} : Redone(log[cursor], r)
    BY <1>2 DEF RedoRecord, RedoTornRecord
<1>5. \A t \in Threads : pc[t] = "idle"
    BY <1>1 DEF Exclusion
<1> QED
    BY <1>1, <1>2, <1>3, <1>4, <1>5 DEF RedoRecord, RedoTornRecord, wal_file, clients

\* ... and with bytes that are none: they are passed, or one page is spoilt.
LEMMA NoRecordSteps ==
    ASSUME TypeOK, Exclusion, RedoNoRecord
    PROVE  /\ UNCHANGED <<log, header, LSN, pc, rid, row, inserts, acked>>
           /\ \A t \in Threads : pc[t] = "idle"
           /\ \/ UNCHANGED <<content, stable, misreads>>
              \/ misreads' \in 1 .. MaxMisreads /\ \E p \in Pids : PageRedone(p)
<1>1. cursor > 0
    BY DEF RedoNoRecord, NoRecordHere, Walking
<1>2. \A t \in Threads : pc[t] = "idle"
    BY <1>1 DEF Exclusion
<1>3. \/ UNCHANGED <<content, stable, misreads>>
      \/ misreads' \in 1 .. MaxMisreads /\ \E p \in Pids : PageRedone(p)
    BY MisreadEffect DEF RedoNoRecord, pages
<1> QED
    BY <1>2, <1>3 DEF RedoNoRecord, wal_file, clients

\* Only such bytes are counted, and never taken back.
LEMMA MisreadsStay ==
    ASSUME TypeOK, Exclusion, Numbering, Placement, [Next]_vars, misreads' = 0
    PROVE  misreads = 0
<1>1. ASSUME RedoNoRecord
      PROVE  misreads = 0
    <2>1. ~(misreads' \in 1 .. MaxMisreads)
        BY WALAssumption
    <2> QED
        BY <1>1, <2>1, NoRecordSteps
<1>2. ASSUME NEW t \in Threads, Step(t)
      PROVE  misreads' = misreads
    BY <1>2 DEF Step, HeapWrite, BeginCommit, LsnExhausted, AppendRecord, UpdateHeader, FlushPage, Ack
<1>3. Crash \/ Shutdown \/ BeginReplay \/ RedoRecord \/ RedoTornRecord \/ EndReplay \/ UNCHANGED vars
      => misreads' = misreads
    BY DEF Crash, Shutdown, Restart, BeginReplay, RedoRecord, RedoTornRecord, EndReplay, vars
<1> QED
    BY <1>1, <1>2, <1>3 DEF Next, Replay, Done

\* The lsns of the pages when a step is over.
LEMMA PageNumberingStep ==
    TypeOK /\ Exclusion /\ Numbering /\ Placement /\ PageNumbering /\ [Next]_vars
    => /\ PageNumbering'
       /\ LSN' >= LSN
       /\ misreads = 0 => \A p \in Pids : stable'[p].lsn >= stable[p].lsn
<1> DEFINE Goal == /\ PageNumbering'
                   /\ LSN' >= LSN
                   /\ misreads = 0 => \A p \in Pids : stable'[p].lsn >= stable[p].lsn
<1> SUFFICES ASSUME TypeOK, Exclusion, Numbering, Placement, PageNumbering, [Next]_vars
             PROVE  Goal
    OBVIOUS
<1>0. /\ LSN \in Nat
      /\ \A p \in Pids : content[p].lsn \in Nat /\ stable[p].lsn \in Nat
    <2>1. \A p \in Pids : content[p] \in HeapPage /\ stable[p] \in HeapPage
        BY DEF TypeOK
    <2> QED
        BY <2>1, PageFields, WALAssumption DEF TypeOK
<1>9. misreads' = 0 => misreads = 0
    BY MisreadsStay
<1>1. ASSUME NEW t \in Threads, NEW p \in Pids, HeapWrite(t, p)
      PROVE  Goal
    <2>1. \A q \in Pids : content'[q].lsn = content[q].lsn
        BY <1>1, HeapWriteEffect
    <2>2. stable' = stable /\ LSN' = LSN
        BY <1>1 DEF HeapWrite
    <2> QED
        BY <1>0, <1>9, <2>1, <2>2 DEF PageNumbering
<1>2. ASSUME NEW t \in Threads, FlushPage(t)
      PROVE  Goal
    <2>1. LSN' = LSN
        BY <1>2 DEF FlushPage
    <2>2. \A q \in Pids : \/ content'[q].lsn = content[q].lsn /\ stable'[q].lsn = stable[q].lsn
                          \/ content'[q].lsn = LSN /\ stable'[q].lsn = LSN
        BY <1>2, FlushEffect
    <2> QED
        BY <1>0, <1>9, <2>1, <2>2 DEF PageNumbering
<1>3. CASE RedoRecord \/ RedoTornRecord
    <2>1. /\ log[cursor] \in LogEntry
          /\ log[cursor].lsn <= LSN
          /\ \E r \in Rows \cup {NoRow, Garbage} : Redone(log[cursor], r)
          /\ LSN' = LSN
        BY <1>3, RedoSteps
    <2>2. PICK r \in Rows \cup {NoRow, Garbage} : Redone(log[cursor], r)
        BY <2>1
    <2>3. log[cursor].pid \in Pids /\ log[cursor].lsn \in Nat
        BY <2>1, WALAssumption DEF LogEntry
    <2>4. \/ content' = content /\ stable' = stable
          \/ /\ content[log[cursor].pid].lsn < log[cursor].lsn
             /\ content'[log[cursor].pid].lsn = log[cursor].lsn
             /\ stable'[log[cursor].pid].lsn = log[cursor].lsn
             /\ \A q \in Pids \ {log[cursor].pid} : content'[q] = content[q] /\ stable'[q] = stable[q]
        BY <2>1, <2>2, RedoneEffect DEF pages
    <2> QED
        BY <1>0, <1>9, <2>1, <2>3, <2>4 DEF PageNumbering
<1>4. CASE Crash \/ Shutdown
    <2>1. LSN' = LSN /\ content' = stable' /\ (stable' = stable \/ stable' = content)
        BY <1>4, StopEffect
    <2> QED
        BY <1>0, <1>9, <2>1 DEF PageNumbering
<1>5. ASSUME UNCHANGED pages, LSN' = LSN \/ LSN' = LSN + 1
      PROVE  Goal
    BY <1>0, <1>5, <1>9 DEF PageNumbering, pages
<1>6. ASSUME NEW t \in Threads,
             BeginCommit(t) \/ LsnExhausted(t) \/ AppendRecord(t) \/ UpdateHeader(t) \/ Ack(t)
      PROVE  Goal
    BY <1>5, <1>6 DEF BeginCommit, LsnExhausted, AppendRecord, UpdateHeader, Ack
<1>7. CASE BeginReplay \/ EndReplay \/ UNCHANGED vars
    BY <1>5, <1>7 DEF BeginReplay, EndReplay, vars
<1>8. CASE RedoNoRecord
    <2>1. LSN' = LSN
        BY <1>8, NoRecordSteps
    <2>2. CASE UNCHANGED <<content, stable, misreads>>
        BY <1>0, <2>1, <2>2 DEF PageNumbering
    <2>3. ASSUME misreads' \in 1 .. MaxMisreads, NEW p \in Pids, PageRedone(p)
          PROVE  Goal
        <3>1. misreads' # 0
            BY <2>3, WALAssumption
        <3>2. /\ content[p].lsn <= content'[p].lsn
              /\ stable'[p] = content'[p]
              /\ content'[p].lsn \in Nat
              /\ \A q \in Pids \ {p} : content'[q] = content[q] /\ stable'[q] = stable[q]
            <4>1. content'[p] \in HeapPage
                BY <2>3 DEF PageRedone
            <4> QED
                BY <2>3, <4>1, PageFields, WALAssumption DEF PageRedone
        <3> QED
            BY <1>0, <2>1, <3>1, <3>2 DEF PageNumbering
    <2> QED
        BY <1>8, <2>2, <2>3, NoRecordSteps
<1> QED
    BY <1>1, <1>2, <1>3, <1>4, <1>6, <1>7, <1>8 DEF Next, Step, Replay, Done

-----------------------------------------------------------------------------
(* Rows and their slots.                                                   *)

LEMMA PlacementStep ==
    TypeOK /\ Exclusion /\ Numbering /\ Placement /\ [Next]_vars => Placement'
<1> SUFFICES ASSUME TypeOK, Exclusion, Numbering, Placement, [Next]_vars
             PROVE  Placement'
    OBVIOUS
<1>0. /\ inserts \in Nat
      /\ \A p \in Pids : content[p].count \in Nat /\ content[p].data \in [Slots -> Rows \cup {NoRow, Garbage}]
      /\ \A t \in Threads : rid[t].pid \in Pids /\ rid[t].slot \in Slots /\ rid[t].slot \in Nat
    <2>1. \A p \in Pids : content[p] \in HeapPage
        BY DEF TypeOK
    <2>2. \A p \in Pids : content[p].count \in Nat /\ content[p].data \in [Slots -> Rows \cup {NoRow, Garbage}]
        BY <2>1, PageFields, WALAssumption
    <2> QED
        BY <2>2, WALAssumption DEF TypeOK, Slots
<1>1. ASSUME NEW t \in Threads, NEW p \in Pids, HeapWrite(t, p)
      PROVE  Placement'
    <2> DEFINE s == content[p].count + 1
    <2>1. /\ s \in Slots
          /\ content'[p].count = s
          /\ content'[p].data = [content[p].data EXCEPT ![s] = inserts + 1]
          /\ \A q \in Pids \ {p} : content'[q] = content[q]
        BY <1>1, HeapWriteEffect
    <2>2. /\ inserts' = inserts + 1 /\ acked' = acked
          /\ Live(t)' /\ rid'[t] = [pid |-> p, slot |-> s] /\ row'[t] = inserts + 1
          /\ \A u \in Threads \ {t} : pc'[u] = pc[u] /\ rid'[u] = rid[u] /\ row'[u] = row[u]
        BY <1>1 DEF HeapWrite, TypeOK, Live
    <2>3. content'[p].data[s] = inserts + 1
        BY <1>0, <2>1
    <2>4. \A q \in Pids, x \in Slots : x <= content[q].count =>
             content'[q].data[x] = content[q].data[x] /\ x <= content'[q].count
        <3> SUFFICES ASSUME NEW q \in Pids, NEW x \in Slots, x <= content[q].count
                     PROVE  content'[q].data[x] = content[q].data[x] /\ x <= content'[q].count
            OBVIOUS
        <3>1. x \in Nat /\ content[q].count \in Nat
            BY <1>0, WALAssumption DEF Slots
        <3>2. CASE q = p
            <4>1. x # s
                BY <3>1, <3>2
            <4> QED
                BY <1>0, <2>1, <3>1, <3>2, <4>1
        <3>3. CASE q # p
            BY <2>1, <3>3
        <3> QED
            BY <3>2, <3>3
    <2>5. \A u \in Threads \ {t} : Live(u)' =>
             /\ Live(u)
             /\ row'[u] \in 1 .. inserts'
             /\ row'[u] # row'[t]
             /\ content'[rid'[u].pid].data[rid'[u].slot] = row'[u]
             /\ rid'[u].slot <= content'[rid'[u].pid].count
        BY <1>0, <2>2, <2>4 DEF Placement, Live
    <2> HIDE DEF s
    <2>6. /\ row'[t] \in 1 .. inserts'
          /\ content'[rid'[t].pid].data[rid'[t].slot] = row'[t]
          /\ rid'[t].slot <= content'[rid'[t].pid].count
        BY <1>0, <2>1, <2>2, <2>3, WALAssumption DEF Slots
    <2>7. \A u \in Threads : Live(u)' =>
             /\ row'[u] \in 1 .. inserts'
             /\ content'[rid'[u].pid].data[rid'[u].slot] = row'[u]
             /\ rid'[u].slot <= content'[rid'[u].pid].count
        BY <2>5, <2>6
    <2>8. \A u, v \in Threads : Live(u)' /\ Live(v)' /\ row'[u] = row'[v] => u = v
        BY <2>2, <2>5 DEF Placement
    <2>9. \A a \in acked' : a.row \in 1 .. inserts' /\ a.row # row'[t]
        BY <1>0, <2>2 DEF Placement
    <2>10. \A a \in acked', u \in Threads : Live(u)' => row'[u] # a.row
        BY <2>2, <2>5, <2>9 DEF Placement
    <2> QED
        BY <2>7, <2>8, <2>9, <2>10 DEF Placement
<1>2. ASSUME NEW t \in Threads, FlushPage(t)
      PROVE  Placement'
    <2>1. \A q \in Pids : content'[q].data = content[q].data /\ content'[q].count = content[q].count
        BY <1>2, FlushEffect
    <2>2. UNCHANGED <<rid, row, inserts, acked>>
        BY <1>2 DEF FlushPage
    <2>3. \A u \in Threads : Live(u)' => Live(u)
        BY <1>2 DEF FlushPage, TypeOK, Live
    <2> QED
        BY <1>0, <2>1, <2>2, <2>3 DEF Placement
<1>3. ASSUME NEW t \in Threads, Ack(t)
      PROVE  Placement'
    <2>1. UNCHANGED <<content, rid, row, inserts>>
        BY <1>3 DEF Ack, pages
    <2>2. acked' = acked \cup {[pid |-> rid[t].pid, slot |-> rid[t].slot, row |-> row[t]]}
        BY <1>3 DEF Ack
    <2>3. Live(t) /\ \A u \in Threads : Live(u)' => Live(u) /\ u # t
        BY <1>3 DEF Ack, TypeOK, Live
    <2>4. \A a \in acked' : a \in acked \/ a.row = row[t]
        BY <2>2
    <2> QED
        BY <2>1, <2>3, <2>4 DEF Placement
<1>4. ASSUME NEW t \in Threads, BeginCommit(t) \/ LsnExhausted(t) \/ AppendRecord(t) \/ UpdateHeader(t)
      PROVE  Placement'
    <2>1. UNCHANGED <<content, rid, row, inserts, acked>>
        BY <1>4 DEF BeginCommit, LsnExhausted, AppendRecord, UpdateHeader, pages
    <2>2. \A u \in Threads : Live(u)' => Live(u)
        BY <1>4 DEF BeginCommit, LsnExhausted, AppendRecord, UpdateHeader, TypeOK, Live
    <2> QED
        BY <2>1, <2>2 DEF Placement
<1>5. ASSUME \A t \in Threads : pc'[t] = "idle", UNCHANGED <<inserts, acked>>
      PROVE  Placement'
    BY <1>5 DEF Placement, Live
<1>6. CASE Crash \/ Shutdown
    BY <1>5, <1>6, StopEffect
<1>7. CASE RedoRecord \/ RedoTornRecord
    BY <1>5, <1>7, RedoSteps
<1>9. CASE RedoNoRecord
    BY <1>5, <1>9, NoRecordSteps
<1>8. CASE BeginReplay \/ EndReplay \/ UNCHANGED vars
    <2>1. UNCHANGED <<content, pc, rid, row, inserts, acked>>
        BY <1>8 DEF BeginReplay, EndReplay, vars, pages, clients
    <2> QED
        BY <2>1 DEF Placement, Live
<1> QED
    BY <1>1, <1>2, <1>3, <1>4, <1>6, <1>7, <1>8, <1>9 DEF Next, Step, Replay, Done

-----------------------------------------------------------------------------
(* Rows that are settled stay so.                                          *)

\* Nobody but a thread that has just settled it is at work on the slot.
OnlyFlushed(p, s) ==
    \A t \in Threads : Live(t) /\ rid[t].pid = p /\ rid[t].slot = s => pc[t] = "flushed"

LEMMA SettledStep ==
    ASSUME TypeOK, Exclusion, Numbering, Placement, PageNumbering, [Next]_vars, misreads' = 0,
           NEW p \in Pids, NEW s \in Slots, NEW r \in Rows, Settled(p, s, r), OnlyFlushed(p, s)
    PROVE  Settled(p, s, r)'
<1>0. /\ LSN \in Nat /\ Len(log) \in Nat /\ s \in Nat
      /\ content[p].lsn \in Nat /\ stable[p].lsn = content[p].lsn
      /\ content[p].count \in Nat
      /\ content[p].data \in [Slots -> Rows \cup {NoRow, Garbage}]
      /\ \A i \in 1 .. Len(log) : log[i].lsn \in Nat
    <2>1. content[p] \in HeapPage
        BY DEF TypeOK
    <2>2. \A i \in 1 .. Len(log) : log[i].lsn \in Nat
        BY EntryFields
    <2> QED
        BY <2>1, <2>2, PageFields, WALAssumption DEF TypeOK, PageNumbering, Slots
<1>1. \A i \in 1 .. Len(log) : log[i].pid = p /\ log[i].slot = s => log[i].lsn <= stable[p].lsn
    BY DEF Settled
<1>2. /\ content[p].data[s] = r /\ s <= content[p].count
      /\ stable[p].data[s] = r /\ s <= stable[p].count
    BY DEF Settled
<1>12. misreads = 0
    BY MisreadsStay
<1>3. ASSUME UNCHANGED <<content, stable, log>>
      PROVE  Settled(p, s, r)'
    BY <1>3 DEF Settled
<1>4. ASSUME NEW t \in Threads, NEW q \in Pids, HeapWrite(t, q)
      PROVE  Settled(p, s, r)'
    <2>1. stable' = stable /\ log' = log
        BY <1>4 DEF HeapWrite, wal_file
    <2>2. content'[p].data[s] = r /\ s <= content'[p].count
        <3>1. CASE q = p
            <4>1. /\ content'[p].count = content[p].count + 1
                  /\ content'[p].data = [content[p].data EXCEPT ![content[p].count + 1] = inserts + 1]
                BY <1>4, <3>1, HeapWriteEffect
            <4>2. s # content[p].count + 1
                BY <1>0, <1>2
            <4> QED
                BY <1>0, <1>2, <4>1, <4>2
        <3>2. CASE q # p
            <4>1. content'[p] = content[p]
                BY <1>4, <3>2, HeapWriteEffect
            <4> QED
                BY <1>2, <4>1
        <3> QED
            BY <3>1, <3>2
    <2> QED
        BY <1>1, <1>2, <2>1, <2>2 DEF Settled
<1>5. ASSUME NEW t \in Threads, NEW e \in LogEntry, pc[t] = "logging", log' = Append(log, e),
             e.pid = rid[t].pid, e.slot = rid[t].slot
      PROVE  \A i \in 1 .. Len(log') : log'[i].pid = p /\ log'[i].slot = s => log'[i].lsn <= stable[p].lsn
    <2>1. ~(e.pid = p /\ e.slot = s)
        BY <1>5 DEF OnlyFlushed, Live
    <2>2. /\ Len(log') = Len(log) + 1
          /\ log'[Len(log) + 1] = e
          /\ \A i \in 1 .. Len(log) : log'[i] = log[i]
        BY <1>5, LogGrows
    <2>3. \A i \in 1 .. Len(log') : i \in 1 .. Len(log) \/ i = Len(log) + 1
        BY <1>0, <2>2
    <2> QED
        BY <1>1, <2>1, <2>2, <2>3
<1>6. ASSUME NEW t \in Threads, AppendRecord(t)
      PROVE  Settled(p, s, r)'
    <2> DEFINE e == Record(t, "whole")
    <2>1. e \in LogEntry /\ e.pid = rid[t].pid /\ e.slot = rid[t].slot
        BY <1>6, RecordFields DEF AppendRecord
    <2>2. pc[t] = "logging" /\ log' = Append(log, e) /\ content' = content /\ stable' = stable
        BY <1>6 DEF AppendRecord, pages
    <2> HIDE DEF e
    <2>3. \A i \in 1 .. Len(log') : log'[i].pid = p /\ log'[i].slot = s => log'[i].lsn <= stable[p].lsn
        BY <1>5, <2>1, <2>2
    <2> QED
        BY <1>2, <2>2, <2>3 DEF Settled
<1>7. ASSUME NEW t \in Threads, FlushPage(t)
      PROVE  Settled(p, s, r)'
    <2>1. log' = log
        BY <1>7 DEF FlushPage, wal_file
    <2>2. CASE rid[t].pid = p
        <3>1. /\ content'[p].data = content[p].data /\ content'[p].count = content[p].count
              /\ stable'[p] = content'[p] /\ stable'[p].lsn = LSN
            BY <1>7, <2>2, FlushEffect
        <3>2. stable[p].lsn <= LSN
            BY <1>12 DEF PageNumbering
        <3>3. \A i \in 1 .. Len(log) : log[i].pid = p /\ log[i].slot = s => log[i].lsn <= LSN
            BY <1>0, <1>1, <3>2
        <3> QED
            BY <1>2, <2>1, <3>1, <3>3 DEF Settled
    <2>3. CASE rid[t].pid # p
        <3>1. content'[p] = content[p] /\ stable'[p] = stable[p]
            BY <1>7, <2>3, FlushEffect
        <3> QED
            BY <1>1, <1>2, <2>1, <3>1 DEF Settled
    <2> QED
        BY <2>2, <2>3
<1>8. CASE Crash \/ Shutdown
    <2>1. content' = stable' /\ (stable' = stable \/ stable' = content)
        BY <1>8, StopEffect
    <2>2. \A i \in 1 .. Len(log') : log'[i].pid = p /\ log'[i].slot = s => log'[i].lsn <= stable[p].lsn
        <3>1. CASE log' = log
            BY <1>1, <3>1
        <3>2. CASE log' # log
            BY <1>5, <1>8, <3>2, StopEffect
        <3> QED
            BY <3>1, <3>2
    <2>3. stable'[p].data[s] = r /\ s <= stable'[p].count /\ stable'[p].lsn = stable[p].lsn
        BY <1>0, <1>2, <2>1
    <2> QED
        BY <2>1, <2>2, <2>3 DEF Settled
<1>9. CASE RedoRecord \/ RedoTornRecord
    <2>1. log' = log
        BY <1>9, RedoSteps
    <2>2. PICK x \in Rows \cup {NoRow, Garbage} : Redone(log[cursor], x)
        BY <1>9, RedoSteps
    <2> DEFINE e == log[cursor]
    <2>3. e \in LogEntry /\ cursor \in 1 .. Len(log)
        BY <1>0, <1>9, RedoSteps DEF TypeOK
    <2>4. e.slot \in Slots /\ e.lsn \in Nat
        BY <2>3, EntryFields
    <2>5. e.pid = p /\ e.slot = s => e.lsn <= content[p].lsn
        BY <1>0, <1>1, <2>3
    <2> HIDE DEF e
    <2>6. CASE UNCHANGED pages
        BY <1>3, <2>1, <2>6 DEF pages
    <2>7. CASE ~ UNCHANGED pages
        <3>1. /\ content[e.pid].lsn < e.lsn
              /\ content'[e.pid].lsn = e.lsn
              /\ content'[e.pid].count = content[e.pid].count
              /\ content'[e.pid].data = [content[e.pid].data EXCEPT ![e.slot] = x]
              /\ stable'[e.pid] = content'[e.pid]
              /\ \A q \in Pids \ {e.pid} : content'[q] = content[q] /\ stable'[q] = stable[q]
            BY <2>2, <2>3, <2>7, RedoneEffect DEF e
        <3>2. CASE e.pid = p
            <4>1. e.slot # s
                BY <1>0, <2>4, <2>5, <3>1, <3>2
            <4>2. content'[p].data[s] = r /\ s <= content'[p].count
                BY <1>0, <1>2, <2>4, <3>1, <3>2, <4>1
            <4>3. \A i \in 1 .. Len(log) : log[i].pid = p /\ log[i].slot = s => log[i].lsn <= e.lsn
                BY <1>0, <1>1, <2>4, <3>1, <3>2
            <4> QED
                BY <2>1, <3>1, <3>2, <4>2, <4>3 DEF Settled
        <3>3. CASE e.pid # p
            <4>1. content'[p] = content[p] /\ stable'[p] = stable[p]
                BY <3>1, <3>3
            <4> QED
                BY <1>1, <1>2, <2>1, <4>1 DEF Settled
        <3> QED
            BY <3>2, <3>3
    <2> QED
        BY <2>6, <2>7
<1>10. ASSUME NEW t \in Threads, BeginCommit(t) \/ LsnExhausted(t) \/ UpdateHeader(t) \/ Ack(t)
       PROVE  Settled(p, s, r)'
    BY <1>3, <1>10 DEF BeginCommit, LsnExhausted, UpdateHeader, Ack, pages, wal_file
<1>11. CASE BeginReplay \/ EndReplay \/ UNCHANGED vars
    BY <1>3, <1>11 DEF BeginReplay, EndReplay, vars, pages, wal_file
<1>13. CASE RedoNoRecord
    <2>1. ~(misreads' \in 1 .. MaxMisreads)
        BY WALAssumption
    <2> QED
        BY <1>3, <1>13, <2>1, NoRecordSteps
<1> QED
    BY <1>4, <1>6, <1>7, <1>8, <1>9, <1>10, <1>11, <1>13 DEF Next, Step, Replay, Done

\* Where a thread is when it is flushed after a step.
LEMMA FlushedStep ==
    ASSUME TypeOK, [Next]_vars, NEW t \in Threads, pc'[t] = "flushed"
    PROVE  /\ rid'[t] = rid[t] /\ row'[t] = row[t]
           /\ pc[t] = "flushed" \/ FlushPage(t)
<1>1. ASSUME NEW u \in Threads, Step(u)
      PROVE  rid'[t] = rid[t] /\ row'[t] = row[t] /\ (pc[t] = "flushed" \/ FlushPage(t))
    <2>1. ASSUME NEW p \in Pids, HeapWrite(u, p)
          PROVE  rid'[t] = rid[t] /\ row'[t] = row[t] /\ pc[t] = "flushed"
        BY <2>1 DEF HeapWrite, TypeOK
    <2>2. ASSUME BeginCommit(u) \/ LsnExhausted(u) \/ AppendRecord(u) \/ UpdateHeader(u) \/ Ack(u)
          PROVE  rid'[t] = rid[t] /\ row'[t] = row[t] /\ pc[t] = "flushed"
        BY <2>2 DEF BeginCommit, LsnExhausted, AppendRecord, UpdateHeader, Ack, TypeOK
    <2>3. ASSUME FlushPage(u)
          PROVE  rid'[t] = rid[t] /\ row'[t] = row[t] /\ (pc[t] = "flushed" \/ u = t)
        BY <2>3 DEF FlushPage, TypeOK
    <2> QED
        BY <1>1, <2>1, <2>2, <2>3 DEF Step
<1>2. CASE Crash \/ Shutdown
    BY <1>2 DEF Crash, Shutdown, Restart
<1>3. CASE Replay \/ UNCHANGED vars
    BY <1>3 DEF Replay, BeginReplay, RedoRecord, RedoTornRecord, RedoNoRecord, EndReplay, vars, clients
<1> QED
    BY <1>1, <1>2, <1>3 DEF Next, Done

\* Rows answered after a step were answered before, or are flushed.
LEMMA AckedStep ==
    ASSUME TypeOK, [Next]_vars, NEW a \in acked'
    PROVE  \/ a \in acked
           \/ \E t \in Threads : /\ pc[t] = "flushed"
                                 /\ a.pid = rid[t].pid /\ a.slot = rid[t].slot /\ a.row = row[t]
<1>1. ASSUME NEW t \in Threads, Ack(t)
      PROVE  \/ a \in acked
             \/ pc[t] = "flushed" /\ a.pid = rid[t].pid /\ a.slot = rid[t].slot /\ a.row = row[t]
    BY <1>1 DEF Ack
<1>2. CASE acked' = acked
    BY <1>2
<1>3. ASSUME NEW t \in Threads, NEW p \in Pids, HeapWrite(t, p)
      PROVE  acked' = acked
    BY <1>3 DEF HeapWrite
<1>4. ASSUME NEW t \in Threads,
             BeginCommit(t) \/ LsnExhausted(t) \/ AppendRecord(t) \/ UpdateHeader(t) \/ FlushPage(t)
      PROVE  acked' = acked
    BY <1>4 DEF BeginCommit, LsnExhausted, AppendRecord, UpdateHeader, FlushPage
<1>5. Crash \/ Shutdown \/ Replay \/ UNCHANGED vars => acked' = acked
    BY DEF Crash, Shutdown, Restart, Replay, BeginReplay, RedoRecord, RedoTornRecord, RedoNoRecord,
           EndReplay, vars, clients
<1> QED
    BY <1>1, <1>2, <1>3, <1>4, <1>5 DEF Next, Step, Done

LEMMA DurableStep ==
    TypeOK /\ Exclusion /\ Numbering /\ Placement /\ PageNumbering /\ Durable /\ [Next]_vars => Durable'
<1> SUFFICES ASSUME TypeOK, Exclusion, Numbering, Placement, PageNumbering, Durable, [Next]_vars,
                    misreads' = 0
             PROVE  /\ \A a \in acked' : Settled(a.pid, a.slot, a.row)'
                    /\ \A t \in Threads :
                          pc'[t] = "flushed" => Settled(rid[t].pid, rid[t].slot, row[t])'
    BY DEF Durable
<1>5. misreads = 0
    BY MisreadsStay
<1>0. /\ \A a \in acked : a.pid \in Pids /\ a.slot \in Slots /\ a.row \in Rows
      /\ \A t \in Threads : rid[t].pid \in Pids /\ rid[t].slot \in Slots
      /\ \A t \in Threads : Live(t) => row[t] \in Rows
    BY WALAssumption DEF TypeOK, Placement, Rows
<1>1. ASSUME NEW a \in acked
      PROVE  Settled(a.pid, a.slot, a.row)'
    <2>1. Settled(a.pid, a.slot, a.row)
        BY <1>5 DEF Durable
    <2>2. OnlyFlushed(a.pid, a.slot)
        BY <2>1 DEF OnlyFlushed, Settled, Placement
    <2> QED
        BY <1>0, <2>1, <2>2, SettledStep
<1>2. ASSUME NEW t \in Threads, pc[t] = "flushed"
      PROVE  /\ Settled(rid[t].pid, rid[t].slot, row[t])
             /\ OnlyFlushed(rid[t].pid, rid[t].slot)
             /\ Live(t)
    <2>1. Settled(rid[t].pid, rid[t].slot, row[t]) /\ Live(t)
        BY <1>2, <1>5 DEF Durable, Live
    <2>2. OnlyFlushed(rid[t].pid, rid[t].slot)
        BY <1>2, <2>1 DEF OnlyFlushed, Settled, Placement
    <2> QED
        BY <2>1, <2>2
<1>3. ASSUME NEW a \in acked'
      PROVE  Settled(a.pid, a.slot, a.row)'
    <2>1. CASE a \in acked
        BY <1>1, <2>1
    <2>2. CASE a \notin acked
        <3>1. PICK t \in Threads :
                 /\ pc[t] = "flushed"
                 /\ a.pid = rid[t].pid /\ a.slot = rid[t].slot /\ a.row = row[t]
            BY <2>2, AckedStep
        <3>2. Settled(a.pid, a.slot, a.row) /\ OnlyFlushed(a.pid, a.slot)
            BY <1>2, <3>1
        <3>3. a.pid \in Pids /\ a.slot \in Slots /\ a.row \in Rows
            BY <1>0, <1>2, <3>1
        <3> QED
            BY <3>2, <3>3, SettledStep
    <2> QED
        BY <2>1, <2>2
<1>4. ASSUME NEW t \in Threads, pc'[t] = "flushed"
      PROVE  Settled(rid[t].pid, rid[t].slot, row[t])'
    <2>1. PICK p, s, r : /\ p \in Pids /\ s \in Slots
                         /\ p = rid[t].pid /\ s = rid[t].slot /\ r = row[t]
        BY <1>0
    <2>2. rid'[t] = rid[t] /\ row'[t] = row[t] /\ (pc[t] = "flushed" \/ FlushPage(t))
        BY <1>4, FlushedStep
    <2>3. Settled(p, s, r)'
        <3>1. CASE pc[t] = "flushed"
            <4>1. Settled(p, s, r) /\ OnlyFlushed(p, s) /\ r \in Rows
                BY <1>0, <1>2, <2>1, <3>1
            <4> QED
                BY <2>1, <4>1, SettledStep
        <3>2. CASE FlushPage(t)
            <4>1. /\ content'[p].data = content[p].data /\ content'[p].count = content[p].count
                  /\ stable'[p] = content'[p] /\ stable'[p].lsn = LSN
                BY <2>1, <3>2, FlushEffect
            <4>2. content[p].data[s] = r /\ s <= content[p].count
                BY <2>1, <3>2 DEF FlushPage, Placement, Live
            <4>3. log' = log
                BY <3>2 DEF FlushPage, wal_file
            <4>4. \A i \in 1 .. Len(log) : log[i].lsn <= LSN
                BY <3>2 DEF FlushPage, Numbering
            <4> QED
                BY <4>1, <4>2, <4>3, <4>4 DEF Settled
        <3> QED
            BY <2>2, <3>1, <3>2
    <2> QED
        BY <2>1, <2>2, <2>3 DEF Settled
<1> QED
    BY <1>3, <1>4

-----------------------------------------------------------------------------
(* Records stay in the log, and replay goes through them in order.         *)

\* What the header covers is never taken back.
LEMMA LogKept ==
    ASSUME TypeOK, Numbering, Placement, [Next]_vars
    PROVE  /\ header \in Nat /\ header' \in Nat /\ header <= header'
           /\ \A i \in 1 .. header : log'[i] = log[i]
<1>0. header \in Nat /\ Len(log) \in Nat /\ header <= Len(log)
    BY DEF TypeOK
<1>1. ASSUME NEW t \in Threads, AppendRecord(t)
      PROVE  header' = header /\ \A i \in 1 .. Len(log) : log'[i] = log[i]
    <2>1. Record(t, "whole") \in LogEntry
        BY <1>1, RecordFields DEF AppendRecord
    <2> QED
        BY <1>1, <2>1, LogGrows DEF AppendRecord
<1>2. ASSUME NEW t \in Threads, UpdateHeader(t)
      PROVE  header' = Len(log) /\ log' = log
    BY <1>2 DEF UpdateHeader, last_entry_offset
<1>3. CASE Crash \/ Shutdown
    <2>1. header' = header
        BY <1>3, StopEffect
    <2>2. \A i \in 1 .. Len(log) : log'[i] = log[i]
        <3>1. CASE log' = log
            BY <3>1
        <3>2. CASE log' # log
            <4>1. PICK e \in LogEntry : log' = Append(log, e)
                BY <1>3, <3>2, StopEffect
            <4> QED
                BY <4>1, LogGrows
        <3> QED
            BY <3>1, <3>2
    <2> QED
        BY <1>0, <2>1, <2>2
<1>4. ASSUME NEW t \in Threads, NEW p \in Pids, HeapWrite(t, p)
      PROVE  header' = header /\ log' = log
    BY <1>4 DEF HeapWrite, wal_file
<1>5. ASSUME NEW t \in Threads, BeginCommit(t) \/ LsnExhausted(t) \/ FlushPage(t) \/ Ack(t)
      PROVE  header' = header /\ log' = log
    BY <1>5 DEF BeginCommit, LsnExhausted, FlushPage, Ack, wal_file
<1>6. Replay \/ UNCHANGED vars => header' = header /\ log' = log
    BY DEF Replay, BeginReplay, RedoRecord, RedoTornRecord, RedoNoRecord, EndReplay, vars, wal_file
<1> QED
    BY <1>0, <1>1, <1>2, <1>3, <1>4, <1>5, <1>6 DEF Next, Step, Done

LEMMA LoggedStep ==
    ASSUME TypeOK, Numbering, Placement, [Next]_vars, NEW p, NEW s, NEW r, Logged(p, s, r)
    PROVE  Logged(p, s, r)'
<1>1. PICK i \in 1 .. header : log[i].kind = "whole" /\ log[i].pid = p /\ log[i].slot = s /\ log[i].row = r
    BY DEF Logged
<1>2. i \in 1 .. header' /\ log'[i] = log[i]
    BY <1>1, LogKept
<1> QED
    BY <1>1, <1>2 DEF Logged

LEMMA RecordedStep ==
    TypeOK /\ Numbering /\ Placement /\ Recorded /\ [Next]_vars => Recorded'
<1> SUFFICES ASSUME TypeOK, Numbering, Placement, Recorded, [Next]_vars
             PROVE  Recorded'
    OBVIOUS
<1>1. ASSUME NEW a \in acked'
      PROVE  Logged(a.pid, a.slot, a.row)'
    <2>1. Logged(a.pid, a.slot, a.row)
        BY AckedStep DEF Recorded
    <2> QED
        BY <2>1, LoggedStep
<1>2. ASSUME NEW t \in Threads, pc'[t] \in {"logged", "flushed"}
      PROVE  /\ rid'[t] = rid[t] /\ row'[t] = row[t]
             /\ pc[t] \in {"logged", "flushed"} \/ UpdateHeader(t)
    <2>1. CASE pc'[t] = "flushed"
        BY <2>1, FlushedStep DEF FlushPage
    <2>2. ASSUME pc'[t] = "logged", NEW u \in Threads, Step(u)
          PROVE  rid'[t] = rid[t] /\ row'[t] = row[t] /\ (pc[t] = "logged" \/ UpdateHeader(t))
        <3>1. ASSUME NEW p \in Pids, HeapWrite(u, p)
              PROVE  rid'[t] = rid[t] /\ row'[t] = row[t] /\ pc[t] = "logged"
            BY <2>2, <3>1 DEF HeapWrite, TypeOK
        <3>2. ASSUME BeginCommit(u) \/ LsnExhausted(u) \/ AppendRecord(u) \/ FlushPage(u) \/ Ack(u)
              PROVE  rid'[t] = rid[t] /\ row'[t] = row[t] /\ pc[t] = "logged"
            BY <2>2, <3>2 DEF BeginCommit, LsnExhausted, AppendRecord, FlushPage, Ack, TypeOK
        <3>3. ASSUME UpdateHeader(u)
              PROVE  rid'[t] = rid[t] /\ row'[t] = row[t] /\ (pc[t] = "logged" \/ u = t)
            BY <2>2, <3>3 DEF UpdateHeader, TypeOK
        <3> QED
            BY <2>2, <3>1, <3>2, <3>3 DEF Step
    <2>3. CASE pc'[t] = "logged" /\ (Crash \/ Shutdown)
        BY <2>3 DEF Crash, Shutdown, Restart
    <2>4. CASE pc'[t] = "logged" /\ (Replay \/ UNCHANGED vars)
        BY <2>4 DEF Replay, BeginReplay, RedoRecord, RedoTornRecord, RedoNoRecord, EndReplay, vars, clients
    <2> QED
        BY <1>2, <2>1, <2>2, <2>3, <2>4 DEF Next, Done
<1>3. ASSUME NEW t \in Threads, pc'[t] \in {"logged", "flushed"}
      PROVE  Logged(rid[t].pid, rid[t].slot, row[t])'
    <2>1. PICK p, s, r : p = rid[t].pid /\ s = rid[t].slot /\ r = row[t]
        OBVIOUS
    <2>2. CASE pc[t] \in {"logged", "flushed"}
        <3>1. Logged(p, s, r)
            BY <2>1, <2>2 DEF Recorded
        <3>2. Logged(p, s, r)'
            BY <3>1, LoggedStep
        <3> QED
            BY <1>2, <1>3, <2>1, <3>2 DEF Logged
    <2>3. CASE UpdateHeader(t)
        <3>1. /\ header' = Len(log) /\ log' = log /\ Len(log) \in Nat
              /\ Len(log) > 0 /\ log[Len(log)] = Record(t, "whole")
            BY <2>3 DEF UpdateHeader, last_entry_offset, Numbering, TypeOK
        <3>2. /\ Record(t, "whole").kind = "whole"
              /\ Record(t, "whole").pid = p
              /\ Record(t, "whole").slot = s
              /\ Record(t, "whole").row = r
            BY <2>1, <2>3, RecordFields DEF UpdateHeader
        <3>3. Logged(p, s, r)'
            BY <3>1, <3>2 DEF Logged
        <3> QED
            BY <1>2, <1>3, <2>1, <3>3 DEF Logged
    <2> QED
        BY <1>2, <1>3, <2>2, <2>3
<1> QED
    BY <1>1, <1>3 DEF Recorded

LEMMA ReplayedStep ==
    /\ TypeOK /\ Exclusion /\ Numbering /\ Placement /\ PageNumbering /\ Replayed
    /\ [Next]_vars
    => Replayed'
<1> DEFINE OnPages == \A i \in 1 .. header : i < cursor => log[i].lsn <= stable[log[i].pid].lsn
<1> SUFFICES ASSUME TypeOK, Exclusion, Numbering, Placement, PageNumbering, Replayed, [Next]_vars,
                    cursor' > 0, WholeLog'
             PROVE  ~stray' /\ OnPages'
    BY DEF Replayed
<1>0. /\ cursor \in Nat /\ header \in Nat
      /\ \A i \in 1 .. header : log[i].lsn \in Nat /\ log[i].pid \in Pids
      /\ \A p \in Pids : stable[p].lsn \in Nat /\ content[p].lsn = stable[p].lsn
    <2>1. \A i \in 1 .. header : i \in 1 .. Len(log)
        BY DEF TypeOK
    <2>2. \A i \in 1 .. header : log[i].lsn \in Nat /\ log[i].pid \in Pids
        BY <2>1, EntryFields
    <2>3. \A p \in Pids : stable[p] \in HeapPage
        BY DEF TypeOK
    <2> QED
        BY <2>2, <2>3, PageFields, WALAssumption DEF TypeOK, PageNumbering
<1>1. ASSUME NEW t \in Threads, Step(t)
      PROVE  cursor' = cursor /\ cursor = 0
    <2>1. pc[t] # "idle" \/ cursor = 0
        BY <1>1 DEF Step, HeapWrite, BeginCommit, LsnExhausted, AppendRecord, UpdateHeader, FlushPage, Ack
    <2>2. cursor = 0
        BY <1>0, <2>1 DEF Exclusion
    <2> QED
        BY <1>1, <2>2 DEF Step, HeapWrite, BeginCommit, LsnExhausted, AppendRecord, UpdateHeader, FlushPage, Ack
<1>2. ~(Crash \/ Shutdown \/ EndReplay)
    <2>1. Crash \/ Shutdown => cursor' = 0
        BY StopEffect
    <2>2. EndReplay => cursor' = 0
        BY DEF EndReplay
    <2> QED
        BY <2>1, <2>2
<1>3. WholeLog
    <2>1. header \in Nat /\ header' \in Nat /\ header <= header' /\ \A i \in 1 .. header : log'[i] = log[i]
        BY LogKept
    <2> QED
        BY <2>1 DEF WholeLog
<1>4. CASE BeginReplay
    <2>1. cursor' = 1 /\ header' = header /\ stray' = stray /\ cursor = 0
        BY <1>4 DEF BeginReplay, wal_file
    <2>2. ~stray
        BY <2>1 DEF Exclusion
    <2> QED
        BY <1>0, <2>1, <2>2
<1>5. cursor > 0 => ~stray /\ OnPages
    BY <1>3 DEF Replayed
<1>6. ~RedoTornRecord /\ ~RedoNoRecord
    BY <1>0, <1>3, <1>5 DEF RedoTornRecord, RedoNoRecord, NoRecordHere, Walking, InLog, WholeLog
<1>7. CASE RedoRecord
    <2> DEFINE e == log[cursor]
    <2>1. cursor \in 1 .. header /\ header' = header /\ log' = log
        BY <1>7, RedoSteps
    <2>2. cursor' = cursor + 1 /\ stray' = stray
        BY <1>7 DEF RedoRecord
    <2>3. PICK r \in Rows \cup {NoRow, Garbage} : Redone(e, r)
        BY <1>7, RedoSteps
    <2>4. e \in LogEntry
        BY <1>7, RedoSteps
    <2>5. e.lsn \in Nat /\ e.pid \in Pids
        BY <1>0, <2>1
    <2>6. ~stray /\ OnPages
        BY <1>0, <1>5, <2>1
    <2> HIDE DEF e
    <2>7. \/ /\ stable' = stable
             /\ e.lsn <= content[e.pid].lsn
          \/ /\ content[e.pid].lsn < e.lsn
             /\ stable'[e.pid].lsn = e.lsn
             /\ \A q \in Pids \ {e.pid} : stable'[q] = stable[q]
        BY <2>3, <2>4, RedoneEffect DEF pages
    <2>8. e.lsn <= stable'[e.pid].lsn
        BY <1>0, <2>5, <2>7
    <2>9. \A p \in Pids, n \in Nat : n <= stable[p].lsn => n <= stable'[p].lsn
        BY <1>0, <2>5, <2>7
    <2>10. ASSUME NEW i \in 1 .. header, i < cursor + 1
           PROVE  log[i].lsn <= stable'[log[i].pid].lsn
        <3>1. CASE i = cursor
            BY <2>8, <3>1 DEF e
        <3>2. CASE i # cursor
            <4>1. i < cursor
                BY <1>0, <2>10, <3>2
            <4> QED
                BY <1>0, <2>6, <2>9, <4>1
        <3> QED
            BY <3>1, <3>2
    <2> QED
        BY <2>1, <2>2, <2>6, <2>10
<1>8. CASE UNCHANGED vars
    <2>1. UNCHANGED <<stable, log, header, cursor, stray>>
        BY <1>8 DEF vars, pages, wal_file
    <2> QED
        BY <1>5, <2>1
<1> QED
    BY <1>0, <1>1, <1>2, <1>4, <1>6, <1>7, <1>8 DEF Next, Replay, Done

-----------------------------------------------------------------------------
(* The invariant, and what follows from it.                                *)

IInv ==
    /\ TypeOK
    /\ Exclusion
    /\ Numbering
    /\ PageNumbering
    /\ Placement
    /\ Durable
    /\ Recorded
    /\ Replayed

LEMMA Initial == Init => IInv
<1> SUFFICES ASSUME Init
             PROVE  IInv
    OBVIOUS
<1>1. TypeOK
    BY TypeInit
<1>2. /\ log = << >> /\ header = 0 /\ LSN = 0 /\ cursor = 0 /\ ~stray /\ acked = {}
      /\ \A t \in Threads : pc[t] = "idle"
      /\ \A p \in Pids : content[p].lsn = 0 /\ stable[p].lsn = 0
    BY DEF Init, ZeroPage
<1>3. Exclusion /\ Placement /\ Durable /\ Recorded /\ Replayed
    BY <1>2 DEF Exclusion, Committing, Placement, Live, Durable, Recorded, Replayed
<1>4. Numbering
    BY <1>2 DEF Numbering, RestoredLsn
<1>5. PageNumbering
    BY <1>2 DEF PageNumbering
<1> QED
    BY <1>1, <1>3, <1>4, <1>5 DEF IInv

LEMMA Inductive == IInv /\ [Next]_vars => IInv'
<1> SUFFICES ASSUME IInv, [Next]_vars
             PROVE  IInv'
    OBVIOUS
<1>1. TypeOK' /\ Exclusion' /\ Numbering' /\ Placement'
    BY TypeStep, ExclusionStep, NumberingStep, PlacementStep DEF IInv
<1>2. PageNumbering' /\ Durable' /\ Recorded' /\ Replayed'
    BY PageNumberingStep, DurableStep, RecordedStep, ReplayedStep DEF IInv
<1> QED
    BY <1>1, <1>2 DEF IInv

LEMMA Invariance == Spec => []IInv
BY Initial, Inductive, PTL DEF Spec

\* Every state of the log, the pages and the inserts is well typed (wal.cpp, insert.cpp).
THEOREM TypeCorrect == Spec => []TypeOK
<1>1. IInv => TypeOK
    BY DEF IInv
<1> QED
    BY <1>1, Invariance, PTL

\* A row the client was told about stays in the heap file, in its slot, through every
\* crash, later insert and replay, also one that a torn record leads astray, until a
\* replay redoes bytes that are no record (CommitTransaction, ReplayTransaction).
THEOREM AckedSurvive == Spec => []AckedRowsSurvive
<1>1. IInv => AckedRowsSurvive
    BY DEF IInv, Durable, Settled, AckedRowsSurvive
<1> QED
    BY <1>1, Invariance, PTL

\* Its record stays in the part of the log the header covers, whatever is replayed
\* (write_to_wal).
THEOREM AckedLogged == Spec => []AckedRowsLogged
<1>1. IInv => AckedRowsLogged
    BY DEF IInv, Recorded, Logged, AckedRowsLogged
<1> QED
    BY <1>1, Invariance, PTL

\* No page is ahead of the log, in memory or in the file, unless a replay redid bytes
\* that are no record (CommitTransaction, the constructor, ReplayTransaction).
THEOREM PagesNotAhead == Spec => []PageLsnNotAhead
<1>1. IInv => PageLsnNotAhead
    BY DEF IInv, Numbering, PageNumbering, PageLsnNotAhead
<1> QED
    BY <1>1, Invariance, PTL

\* The counter never goes back, across restarts, nor does the lsn of a page in the file
\* before a replay redid bytes that are no record (the constructor, apply_redo).
THEOREM NumbersGrow == Spec => LsnsNeverGoBack
<1>1. IInv /\ [Next]_vars => [/\ LSN' >= LSN
                              /\ misreads = 0 =>
                                    \A p \in Pids : stable'[p].lsn >= stable[p].lsn]_vars
    BY PageNumberingStep DEF IInv
<1> QED
    BY <1>1, Invariance, PTL DEF Spec, LsnsNeverGoBack

\* A replay that ends has brought every page up to the log, unless a crash tore a record
\* below the header (ReplayTransaction).
THEOREM ReplayComplete == Spec => ReplayCatchesUp
<1> DEFINE CaughtUp ==
              EndReplay /\ (\A i \in 1 .. header : log[i].kind = "whole") =>
                \A i \in 1 .. header : stable[log[i].pid].lsn >= log[i].lsn
<1>1. IInv => CaughtUp
    <2> SUFFICES ASSUME IInv, EndReplay, \A i \in 1 .. header : log[i].kind = "whole"
                 PROVE  \A i \in 1 .. header : stable[log[i].pid].lsn >= log[i].lsn
        OBVIOUS
    <2>1. cursor \in Nat /\ header \in Nat
        BY DEF IInv, TypeOK
    <2>2. cursor > 0
        BY DEF EndReplay
    <2>3. ~stray /\ \A i \in 1 .. header : i < cursor => log[i].lsn <= stable[log[i].pid].lsn
        BY <2>2 DEF IInv, Replayed, WholeLog
    <2>6. header < cursor
        BY <2>1, <2>2, <2>3 DEF EndReplay, NoRecordHere, Walking, InLog
    <2>4. \A i \in 1 .. header : log[i].lsn \in Nat /\ log[i].pid \in Pids
        <3>1. \A i \in 1 .. header : i \in 1 .. Len(log)
            BY DEF IInv, TypeOK
        <3> QED
            BY <3>1, EntryFields DEF IInv
    <2>5. \A p \in Pids : stable[p].lsn \in Nat
        <3>1. \A p \in Pids : stable[p] \in HeapPage
            BY DEF IInv, TypeOK
        <3> QED
            BY <3>1, PageFields, WALAssumption
    <2> QED
        BY <2>1, <2>3, <2>4, <2>5, <2>6
<1>2. IInv => [CaughtUp]_vars
    BY <1>1
<1> HIDE DEF IInv
<1> QED
    BY <1>2, Invariance, PTL DEF ReplayCatchesUp

-----------------------------------------------------------------------------
(* The log and the pages.                                                  *)

\* A page that changes and loses no slot is edited as PageStore allows.
LEMMA IsEdit ==
    ASSUME TypeOK, NEW p \in Pids,
           content' \in [Pids -> HeapPage],
           \A q \in Pids \ {p} : content'[q] = content[q],
           content[p].count <= content'[p].count
    PROVE  Store!Edit(p)
<1>1. content[p] \in HeapPage /\ content'[p] \in HeapPage
    BY DEF TypeOK
<1>2. <<content[p], content'[p]>> \in {e \in HeapPage \X HeapPage : e[1].count <= e[2].count}
    BY <1>1
<1>3. content' = [content EXCEPT ![p] = content'[p]]
    BY DEF TypeOK
<1> QED
    BY <1>2, <1>3 DEF Store!Edit

LEMMA StepRefines == IInv /\ [Next]_vars => [Store!Next]_<<content, stable>>
<1> SUFFICES ASSUME IInv, [Next]_vars
             PROVE  Store!Next \/ UNCHANGED <<content, stable>>
    OBVIOUS
<1>0. /\ TypeOK /\ Exclusion /\ Numbering /\ Placement /\ TypeOK'
      /\ \A p \in Pids : content[p].count \in Nat
    <2>1. TypeOK /\ Exclusion /\ Numbering /\ Placement /\ TypeOK'
        BY Inductive DEF IInv
    <2>2. \A p \in Pids : content[p] \in HeapPage
        BY <2>1 DEF TypeOK
    <2>3. \A p \in Pids : content[p].count \in Nat
        BY <2>2, PageFields, WALAssumption
    <2> QED
        BY <2>1, <2>3
<1>1. ASSUME NEW t \in Threads, NEW p \in Pids, HeapWrite(t, p)
      PROVE  Store!Next
    <2>1. Store!Edit(p)
        <3>1. /\ content' \in [Pids -> HeapPage]
              /\ content'[p].count = content[p].count + 1
              /\ \A q \in Pids \ {p} : content'[q] = content[q]
            BY <1>0, <1>1, HeapWriteEffect
        <3>2. content[p].count <= content'[p].count
            BY <1>0, <3>1
        <3> QED
            BY <1>0, <3>1, <3>2, IsEdit
    <2>2. stable' = stable
        BY <1>1 DEF HeapWrite
    <2> QED
        BY <2>1, <2>2 DEF Store!Next, Store!Write
<1>2. ASSUME NEW p \in Pids,
             content' \in [Pids -> HeapPage], stable' \in [Pids -> HeapPage],
             content'[p].count = content[p].count,
             stable'[p] = content'[p],
             \A q \in Pids \ {p} : content'[q] = content[q] /\ stable'[q] = stable[q]
      PROVE  Store!Next
    <2>1. content[p].count <= content'[p].count
        BY <1>0, <1>2
    <2>2. Store!Edit(p)
        BY <1>0, <1>2, <2>1, IsEdit
    <2>3. stable' = [stable EXCEPT ![p] = content'[p]]
        BY <1>0, <1>2 DEF TypeOK
    <2> QED
        BY <2>2, <2>3 DEF Store!Next, Store!WriteThrough
<1>3. ASSUME NEW t \in Threads, FlushPage(t)
      PROVE  Store!Next
    <2>1. PICK p \in Pids : p = rid[t].pid
        BY <1>0 DEF TypeOK
    <2>2. /\ content' \in [Pids -> HeapPage] /\ stable' \in [Pids -> HeapPage]
          /\ content'[p].count = content[p].count
          /\ stable'[p] = content'[p]
          /\ \A q \in Pids \ {p} : content'[q] = content[q] /\ stable'[q] = stable[q]
        BY <1>0, <1>3, <2>1, FlushEffect
    <2> QED
        BY <1>2, <2>2
<1>4. CASE RedoRecord \/ RedoTornRecord
    <2>1. PICK e \in LogEntry, r \in Rows \cup {NoRow, Garbage} : Redone(e, r)
        BY <1>0, <1>4, RedoSteps
    <2>2. e.pid \in Pids
        BY DEF LogEntry
    <2>3. CASE UNCHANGED pages
        BY <2>3 DEF pages
    <2>4. CASE ~ UNCHANGED pages
        <3>1. /\ content' \in [Pids -> HeapPage] /\ stable' \in [Pids -> HeapPage]
              /\ content'[e.pid].count = content[e.pid].count
              /\ stable'[e.pid] = content'[e.pid]
              /\ \A q \in Pids \ {e.pid} : content'[q] = content[q] /\ stable'[q] = stable[q]
            BY <1>0, <2>1, <2>4, RedoneEffect
        <3> QED
            BY <1>2, <2>2, <3>1
    <2> QED
        BY <2>3, <2>4
<1>5. CASE Crash
    <2>1. stable' = [p \in Pids |-> IF p \in {} THEN content[p] ELSE stable[p]] /\ content' = stable'
        BY <1>0, <1>5 DEF Crash, TypeOK
    <2>2. Store!Stop({})
        BY <2>1 DEF Store!Stop
    <2> QED
        BY <2>2 DEF Store!Next
<1>6. CASE Shutdown
    <2>1. stable' = [p \in Pids |-> IF p \in Pids THEN content[p] ELSE stable[p]] /\ content' = stable'
        BY <1>0, <1>6 DEF Shutdown, TypeOK
    <2>2. Store!Stop(Pids)
        BY <2>1 DEF Store!Stop
    <2> QED
        BY <2>2 DEF Store!Next
<1>7. ASSUME NEW t \in Threads,
             BeginCommit(t) \/ LsnExhausted(t) \/ AppendRecord(t) \/ UpdateHeader(t) \/ Ack(t)
      PROVE  UNCHANGED <<content, stable>>
    BY <1>7 DEF BeginCommit, LsnExhausted, AppendRecord, UpdateHeader, Ack, pages
<1>8. BeginReplay \/ EndReplay \/ UNCHANGED vars => UNCHANGED <<content, stable>>
    BY DEF BeginReplay, EndReplay, vars, pages
<1>9. CASE RedoNoRecord
    <2>1. ASSUME NEW p \in Pids, PageRedone(p)
          PROVE  Store!Next
        BY <1>2, <2>1 DEF PageRedone
    <2> QED
        BY <1>0, <1>9, <2>1, NoRecordSteps
<1> QED
    BY <1>1, <1>3, <1>4, <1>5, <1>6, <1>7, <1>8, <1>9 DEF Next, Step, Replay, Done

\* Inserts and replay, also one that misreads the log, use the pages in no other way
\* than the buffer pool allows: one page at a time, losing no slot, written as a whole
\* (CommitTransaction, apply_redo, heap_write, final_write).
THEOREM UsesPages == Spec => UsesPageStore
<1>1. Init => Store!Init
    BY DEF Init, Store!Init
<1> QED
    BY <1>1, StepRefines, Invariance, PTL DEF Spec, UsesPageStore, Store!Spec
=============================================================================
