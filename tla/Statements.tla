----------------------------- MODULE Statements -----------------------------
(***************************************************************************)
(* What worker threads do with the clients' statements: DB_Pipeline of     *)
(* worker_function.hpp with lexer, parser, catalog, the planner's operators *)
(* (Seq_scan, Filter, Projection, Insert), heap_write and heap_scan        *)
(* underneath it.  It composes Lexer, Parser, Catalog and HeapPage with the *)
(* row locks of RowLocks; pages are what PageStore promises of the buffer  *)
(* pool, and a commit is the one step WAL shows in detail.                 *)
(*                                                                         *)
(* Each request carries, next to its text, what it means to the client:    *)
(* the properties compare the program against that, never the actions.     *)
(***************************************************************************)
EXTENDS Integers, Sequences, FiniteSets, SequencesExt, FiniteSetsExt, HeapPage, Lexer, Parser

CONSTANTS
    Workers,        \* worker threads, each running one transaction at a time
    Writers,        \* the workers that get INSERTs
    NoWorker,
    Requests,       \* the statements clients send, by a name of ours; each is sent once at most
    MaxPid,         \* bound: the last heap page
    MaxStatements   \* bound: statements in a behaviour

ASSUME StatementsAssumption ==
    /\ Writers \subseteq Workers
    /\ NoWorker \notin Workers
    /\ MaxPid \in Nat
    /\ MaxStatements \in Nat
    \* A text is separators, blanks and words; an INSERT is meant to insert something.
    /\ \A r \in DOMAIN Requests :
          Requests[r].input \in Seq(Separators \cup {Blank} \cup DOMAIN Literals)
    /\ \A r \in DOMAIN Requests :
          LET means == Requests[r].means IN
          means.kind = "insert" =>
             /\ Len(means.rows) \in Nat \ {0}
             /\ \A n \in 1 .. Len(means.rows) :
                   \A name \in DOMAIN means.rows[n] : means.rows[n][name] \in DOMAIN Literals

Pids == 0 .. MaxPid
\* A row's address as the lock table compares it.
Rids == [pid : Pids, offset : 0 .. HeapPayloadSize]

VARIABLES
    catalog,        \* schema_catalog
    page,           \* the heap pages
    file_pages,     \* pages in the heap file
    owner,          \* the worker whose transaction has locked each row
    pc,             \* where each worker is
    stmt,           \* its statement: the request and what was made of it
    cursor,         \* its Insert or Seq_scan: page, slot and row it is at
    result,         \* rows found so far, with history of the rid they came from
    sent,           \* requests sent so far
    committed       \* history: the rows CommitTransaction has accepted

session == <<pc, stmt, cursor, result>>
vars == <<catalog, page, file_pages, owner, session, sent, committed>>

Locks == INSTANCE RowLocks

PCs == {"idle", "parse", "execute", "last_pid", "count", "take", "place", "fill", "commit",
        "scan", "read", "lock", "reply"}

NoPlan == [table_name |-> "", columns |-> << >>]
NoStatement == [request |-> "", ast |-> Rejected, table |-> NoPlan, op |-> "none",
                complete |-> FALSE, began |-> 0]
NoCursor == [pid |-> 0, slot_no |-> 0, row_no |-> 0, slot |-> ZeroSlot, row |-> << >>]

Init ==
    /\ catalog = << >>
    /\ page = [p \in Pids |-> ZeroPage]
    /\ file_pages = 0
    /\ Locks!Init
    /\ pc = [w \in Workers |-> "idle"]
    /\ stmt = [w \in Workers |-> NoStatement]
    /\ cursor = [w \in Workers |-> NoCursor]
    /\ result = [w \in Workers |-> << >>]
    /\ sent = {}
    /\ committed = << >>

Request(w) == Requests[stmt[w].request]
ColumnTypesOf(table) == [i \in DOMAIN table.columns |-> table.columns[i].column_type]
RowSizeOf(w) == RowSize(ColumnTypesOf(stmt[w].table))

Goto(w, label) == pc' = [pc EXCEPT ![w] = label]

\* The statement threw: the worker answers that it is not complete.
Throw(w) ==
    /\ Goto(w, "reply")
    /\ UNCHANGED <<catalog, page, file_pages, owner, stmt, cursor, result, sent, committed>>

-----------------------------------------------------------------------------
(* Any statement: Worker, grammer_check, DB_Pipeline.                      *)

Receive(w, r) ==
    /\ pc[w] = "idle"
    /\ r \notin sent
    /\ Cardinality(sent) < MaxStatements
    /\ Requests[r].means.kind = "insert" => w \in Writers
    /\ sent' = sent \cup {r}
    /\ stmt' = [stmt EXCEPT ![w] = [NoStatement EXCEPT !.request = r, !.began = Len(committed)]]
    /\ Goto(w, "parse")
    /\ UNCHANGED <<catalog, page, file_pages, owner, cursor, result, committed>>

Parse(w) ==
    LET ast == grammer_check(lexer(Request(w).input), catalog, Request(w).schema_name) IN
    /\ pc[w] = "parse"
    /\ stmt' = [stmt EXCEPT ![w].ast = ast]
    \* A rejected statement has thrown; without a schema all but CREATE SCHEMA is skipped.
    /\ Goto(w, IF ast = Rejected \/ (ast.kind # "schema" /\ Request(w).schema_name = "")
               THEN "reply" ELSE "execute")
    /\ UNCHANGED <<catalog, page, file_pages, owner, cursor, result, sent, committed>>

Create(w) ==
    LET ast == stmt[w].ast IN
    /\ pc[w] = "execute"
    /\ \/ ast.kind = "schema" /\ catalog' = create_schema(catalog, ast)
       \/ ast.kind = "table" /\ catalog' = schema_create_table(catalog, Request(w).schema_name, ast)
    /\ Goto(w, "reply")
    /\ UNCHANGED <<page, file_pages, owner, stmt, cursor, result, sent, committed>>

\* mutant: a statement that threw keeps its locks
ReleaseLocks_complete(w) == IF stmt[w].complete THEN Locks!UnlockAll(w) ELSE UNCHANGED owner
ReleaseLocks(w) == Locks!UnlockAll(w)

\* ReleaseLockFromLockTable after the answer is made, then the answer.
Reply(w) ==
    /\ pc[w] = "reply"
    /\ ReleaseLocks(w)
    /\ Goto(w, "idle")
    /\ stmt' = [stmt EXCEPT ![w] = NoStatement]
    /\ cursor' = [cursor EXCEPT ![w] = NoCursor]
    /\ result' = [result EXCEPT ![w] = << >>]
    /\ UNCHANGED <<catalog, page, file_pages, sent, committed>>

-----------------------------------------------------------------------------
(* INSERT: insert_plan, Insert::next, create_entry, heap_write.            *)

TableFor(w) == FindTable(catalog, Request(w).schema_name, stmt[w].ast.table_name)

\* mutant: a row that did not fit is passed over
Refused_skipped(w) ==
    /\ Goto(w, "last_pid")
    /\ cursor' = [cursor EXCEPT ![w].row_no = @ + 1]
    /\ UNCHANGED stmt
\* create_entry throws out of the statement: the rows behind are not tried.
Refused(w) == Goto(w, "reply") /\ UNCHANGED <<stmt, cursor>>

PlanInsert(w) ==
    /\ pc[w] = "execute"
    /\ stmt[w].ast.kind = "insert"
    /\ \/ TableFor(w) = NotFound /\ Throw(w)
       \/ /\ TableFor(w) # NotFound
          /\ stmt' = [stmt EXCEPT ![w].table = TableFor(w)[1]]
          /\ Goto(w, "last_pid")
          /\ UNCHANGED <<catalog, page, file_pages, owner, cursor, result, sent, committed>>

\* get_last_pid: the last page as long as it has a free byte, else a new one.
get_last_pid ==
    IF file_pages > 0 /\ page[file_pages - 1].free_size > 0 THEN file_pages - 1 ELSE file_pages

\* Insert::next, up to page_access.
NextRow(w) ==
    /\ pc[w] = "last_pid"
    /\ cursor[w].row_no < Len(stmt[w].ast.values)
    /\ get_last_pid \in Pids
    /\ cursor' = [cursor EXCEPT ![w].pid = get_last_pid]
    /\ Goto(w, "count")
    /\ UNCHANGED <<catalog, page, file_pages, owner, stmt, result, sent, committed>>

\* EOP; operation_complete is that of the call before, if there was one.
InsertDone(w) ==
    /\ pc[w] = "last_pid"
    /\ cursor[w].row_no >= Len(stmt[w].ast.values)
    /\ stmt' = [stmt EXCEPT ![w].complete = stmt[w].ast.values # << >>]
    /\ Goto(w, "reply")
    /\ UNCHANGED <<catalog, page, file_pages, owner, cursor, result, sent, committed>>

\* The steps of heap_write on the page the worker has pinned, without any lock.
CountSlot(w) ==
    LET p == cursor[w].pid IN
    /\ pc[w] = "count"
    /\ IF SlotsFull(page[p])
       THEN Refused(w) /\ page' = [page EXCEPT ![p] = initialize(@)]
       ELSE Goto(w, "take") /\ page' = [page EXCEPT ![p] = SlotCounted(@)] /\ UNCHANGED <<stmt, cursor>>
    /\ UNCHANGED <<catalog, file_pages, owner, result, sent, committed>>

\* When the space does not suffice the slot stays counted.
TakeSpace(w) ==
    LET p == cursor[w].pid IN
    /\ pc[w] = "take"
    /\ IF Fits(page[p], RowSizeOf(w))
       THEN Goto(w, "place") /\ page' = [page EXCEPT ![p] = SpaceTaken(@, RowSizeOf(w))]
                             /\ UNCHANGED <<stmt, cursor>>
       ELSE Refused(w) /\ page' = [page EXCEPT ![p] = Sized(@, RowSizeOf(w))]
    /\ UNCHANGED <<catalog, file_pages, owner, result, sent, committed>>

PlaceSlot(w) ==
    LET p == cursor[w].pid IN
    /\ pc[w] = "place"
    /\ page' = [page EXCEPT ![p] = Placed(@)]
    /\ Goto(w, "fill")
    /\ UNCHANGED <<catalog, file_pages, owner, stmt, cursor, result, sent, committed>>

FillData(w) ==
    LET p == cursor[w].pid IN
    /\ pc[w] = "fill"
    /\ page' = [page EXCEPT ![p] = DataFilled(@, stmt[w].ast.values[cursor[w].row_no + 1])]
    /\ cursor' = [cursor EXCEPT ![w].slot = CurrentSlot(page[p])]
    /\ Goto(w, "commit")
    /\ UNCHANGED <<catalog, file_pages, owner, stmt, result, sent, committed>>

\* CommitTransaction refuses a row that is not as long as its slot says.  (When it has no
\* lsn left it refuses any: WAL's LsnExhausted.)
CommitAccepts(slot, row) ==
    /\ Len(RowBytes(row)) = slot.slot_size
    /\ slot.slot_offset + Len(RowBytes(row)) <= HeapPayloadSize

Commit(w) ==
    LET c == cursor[w] IN
    /\ pc[w] = "commit"
    /\ IF CommitAccepts(c.slot, stmt[w].ast.values[c.row_no + 1])
       THEN /\ Goto(w, "last_pid")
            /\ file_pages' = Max({file_pages, c.pid + 1})
            /\ cursor' = [cursor EXCEPT ![w].row_no = @ + 1]
            /\ committed' = Append(committed,
                    [rid |-> [pid |-> c.pid, offset |-> c.slot.slot_offset], request |-> stmt[w].request,
                     columns |-> stmt[w].table.columns, row_no |-> c.row_no + 1])
       ELSE Goto(w, "reply") /\ UNCHANGED <<file_pages, cursor, committed>>
    /\ UNCHANGED <<catalog, page, owner, stmt, result, sent>>

Insert(w) ==
    \/ PlanInsert(w) \/ NextRow(w) \/ InsertDone(w)
    \/ CountSlot(w) \/ TakeSpace(w) \/ PlaceSlot(w) \/ FillData(w) \/ Commit(w)

-----------------------------------------------------------------------------
(* SELECT: select_plan, Seq_scan over heap_scan::scan, Filter, Projection. *)

KnownOps == {"==", ">=", "<=", ">", "<"}

\* parse_predicate leaves op unset for an operator it does not know.
SargOps(op) == IF op \in KnownOps THEN {op} ELSE KnownOps \cup {"none"}

Compares(op, a, b) ==
    \/ op = "==" /\ a = b
    \/ op = ">=" /\ a >= b
    \/ op = "<=" /\ a <= b
    \/ op = ">" /\ a > b
    \/ op = "<" /\ a < b

\* mutant: the column is looked up in the projection's order
SearchColumn_projected(w) ==
    SelectInSeq(stmt[w].ast.cols_name, LAMBDA c : c = stmt[w].ast.predicate[1])
\* Filter::init: the first column of the name.
SearchColumn(w) ==
    SelectInSeq(stmt[w].table.columns, LAMBDA c : c.column_name = stmt[w].ast.predicate[1])

HavePredicate(w) == stmt[w].ast.predicate # << >>

PlanSelect(w) ==
    LET table == TableFor(w)
        predicate == stmt[w].ast.predicate
        columns == table[1].columns
        column == EntryAt(columns, SelectInSeq(columns, LAMBDA c : c.column_name = predicate[1]))
        Usable == HavePredicate(w) => /\ column # NotFound
                                      /\ Convertible(predicate[3], column[1].column_type)
    IN
    /\ pc[w] = "execute"
    /\ stmt[w].ast.kind = "select"
    /\ IF table # NotFound /\ Usable
       THEN \E op \in IF HavePredicate(w) THEN SargOps(predicate[2]) ELSE {"none"} :
              /\ stmt' = [stmt EXCEPT ![w].table = table[1], ![w].op = op]
              /\ Goto(w, "scan")
              /\ UNCHANGED <<catalog, page, file_pages, owner, cursor, result, sent, committed>>
       ELSE Throw(w)

\* The scan looks at slot_count and copies the slot ...
ScanSlot(w) ==
    LET c == cursor[w] IN
    /\ pc[w] = "scan"
    /\ c.slot_no < page[c.pid].slot_count
    /\ cursor' = [cursor EXCEPT ![w].slot = page[c.pid].slots[c.slot_no + 1]]
    /\ Goto(w, "read")
    /\ UNCHANGED <<catalog, page, file_pages, owner, stmt, result, sent, committed>>

\* ... or ends: EOP of a page is EOPs to Filter, whatever pages there are behind.
\* operation_complete is that of this last call: never set.
EndOfPage(w) ==
    /\ pc[w] = "scan"
    /\ cursor[w].slot_no = page[cursor[w].pid].slot_count
    /\ Goto(w, "reply")
    /\ UNCHANGED <<catalog, page, file_pages, owner, stmt, cursor, result, sent, committed>>

\* ... reads the row by its own table's columns, whichever table the row is of, and
\* un-pins the page ...
ScanRow(w) ==
    LET c == cursor[w] IN
    /\ pc[w] = "read"
    /\ cursor' = [cursor EXCEPT ![w].slot_no = @ + 1,
                                ![w].row = ReadRow(page[c.pid], c.slot, ColumnTypesOf(stmt[w].table))]
    /\ Goto(w, "lock")
    /\ UNCHANGED <<catalog, page, file_pages, owner, stmt, result, sent, committed>>

Rid(w) == [pid |-> cursor[w].pid, offset |-> cursor[w].slot.slot_offset]

\* match_sarg; bytes that are no value of the column may match or not.
Matches(w) ==
    IF ~HavePredicate(w) THEN {TRUE}
    ELSE LET column == SearchColumn(w)
             val == cursor[w].row[column]
             constant == convert_correct_type(stmt[w].ast.predicate[3],
                                              stmt[w].table.columns[column].column_type).val
         IN  IF val = Torn THEN BOOLEAN ELSE {Compares(stmt[w].op, val, constant)}

\* Projection: for each name of the SELECT, the columns that have it.
Projected(w) ==
    LET columns == stmt[w].table.columns
        IndexesOf(name) == SetToSortSeq({i \in DOMAIN columns : columns[i].column_name = name},
                                        LAMBDA i, j : i < j)
        original_idx == FlattenSeq([k \in DOMAIN stmt[w].ast.cols_name |->
                                      IndexesOf(stmt[w].ast.cols_name[k])])
    IN  [k \in DOMAIN original_idx |-> cursor[w].row[original_idx[k]]]

\* ... and returns it once it has the row's lock; Filter drops or passes it on.
LockRow(w) ==
    /\ pc[w] = "lock"
    /\ \/ owner[Rid(w)] = w /\ UNCHANGED owner
       \/ Locks!Lock(w, Rid(w))
    /\ \E matched \in Matches(w) :
          result' = IF matched
                    THEN [result EXCEPT ![w] = Append(@, [rid |-> Rid(w), row |-> Projected(w)])]
                    ELSE result
    /\ Goto(w, "scan")
    /\ UNCHANGED <<catalog, page, file_pages, stmt, cursor, sent, committed>>

Select(w) == PlanSelect(w) \/ ScanSlot(w) \/ EndOfPage(w) \/ ScanRow(w) \/ LockRow(w)

-----------------------------------------------------------------------------
Next ==
    \E w \in Workers :
        \/ \E r \in DOMAIN Requests : Receive(w, r)
        \/ Parse(w) \/ Create(w) \/ Reply(w)
        \/ Insert(w)
        \/ Select(w)

Spec == Init /\ [][Next]_vars

-----------------------------------------------------------------------------
(* Properties.                                                             *)

\* Every variable has its type: pages keep their shape, cursors stay on their page.
TypeOK ==
    /\ page \in [Pids -> Pages]
    /\ file_pages \in 0 .. MaxPid + 1
    /\ owner \in [Rids -> Workers \cup {NoWorker}]
    /\ pc \in [Workers -> PCs]
    /\ \A w \in Workers :
          /\ cursor[w].pid \in Pids
          /\ cursor[w].slot_no \in 0 .. page[cursor[w].pid].slot_count
          /\ stmt[w].complete \in BOOLEAN
          /\ stmt[w].began \in 0 .. Len(committed)
          /\ pc[w] # "idle" => stmt[w].request \in sent
    /\ sent \subseteq DOMAIN Requests

\* What a client meant by row n of its INSERT: a code for each column of the table,
\* 0 where it named no value.
MeantValue(request, n, name) ==
    LET row == Requests[request].means.rows[n] IN
    IF name \in DOMAIN row THEN Literals[row[name]].code ELSE 0

MeantRow(c) == [i \in DOMAIN c.columns |-> MeantValue(c.request, c.row_no, c.columns[i].column_name)]

\* Once CommitTransaction has accepted a row, a slot the scans look at leads to it and
\* its bytes are those of the values the client sent and are read as these, but for a
\* string that leaves no room for its NUL; whatever is inserted, refused or read meanwhile
\* by one writer whose INSERTs leave out no column of numbers; and no two rows share a
\* place (heap_write, parse_value_clause, get_last_pid).
AckedRowsIntact ==
    /\ \A i \in DOMAIN committed :
          LET c == committed[i]
              p == page[c.rid.pid]
              types == ColumnTypesOf(c)
              slot == [slot_size |-> RowSize(types), slot_offset |-> c.rid.offset]
          IN  /\ \E s \in 1 .. p.slot_count : p.slots[s] = slot
              /\ HoldsRow(p, slot, types, MeantRow(c))
              /\ \A k \in DOMAIN types :
                    Delimited(types[k], MeantRow(c)[k]) => ReadValue(p, slot, types, k) = MeantRow(c)[k]
    /\ \A i, j \in DOMAIN committed : i # j => committed[i].rid # committed[j].rid

\* The rows of the table a SELECT must find: those committed before it began that its
\* condition, taken by column name, is true of; each in the SELECT's columns.
MeantResult(means, rows) ==
    LET Names(c) == IF means.cols = <<"*">>
                    THEN [i \in DOMAIN c.columns |-> c.columns[i].column_name] ELSE means.cols
        Holds(c) == \/ means.where = << >>
                    \/ Compares(means.where[2], MeantValue(c.request, c.row_no, means.where[1]),
                                Literals[means.where[3]].code)
        hits == SelectSeq(rows, LAMBDA c : Requests[c.request].means.table_name = means.table_name /\ Holds(c))
    IN  [i \in DOMAIN hits |->
            [rid |-> hits[i].rid,
             row |-> [k \in DOMAIN Names(hits[i]) |->
                        MeantValue(hits[i].request, hits[i].row_no, Names(hits[i])[k])]]]

\* The condition is on values that can be told from their bytes.
Decidable(means, rows) ==
    means.where # << >> =>
        \A i \in DOMAIN rows :
            Requests[rows[i].request].means.table_name = means.table_name =>
                MeantValue(rows[i].request, rows[i].row_no, means.where[1]) \notin LongStrings

\* What was found is what was meant, but for strings without a NUL.
SameRows(found, meant) ==
    /\ Len(found) = Len(meant)
    /\ \A i \in DOMAIN meant :
          /\ found[i].rid = meant[i].rid
          /\ Len(found[i].row) = Len(meant[i].row)
          /\ \A k \in DOMAIN meant[i].row :
                meant[i].row[k] \notin LongStrings => found[i].row[k] = meant[i].row[k]

\* A SELECT that runs to its end returns every row of its table acknowledged before it
\* began, once, in the order they came in, and none its condition excludes; although
\* scans stop behind the first page, rows of all tables share it, and inserts change it
\* under the scan (with one of the five operators; select_plan, Filter, Projection, heap_scan::scan).
SelectSeesAckedRows ==
    \A w \in Workers :
        LET before == SubSeq(committed, 1, stmt[w].began)
            own == {before[i].rid : i \in {j \in DOMAIN before :
                       Requests[before[j].request].means.table_name = Request(w).means.table_name}}
        IN  /\ pc[w] = "reply"
            /\ stmt[w].ast # Rejected
            /\ stmt[w].ast.kind = "select"
            /\ stmt[w].table # NoPlan
            /\ HavePredicate(w) => stmt[w].ast.predicate[2] \in KnownOps
            /\ Decidable(Request(w).means, before)
            => SameRows(SelectSeq(result[w], LAMBDA e : e.rid \in own), MeantResult(Request(w).means, before))

\* The parser makes of an INSERT the rows its client means, each value in the column it
\* names and as wide as the column, or no rows at all, as long as it leaves out no column
\* of numbers (an empty string goes there: parser.cpp:234); and the table they are planned
\* for has those columns (parse_into_clause, parse_value_clause, insert_plan).
ParsedAsMeant ==
    \A w \in Workers :
        stmt[w].ast.kind = "insert" =>
            /\ Request(w).means.kind = "insert"
            /\ stmt[w].ast.values = << >> \/ Len(stmt[w].ast.values) = Len(Request(w).means.rows)
            /\ stmt[w].table # NoPlan =>
                  \A n \in 1 .. Len(stmt[w].ast.values) :
                     LET row == stmt[w].ast.values[n]
                         columns == stmt[w].table.columns
                     IN  /\ DOMAIN row = DOMAIN columns
                         /\ \A i \in DOMAIN columns :
                               /\ Width(row[i].type) = Width(columns[i].column_type)
                               /\ row[i].val = MeantValue(stmt[w].request, n, columns[i].column_name)

\* The rows an INSERT has committed are the first of those its client lists, each once and
\* in their order, and it is answered as complete only when they are all of them: no row
\* in the middle is passed over (Insert::next, create_entry).
InsertIsAllOrPrefix ==
    \A w \in Workers :
        pc[w] = "reply" /\ Request(w).means.kind = "insert" =>
            LET mine == {i \in DOMAIN committed : committed[i].request = stmt[w].request}
                all == Len(Request(w).means.rows)
            IN  \E n \in 0 .. all :
                   /\ {committed[i].row_no : i \in mine} = 1 .. n
                   /\ \A i, j \in mine : i < j => committed[i].row_no < committed[j].row_no
                   /\ stmt[w].complete = (n = all)

\* A table that a lookup finds is found with the same columns ever after, so rows keep
\* their meaning: a second CREATE of the name, of the table or the schema, changes
\* nothing for those who use the first (entity_find, schema_create_table).
LookupsStable ==
    [][\A s, t \in {c.table_name : c \in UNION {Range(x.tables) : x \in Range(catalog)}}
              \cup {x.schema_name : x \in Range(catalog)} :
          FindTable(catalog, s, t) # NotFound => FindTable(catalog', s, t) = FindTable(catalog, s, t)]_vars

\* A scan meets the rows that have been placed from the end of the payload on: it locks
\* none that lies behind one it holds, although inserts place rows under it and statements
\* follow each other on a worker.  So two scans can wait for each other only over a slot
\* that is counted and not placed (heap_scan::scan, heap_write, ReleaseLockFromLockTable).
ScanLocksInOrder ==
    \A w \in Workers : pc[w] = "lock" /\ Rid(w).offset # 0 =>
        \A r \in Rids : owner[r] = w /\ r.pid = Rid(w).pid /\ r.offset # 0 => r.offset >= Rid(w).offset

\* No set of scans waits for rows that each other have locked.
Waiting(w) == pc[w] = "lock" /\ owner[Rid(w)] \notin {NoWorker, w}
NoScanCycle ==
    ~ \E S \in SUBSET Workers \ {{}} :
          \A w \in S : Waiting(w) /\ owner[Rid(w)] \in S
=============================================================================
