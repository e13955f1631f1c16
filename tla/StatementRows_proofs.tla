------------------------ MODULE StatementRows_proofs ------------------------
(***************************************************************************)
(* What INSERT promises for the rows it acknowledges, for every number of  *)
(* workers, statements, pages and columns and every size of page: they     *)
(* stay where they are and what they are, and they are the first of those  *)
(* the statement lists.  That what the parser makes of a text is what its  *)
(* client means is an assumption on the behaviour, ParsedAsMeant; that one *)
(* worker inserts at a time is one on the constants, OneWriter.  And the   *)
(* order in which SELECT locks rows, which needs neither.                  *)
(***************************************************************************)
EXTENDS Statements_proofs

InsertPCs == {"last_pid", "count", "take", "place", "fill", "commit"}
RowPCs    == {"count", "take", "place", "fill", "commit"}   \* has a row to insert
OnPagePCs == {"take", "place", "fill", "commit"}            \* has counted a slot for it
PlacePCs  == {"place", "fill", "commit"}                    \* has taken space for it

IsStmt(s) == s = [request |-> s.request, ast |-> s.ast, table |-> s.table, op |-> s.op,
                  complete |-> s.complete, began |-> s.began]
IsCursor(c) == c = [pid |-> c.pid, slot_no |-> c.slot_no, row_no |-> c.row_no, slot |-> c.slot,
                    row |-> c.row]

-----------------------------------------------------------------------------
(* Invariants on types.                                                    *)

TablesOK == \A i \in DOMAIN catalog : \A k \in DOMAIN catalog[i].tables : IsTable(catalog[i].tables[k])

PagesOK ==
    /\ page \in [Pids -> Pages]
    /\ \A p \in Pids : ~page[p].is_initialized => page[p].slot_count = 0

SharedOK ==
    /\ file_pages \in 0 .. MaxPid + 1
    /\ owner \in [Rids -> Workers \cup {NoWorker}]
    /\ pc \in [Workers -> PCs]
    /\ stmt = [w \in Workers |-> stmt[w]]
    /\ cursor = [w \in Workers |-> cursor[w]]
    /\ sent \subseteq DOMAIN Requests
    /\ IsList(committed)

\* A worker's statement.
StmtOK(w) ==
    /\ IsStmt(stmt[w])
    /\ stmt[w].complete \in BOOLEAN
    /\ stmt[w].began \in 0 .. Len(committed)
    /\ pc[w] # "idle" => stmt[w].request \in sent
    /\ stmt[w].ast.kind = "table" => IsTable(stmt[w].ast)
    /\ stmt[w].ast.kind = "insert" => AreRows(stmt[w].ast.values)
    /\ pc[w] \in InsertPCs => stmt[w].ast.kind = "insert" /\ IsTable(stmt[w].table)

\* Where it is; slots and rows are counted up.
CursorOK(w) ==
    /\ IsCursor(cursor[w])
    /\ cursor[w].pid \in Pids
    /\ cursor[w].slot \in Slots
    /\ cursor[w].row_no \in Nat
    /\ cursor[w].slot_no \in 0 .. page[cursor[w].pid].slot_count
    /\ pc[w] \notin {"scan", "read", "lock", "reply"} => cursor[w].slot_no = 0
    /\ pc[w] = "read" => cursor[w].slot_no < page[cursor[w].pid].slot_count
    /\ pc[w] \in RowPCs => cursor[w].row_no < Len(stmt[w].ast.values)
    /\ pc[w] \in OnPagePCs => page[cursor[w].pid].is_initialized /\ page[cursor[w].pid].slot_count # 0

TypeInv ==
    /\ CatalogInv /\ TablesOK
    /\ PagesOK /\ SharedOK
    /\ \A w \in Workers : StmtOK(w) /\ CursorOK(w)

-----------------------------------------------------------------------------
(* The inductive invariant of the rows.                                    *)

\* The types of the row a worker is inserting, and what its client means it to be.
TypesOf(w) == ColumnTypesOf(stmt[w].table)
MeantOf(w) ==
    [i \in DOMAIN stmt[w].table.columns |->
        MeantValue(stmt[w].request, cursor[w].row_no + 1, stmt[w].table.columns[i].column_name)]

\* The newest slot of the page is that of the row the worker is inserting, and the row
\* is to begin where the free bytes end.
NewestOK(w) ==
    LET p == page[cursor[w].pid] IN
    /\ pc[w] \in PlacePCs =>
          /\ CurrentSlot(p).slot_size = RowSize(TypesOf(w))
          /\ p.free_size + RowSize(TypesOf(w)) <= HeapPayloadSize
    /\ pc[w] \in {"fill", "commit"} => CurrentSlot(p).slot_offset = p.free_size
    /\ pc[w] = "commit" =>
          /\ cursor[w].slot = CurrentSlot(p)
          /\ HoldsRow(p, CurrentSlot(p), TypesOf(w), MeantOf(w))

InsertersOK ==
    \A w \in Workers :
        /\ pc[w] # "idle" /\ Request(w).means.kind = "insert" => w \in Writers
        /\ NewestOK(w)

\* The slot of an acknowledged row.
SlotOf(c) == [slot_size |-> RowSize(ColumnTypesOf(c)), slot_offset |-> c.rid.offset]

\* It leads to the row, and the row is behind the free bytes; whoever inserts into the
\* page has a slot of its own and space before the row.
AckedRow(c) ==
    LET p == page[c.rid.pid]
        size == RowSize(ColumnTypesOf(c))
    IN  /\ IsTable(c)
        /\ c.rid \in Rids
        /\ p.is_initialized
        /\ p.free_size <= c.rid.offset
        /\ c.rid.offset + size <= HeapPayloadSize
        /\ HoldsRow(p, SlotOf(c), ColumnTypesOf(c), MeantRow(c))
        /\ \E s \in 1 .. p.slot_count :
              /\ p.slots[s] = SlotOf(c)
              /\ \A w \in Workers : pc[w] \in OnPagePCs /\ cursor[w].pid = c.rid.pid => s # p.slot_count
        /\ \A w \in Workers :
              pc[w] \in PlacePCs /\ cursor[w].pid = c.rid.pid
              => p.free_size + RowSize(TypesOf(w)) <= c.rid.offset

RowsInv ==
    /\ InsertersOK
    /\ \A i \in DOMAIN committed : AckedRow(committed[i])
    /\ \A i, j \in DOMAIN committed : i # j => committed[i].rid # committed[j].rid

-----------------------------------------------------------------------------
(* The inductive invariant of a statement's rows.                          *)

\* The rows of its request that are committed are those the worker has counted.
Mine(r) == {i \in DOMAIN committed : committed[i].request = r}

FirstRows(r, n) ==
    /\ {committed[i].row_no : i \in Mine(r)} = 1 .. n
    /\ \A i, j \in Mine(r) : i < j => committed[i].row_no < committed[j].row_no

CountedOK(w) ==
    /\ pc[w] \notin InsertPCs \cup {"reply"} => cursor[w].row_no = 0
    /\ pc[w] \in InsertPCs => cursor[w].row_no <= Len(stmt[w].ast.values)
    /\ pc[w] # "idle" => FirstRows(stmt[w].request, cursor[w].row_no)
    /\ pc[w] # "reply" => ~stmt[w].complete
    /\ pc[w] = "reply" /\ Request(w).means.kind = "insert" =>
          /\ cursor[w].row_no <= Len(Request(w).means.rows)
          /\ stmt[w].complete <=> cursor[w].row_no = Len(Request(w).means.rows)

PrefixInv ==
    /\ \A w \in Workers : CountedOK(w)
    /\ \A w, v \in Workers :
          w # v /\ pc[w] # "idle" /\ pc[v] # "idle" => stmt[w].request # stmt[v].request
    /\ \A i \in DOMAIN committed : committed[i].request \in sent
-----------------------------------------------------------------------------
(* Types are invariant.                                                    *)

\* The catalog keeps tables with columns.
LEMMA TablesStep ==
    ASSUME CatalogInv, TablesOK, \A w \in Workers : StmtOK(w), [Next]_vars
    PROVE  TablesOK'
<1>1. CASE UNCHANGED catalog
    BY <1>1 DEF TablesOK
<1>2. CASE \E w \in Workers : Create(w)
    <2>1. PICK w \in Workers : Create(w)
        BY <1>2
    <2>2. PICK S : catalog \in Seq(S)
        BY DEF CatalogInv, IsCatalog
    <2>3. CASE stmt[w].ast.kind = "schema" /\ catalog' = create_schema(catalog, stmt[w].ast)
        <3> DEFINE e == [schema_name |-> stmt[w].ast.schema_name, tables |-> << >>]
        <3>1. catalog' = Append(catalog, e)
            BY <2>3 DEF create_schema
        <3>2. DOMAIN e.tables = {}
            OBVIOUS
        <3> HIDE DEF e
        <3>3. DOMAIN catalog' = 1 .. Len(catalog) + 1
            BY <2>2, <3>1
        <3>4. \A i \in 1 .. Len(catalog) : catalog'[i] = catalog[i] /\ i \in DOMAIN catalog
            BY <2>2, <3>1
        <3>5. catalog'[Len(catalog) + 1] = e
            BY <2>2, <3>1
        <3>6. Len(catalog) \in Nat
            BY <2>2
        <3> SUFFICES ASSUME NEW i \in 1 .. Len(catalog) + 1, NEW k \in DOMAIN catalog'[i].tables
                     PROVE  IsTable(catalog'[i].tables[k])
            BY <3>3 DEF TablesOK
        <3>7. CASE i = Len(catalog) + 1
            BY <3>2, <3>5, <3>7
        <3>8. CASE i \in 1 .. Len(catalog)
            BY <3>4, <3>8 DEF TablesOK
        <3> QED
            BY <3>6, <3>7, <3>8
    <2>4. CASE stmt[w].ast.kind = "table"
               /\ catalog' = schema_create_table(catalog, Request(w).schema_name, stmt[w].ast)
        <3> DEFINE ast == stmt[w].ast
                   t == [table_name |-> ast.table_name, columns |-> ast.columns]
                   Entry(i) == IF catalog[i].schema_name = Request(w).schema_name
                               THEN [catalog[i] EXCEPT !.tables = Append(@, t)] ELSE catalog[i]
        <3>1. catalog' = [i \in DOMAIN catalog |-> Entry(i)]
            BY <2>4 DEF schema_create_table
        <3>2. IsTable(ast)
            BY <2>4 DEF StmtOK
        <3>3. IsTable(t)
            BY <3>2 DEF IsTable
        <3>4. ASSUME NEW i \in DOMAIN catalog, NEW k \in DOMAIN Entry(i).tables
              PROVE  IsTable(Entry(i).tables[k])
            <4>1. PICK T : catalog[i].tables \in Seq(T)
                BY DEF CatalogInv, IsCatalog
            <4>2. catalog[i] = [schema_name |-> catalog[i].schema_name, tables |-> catalog[i].tables]
                BY DEF CatalogInv, IsCatalog
            <4>3. \A j \in DOMAIN catalog[i].tables : IsTable(catalog[i].tables[j])
                BY DEF TablesOK
            <4>4. CASE catalog[i].schema_name = Request(w).schema_name
                <5>1. Entry(i).tables = Append(catalog[i].tables, t)
                    BY <4>2, <4>4
                <5> HIDE DEF t
                <5>2. DOMAIN Append(catalog[i].tables, t) = 1 .. Len(catalog[i].tables) + 1
                    BY <4>1
                <5>3. /\ Append(catalog[i].tables, t)[Len(catalog[i].tables) + 1] = t
                      /\ \A j \in 1 .. Len(catalog[i].tables) :
                            /\ Append(catalog[i].tables, t)[j] = catalog[i].tables[j]
                            /\ j \in DOMAIN catalog[i].tables
                      /\ Len(catalog[i].tables) \in Nat
                    BY <4>1
                <5> HIDE DEF Entry
                <5>4. k \in 1 .. Len(catalog[i].tables) + 1
                    BY <5>1, <5>2
                <5> QED
                    BY <3>3, <4>3, <5>1, <5>3, <5>4
            <4>5. CASE catalog[i].schema_name # Request(w).schema_name
                BY <4>3, <4>5
            <4> QED
                BY <4>4, <4>5
        <3> HIDE DEF Entry
        <3>5. DOMAIN catalog' = DOMAIN catalog /\ \A i \in DOMAIN catalog : catalog'[i] = Entry(i)
            BY <3>1
        <3> QED
            BY <3>4, <3>5 DEF TablesOK
    <2> QED
        BY <2>1, <2>3, <2>4 DEF Create
<1>3. CASE UNCHANGED vars
    BY <1>1, <1>3 DEF vars
<1>4. CASE Next
    <2>1. PICK w \in Workers : \/ \E r \in DOMAIN Requests : Receive(w, r)
                               \/ Parse(w) \/ Create(w) \/ Reply(w)
                               \/ Insert(w)
                               \/ Select(w)
        BY <1>4 DEF Next
    <2>2. CASE \E r \in DOMAIN Requests : Receive(w, r)
        BY <1>1, <2>2 DEF Receive
    <2>3. CASE Parse(w)
        BY <1>1, <2>3 DEF Parse
    <2>4. CASE Create(w)
        BY <1>2, <2>4
    <2>5. CASE Reply(w)
        BY <1>1, <2>5 DEF Reply
    <2>6. CASE Insert(w)
        BY <1>1, <2>6 DEF Insert, PlanInsert, Throw, NextRow, InsertDone, CountSlot, TakeSpace,
                          PlaceSlot, FillData, Commit
    <2>7. CASE Select(w)
        BY <1>1, <2>7 DEF Select, PlanSelect, Throw, ScanSlot, EndOfPage, ScanRow, LockRow
    <2> QED
        BY <2>1, <2>2, <2>3, <2>4, <2>5, <2>6, <2>7
<1> QED
    BY <1>3, <1>4

\* The types of a table's columns.
LEMMA TypesOfTable ==
    ASSUME NEW table, IsTable(table)
    PROVE  /\ IsList(ColumnTypesOf(table))
           /\ Len(ColumnTypesOf(table)) = Len(table.columns)
           /\ Len(table.columns) \in Nat \ {0}
           /\ DOMAIN ColumnTypesOf(table) = 1 .. Len(table.columns)
           /\ DOMAIN table.columns = 1 .. Len(table.columns)
           /\ \A i \in 1 .. Len(table.columns) :
                 ColumnTypesOf(table)[i] = table.columns[i].column_type
           /\ RowSize(ColumnTypesOf(table)) \in Nat \ {0}
<1>1. PICK T : table.columns \in Seq(T)
    BY DEF IsTable, IsList
<1>2. PICK n \in Nat \ {0} : n = Len(table.columns)
    BY <1>1 DEF IsTable
<1>3. DOMAIN table.columns = 1 .. n
    BY <1>1, <1>2
<1>4. PICK types : types = ColumnTypesOf(table)
    OBVIOUS
<1>5. types = [i \in 1 .. n |-> table.columns[i].column_type]
    BY <1>3, <1>4 DEF ColumnTypesOf
<1> DEFINE U == {table.columns[i].column_type : i \in 1 .. n}
<1>6. types \in [1 .. n -> U]
    BY <1>5
<1>7. types \in Seq(U) /\ Len(types) = n /\ DOMAIN types = 1 .. n
    <2> HIDE DEF U
    <2> QED
        BY <1>6
<1>8. IsList(types)
    <2> HIDE DEF U
    <2> QED
        BY <1>7 DEF IsList
<1>9. \A i \in 1 .. n : types[i] = table.columns[i].column_type
    BY <1>5
<1> HIDE DEF U
<1>10. RowSize(types) \in Nat \ {0}
    <2>1. 1 \in 1 .. Len(types)
        BY <1>7
    <2>2. /\ ColumnOffset(types, 1) \in Nat
          /\ ColumnOffset(types, 1) + Width(types[1]) <= RowSize(types)
          /\ RowSize(types) \in Nat
        BY <1>8, <2>1, ColumnFits
    <2>3. Width(types[1]) \in Nat \ {0}
        BY WidthPositive
    <2> QED
        BY <2>2, <2>3
<1> QED
    BY <1>2, <1>3, <1>4, <1>7, <1>8, <1>9, <1>10

\* What a client means is a number, of a literal or 0.
LEMMA MeantIsNat ==
    ASSUME NEW r \in DOMAIN Requests, Requests[r].means.kind = "insert",
           NEW n \in 1 .. Len(Requests[r].means.rows), NEW name
    PROVE  MeantValue(r, n, name) \in Nat
<1>1. CASE name \in DOMAIN Requests[r].means.rows[n]
    <2>1. Requests[r].means.rows[n][name] \in DOMAIN Literals
        BY <1>1, StatementsAssumption
    <2>2. Literals[Requests[r].means.rows[n][name]].code \in Nat
        BY <2>1, ParserAssumption
    <2> QED
        BY <1>1, <2>2 DEF MeantValue
<1>2. CASE name \notin DOMAIN Requests[r].means.rows[n]
    BY <1>2 DEF MeantValue
<1> QED
    BY <1>1, <1>2

\* The row a worker is inserting.
RowOf(w) == stmt[w].ast.values[cursor[w].row_no + 1]

\* It fits its table and has the values it is meant to have.
LEMMA RowAsMeant ==
    ASSUME TypeInv, ParsedAsMeant, NEW w \in Workers, pc[w] \in RowPCs
    PROVE  /\ IsTable(stmt[w].table)
           /\ IsRow(RowOf(w), TypesOf(w))
           /\ ValuesOf(RowOf(w), TypesOf(w)) = MeantOf(w)
           /\ Request(w).means.kind = "insert"
           /\ Len(stmt[w].ast.values) = Len(Request(w).means.rows)
<1>1. /\ stmt[w].ast.kind = "insert"
      /\ IsTable(stmt[w].table)
      /\ pc[w] # "idle"
      /\ stmt[w].request \in DOMAIN Requests
    BY DEF TypeInv, StmtOK, SharedOK, RowPCs, InsertPCs
<1>2. stmt[w].table # NoPlan
    <2>1. Len(NoPlan.columns) = 0
        BY DEF NoPlan
    <2> QED
        BY <1>1, <2>1 DEF IsTable
<1>3. cursor[w].row_no \in Nat /\ cursor[w].row_no < Len(stmt[w].ast.values)
    BY DEF TypeInv, CursorOK
<1>4. Request(w).means.kind = "insert"
    BY <1>1 DEF ParsedAsMeant
<1>5. Len(Request(w).means.rows) \in Nat \ {0}
    BY <1>1, <1>4, StatementsAssumption DEF Request
<1>6. Len(stmt[w].ast.values) = Len(Request(w).means.rows)
    <2>1. stmt[w].ast.values = << >> \/ Len(stmt[w].ast.values) = Len(Request(w).means.rows)
        BY <1>1 DEF ParsedAsMeant
    <2>2. Len(<< >>) = 0
        OBVIOUS
    <2> QED
        BY <1>3, <2>1, <2>2
<1>7. PICK n : n = cursor[w].row_no + 1
    OBVIOUS
<1>8. n \in 1 .. Len(stmt[w].ast.values) /\ n \in 1 .. Len(Request(w).means.rows)
    BY <1>3, <1>5, <1>6, <1>7
<1>9. /\ DOMAIN RowOf(w) = DOMAIN stmt[w].table.columns
      /\ \A i \in DOMAIN stmt[w].table.columns :
            /\ Width(RowOf(w)[i].type) = Width(stmt[w].table.columns[i].column_type)
            /\ RowOf(w)[i].val = MeantValue(stmt[w].request, n, stmt[w].table.columns[i].column_name)
    BY <1>1, <1>2, <1>7, <1>8 DEF ParsedAsMeant, RowOf
<1>10. /\ Len(TypesOf(w)) = Len(stmt[w].table.columns)
       /\ DOMAIN TypesOf(w) = 1 .. Len(stmt[w].table.columns)
       /\ DOMAIN stmt[w].table.columns = 1 .. Len(stmt[w].table.columns)
       /\ \A i \in 1 .. Len(stmt[w].table.columns) : TypesOf(w)[i] = stmt[w].table.columns[i].column_type
    BY <1>1, TypesOfTable DEF TypesOf
<1>11. FitsColumns(RowOf(w), TypesOf(w))
    BY <1>9, <1>10 DEF FitsColumns
<1>12. \A i \in 1 .. Len(TypesOf(w)) : RowOf(w)[i].val \in Nat
    <2> SUFFICES ASSUME NEW i \in 1 .. Len(TypesOf(w))
                 PROVE  RowOf(w)[i].val \in Nat
        OBVIOUS
    <2>1. RowOf(w)[i].val = MeantValue(stmt[w].request, n, stmt[w].table.columns[i].column_name)
        BY <1>9, <1>10
    <2> QED
        BY <1>1, <1>4, <1>8, <2>1, MeantIsNat DEF Request
<1>13. ValuesOf(RowOf(w), TypesOf(w)) = MeantOf(w)
    BY <1>7, <1>9, <1>10 DEF ValuesOf, MeantOf
<1> QED
    BY <1>1, <1>4, <1>6, <1>11, <1>12, <1>13 DEF IsRow

\* Whether or not it fits its table and is what it was meant to be, it is a row.
LEMMA RowOfItsOwn ==
    ASSUME TypeInv, NEW w \in Workers, pc[w] \in RowPCs
    PROVE  \E types : IsList(types) /\ IsRow(RowOf(w), types)
<1>1. AreRows(stmt[w].ast.values)
    BY DEF TypeInv, StmtOK, RowPCs, InsertPCs
<1>2. cursor[w].row_no + 1 \in 1 .. Len(stmt[w].ast.values)
    <2>1. cursor[w].row_no \in Nat /\ cursor[w].row_no < Len(stmt[w].ast.values)
        BY DEF TypeInv, CursorOK
    <2>2. PICK T : stmt[w].ast.values \in Seq(T)
        BY <1>1 DEF AreRows, IsList
    <2>3. Len(stmt[w].ast.values) \in Nat
        BY <2>2
    <2> QED
        BY <2>1, <2>3
<1>3. PICK row : row = RowOf(w)
    OBVIOUS
<1>4. PICK n \in Nat : DOMAIN row = 1 .. n /\ \A i \in 1 .. n : row[i].val \in Nat
    BY <1>1, <1>2, <1>3 DEF AreRows, IsValues, RowOf
<1>5. PICK types : types = [i \in 1 .. n |-> row[i].type]
    OBVIOUS
<1> DEFINE T == {row[i].type : i \in 1 .. n}
<1>6. types \in [1 .. n -> T]
    BY <1>5
<1>7. types \in Seq(T) /\ Len(types) = n
    <2> HIDE DEF T
    <2> QED
        BY <1>6
<1> HIDE DEF T
<1>8. \A i \in 1 .. n : types[i] = row[i].type
    BY <1>5
<1>9. IsList(types)
    BY <1>7 DEF IsList
<1>10. IsRow(row, types)
    BY <1>4, <1>7, <1>8 DEF IsRow, FitsColumns
<1> QED
    BY <1>3, <1>9, <1>10

-----------------------------------------------------------------------------
(* What each step of heap_write does to the pages.                         *)

\* A page keeps its rows' slots, or gets one more.
PageGrows(p, q) ==
    /\ q \in Pages
    /\ q.slot_count >= p.slot_count
    /\ p.is_initialized => q.is_initialized
    /\ ~q.is_initialized => q.slot_count = 0

LEMMA SamePageGrows ==
    ASSUME PagesOK, NEW p \in Pids
    PROVE  PageGrows(page[p], page[p])
<1>1. page[p] \in Pages /\ (~page[p].is_initialized => page[p].slot_count = 0)
    BY DEF PagesOK
<1>2. page[p].slot_count \in 0 .. MaxSlots
    BY <1>1 DEF Pages
<1> QED
    BY <1>1, <1>2, HeapPageAssumption DEF PageGrows

\* The page of a worker's cursor becomes q, the others stay.
PageBecomes(w, q) ==
    /\ page' = [page EXCEPT ![cursor[w].pid] = q]
    /\ PageGrows(page[cursor[w].pid], q)

LEMMA CountSlotPage ==
    ASSUME TypeInv, NEW w \in Workers, CountSlot(w)
    PROVE  LET p == page[cursor[w].pid]
               q == IF SlotsFull(p) THEN initialize(p) ELSE SlotCounted(p)
           IN  PageBecomes(w, q) /\ q.is_initialized /\ (~SlotsFull(p) => q.slot_count # 0)
<1>1. PICK p : p = page[cursor[w].pid]
    OBVIOUS
<1>2. p \in Pages /\ (~p.is_initialized => p.slot_count = 0) /\ cursor[w].pid \in Pids
    BY <1>1 DEF TypeInv, PagesOK, CursorOK
<1>3. initialize(p) \in Pages /\ initialize(p).is_initialized
    BY <1>2, Initialized
<1>4. initialize(p).slot_count = p.slot_count /\ initialize(p).slot_count \in 0 .. MaxSlots
    BY <1>2, <1>3, Initialized DEF Pages
<1>5. CASE SlotsFull(p)
    <2>1. page' = [page EXCEPT ![cursor[w].pid] = initialize(p)]
        BY <1>1, <1>5 DEF CountSlot
    <2>2. PageGrows(p, initialize(p))
        BY <1>3, <1>4, HeapPageAssumption DEF PageGrows
    <2> QED
        BY <1>1, <1>3, <1>5, <2>1, <2>2 DEF PageBecomes
<1>6. CASE ~SlotsFull(p)
    <2>1. page' = [page EXCEPT ![cursor[w].pid] = SlotCounted(p)]
        BY <1>1, <1>6 DEF CountSlot
    <2>2. /\ SlotCounted(p) \in Pages
          /\ SlotCounted(p).is_initialized
          /\ SlotCounted(p).slot_count = p.slot_count + 1
        BY <1>2, <1>4, <1>6, Counted
    <2>3. PageGrows(p, SlotCounted(p)) /\ SlotCounted(p).slot_count # 0
        BY <1>4, <2>2, HeapPageAssumption DEF PageGrows
    <2> QED
        BY <1>1, <1>6, <2>1, <2>2, <2>3 DEF PageBecomes
<1> QED
    BY <1>5, <1>6

LEMMA TakeSpacePage ==
    ASSUME TypeInv, NEW w \in Workers, TakeSpace(w)
    PROVE  LET p == page[cursor[w].pid]
               q == IF Fits(p, RowSizeOf(w)) THEN SpaceTaken(p, RowSizeOf(w)) ELSE Sized(p, RowSizeOf(w))
           IN  PageBecomes(w, q) /\ q.is_initialized /\ q.slot_count = p.slot_count /\ p.slot_count # 0
<1>1. PICK p : p = page[cursor[w].pid]
    OBVIOUS
<1>2. p \in Pages /\ cursor[w].pid \in Pids /\ p.is_initialized /\ p.slot_count # 0
    BY <1>1 DEF TypeInv, PagesOK, CursorOK, TakeSpace, OnPagePCs
<1>3. PICK n \in Nat : n = RowSizeOf(w)
    <2>1. IsTable(stmt[w].table)
        BY DEF TypeInv, StmtOK, TakeSpace, InsertPCs
    <2> QED
        BY <2>1, TypesOfTable DEF RowSizeOf
<1>4. p.slot_count \in 0 .. MaxSlots
    BY <1>2 DEF Pages
<1>5. CASE Fits(p, n)
    <2>1. page' = [page EXCEPT ![cursor[w].pid] = SpaceTaken(p, n)]
        BY <1>1, <1>3, <1>5 DEF TakeSpace
    <2>2. /\ SpaceTaken(p, n) \in Pages
          /\ SpaceTaken(p, n).is_initialized
          /\ SpaceTaken(p, n).slot_count = p.slot_count
        BY <1>2, <1>5, TakenSpace
    <2>3. PageGrows(p, SpaceTaken(p, n))
        BY <1>2, <1>4, <2>2, HeapPageAssumption DEF PageGrows
    <2> QED
        BY <1>1, <1>2, <1>3, <1>5, <2>1, <2>2, <2>3 DEF PageBecomes
<1>6. CASE ~Fits(p, n)
    <2>1. page' = [page EXCEPT ![cursor[w].pid] = Sized(p, n)]
        BY <1>1, <1>3, <1>6 DEF TakeSpace
    <2>2. /\ Sized(p, n) \in Pages
          /\ Sized(p, n).is_initialized
          /\ Sized(p, n).slot_count = p.slot_count
        BY <1>2, <1>6, SizedNewest
    <2>3. PageGrows(p, Sized(p, n))
        BY <1>2, <1>4, <2>2, HeapPageAssumption DEF PageGrows
    <2> QED
        BY <1>1, <1>2, <1>3, <1>6, <2>1, <2>2, <2>3 DEF PageBecomes
<1> QED
    BY <1>5, <1>6

LEMMA PlaceSlotPage ==
    ASSUME TypeInv, NEW w \in Workers, PlaceSlot(w)
    PROVE  LET p == page[cursor[w].pid]
               q == Placed(p)
           IN  PageBecomes(w, q) /\ q.is_initialized /\ q.slot_count = p.slot_count /\ p.slot_count # 0
<1>1. PICK p : p = page[cursor[w].pid]
    OBVIOUS
<1>2. p \in Pages /\ cursor[w].pid \in Pids /\ p.is_initialized /\ p.slot_count # 0
    BY <1>1 DEF TypeInv, PagesOK, CursorOK, PlaceSlot, OnPagePCs
<1>3. p.slot_count \in 0 .. MaxSlots
    BY <1>2 DEF Pages
<1>4. page' = [page EXCEPT ![cursor[w].pid] = Placed(p)]
    BY <1>1 DEF PlaceSlot
<1>5. Placed(p) \in Pages /\ Placed(p).is_initialized /\ Placed(p).slot_count = p.slot_count
    BY <1>2, PlacedNewest
<1>6. PageGrows(p, Placed(p))
    BY <1>2, <1>3, <1>5, HeapPageAssumption DEF PageGrows
<1> QED
    BY <1>1, <1>2, <1>4, <1>5, <1>6 DEF PageBecomes

LEMMA FillDataPage ==
    ASSUME TypeInv, NEW w \in Workers, FillData(w)
    PROVE  LET p == page[cursor[w].pid]
               q == DataFilled(p, RowOf(w))
           IN  PageBecomes(w, q) /\ q.is_initialized /\ q.slot_count = p.slot_count /\ p.slot_count # 0
<1>1. PICK p : p = page[cursor[w].pid]
    OBVIOUS
<1>2. p \in Pages /\ cursor[w].pid \in Pids /\ p.is_initialized /\ p.slot_count # 0
    BY <1>1 DEF TypeInv, PagesOK, CursorOK, FillData, OnPagePCs
<1>3. p.slot_count \in 0 .. MaxSlots
    BY <1>2 DEF Pages
<1>4. PICK q : q = DataFilled(p, RowOf(w))
    OBVIOUS
<1>5. page' = [page EXCEPT ![cursor[w].pid] = q]
    BY <1>1, <1>4 DEF FillData, RowOf
<1>6. q \in Pages /\ q.is_initialized = p.is_initialized /\ q.slot_count = p.slot_count
    <2>1. PICK types : IsList(types) /\ IsRow(RowOf(w), types)
        BY RowOfItsOwn DEF FillData, RowPCs
    <2> QED
        BY <1>2, <1>4, <2>1, FilledPage
<1>7. PageGrows(p, q)
    BY <1>2, <1>3, <1>6, HeapPageAssumption DEF PageGrows
<1> QED
    BY <1>1, <1>2, <1>4, <1>5, <1>6, <1>7 DEF PageBecomes

\* Any step lets the pages grow.
LEMMA PagesStep ==
    ASSUME TypeInv, [Next]_vars
    PROVE  PagesOK' /\ \A p \in Pids : PageGrows(page[p], page'[p])
<1>1. CASE UNCHANGED page
    BY <1>1, SamePageGrows DEF TypeInv, PagesOK
<1>2. ASSUME NEW w \in Workers, NEW q, PageBecomes(w, q)
      PROVE  PagesOK' /\ \A p \in Pids : PageGrows(page[p], page'[p])
    <2>1. page \in [Pids -> Pages] /\ cursor[w].pid \in Pids
        BY DEF TypeInv, PagesOK, CursorOK
    <2>2. q \in Pages /\ page' = [page EXCEPT ![cursor[w].pid] = q]
        BY <1>2 DEF PageBecomes, PageGrows
    <2>3. page' \in [Pids -> Pages] /\ page'[cursor[w].pid] = q
          /\ \A p \in Pids : p # cursor[w].pid => page'[p] = page[p]
        BY <2>1, <2>2
    <2>4. \A p \in Pids : PageGrows(page[p], page'[p])
        BY <1>2, <2>3, SamePageGrows DEF TypeInv, PageBecomes
    <2> QED
        BY <2>3, <2>4 DEF PagesOK, PageGrows
<1>3. CASE UNCHANGED vars
    BY <1>1, <1>3 DEF vars
<1>4. CASE Next
    <2>1. PICK w \in Workers : \/ \E r \in DOMAIN Requests : Receive(w, r)
                               \/ Parse(w) \/ Create(w) \/ Reply(w)
                               \/ Insert(w)
                               \/ Select(w)
        BY <1>4 DEF Next
    <2>2. CASE \E r \in DOMAIN Requests : Receive(w, r)
        BY <1>1, <2>2 DEF Receive
    <2>3. CASE Parse(w) \/ Create(w) \/ Reply(w)
        BY <1>1, <2>3 DEF Parse, Create, Reply
    <2>4. CASE PlanInsert(w) \/ NextRow(w) \/ InsertDone(w) \/ Commit(w)
        BY <1>1, <2>4 DEF PlanInsert, Throw, NextRow, InsertDone, Commit
    <2>5. CASE CountSlot(w)
        BY <1>2, <2>5, CountSlotPage
    <2>6. CASE TakeSpace(w)
        BY <1>2, <2>6, TakeSpacePage
    <2>7. CASE PlaceSlot(w)
        BY <1>2, <2>7, PlaceSlotPage
    <2>8. CASE FillData(w)
        BY <1>2, <2>8, FillDataPage
    <2>9. CASE Select(w)
        BY <1>1, <2>9 DEF Select, PlanSelect, Throw, ScanSlot, EndOfPage, ScanRow, LockRow
    <2> QED
        BY <2>1, <2>2, <2>3, <2>4, <2>5, <2>6, <2>7, <2>8, <2>9 DEF Insert
<1> QED
    BY <1>3, <1>4

-----------------------------------------------------------------------------
(* The workers.                                                            *)

WorkerStep(w) ==
    \/ \E r \in DOMAIN Requests : Receive(w, r)
    \/ Parse(w) \/ Create(w) \/ Reply(w)
    \/ Insert(w)
    \/ Select(w)

\* A worker moves nobody but itself.
LEMMA OthersStay ==
    ASSUME SharedOK, NEW w \in Workers, WorkerStep(w)
    PROVE  /\ pc' \in [Workers -> PCs]
           /\ stmt' = [v \in Workers |-> stmt'[v]]
           /\ cursor' = [v \in Workers |-> cursor'[v]]
           /\ \A v \in Workers \ {w} : pc'[v] = pc[v] /\ stmt'[v] = stmt[v] /\ cursor'[v] = cursor[v]
<1>1. /\ pc \in [Workers -> PCs]
      /\ stmt = [v \in Workers |-> stmt[v]]
      /\ cursor = [v \in Workers |-> cursor[v]]
    BY DEF SharedOK
<1>2. \E label \in PCs : pc' = [pc EXCEPT ![w] = label]
    BY <1>1 DEF WorkerStep, Receive, Parse, Create, Reply, Insert, PlanInsert, Throw, NextRow, InsertDone,
                CountSlot, TakeSpace, PlaceSlot, FillData, Commit, Refused, Select, PlanSelect, ScanSlot,
                EndOfPage, ScanRow, LockRow, Goto, PCs
<1>3. UNCHANGED stmt \/ \E s : stmt' = [stmt EXCEPT ![w] = s]
    <2>1. CASE \E r \in DOMAIN Requests : Receive(w, r)
        BY <2>1 DEF Receive
    <2>2. CASE Parse(w) \/ Create(w) \/ Reply(w)
        BY <2>2 DEF Parse, Create, Reply
    <2>3. CASE PlanInsert(w) \/ NextRow(w) \/ InsertDone(w) \/ Commit(w)
        BY <2>3 DEF PlanInsert, Throw, NextRow, InsertDone, Commit
    <2>4. CASE CountSlot(w) \/ TakeSpace(w) \/ PlaceSlot(w) \/ FillData(w)
        BY <2>4 DEF CountSlot, TakeSpace, PlaceSlot, FillData, Refused
    <2>5. CASE PlanSelect(w)
        BY <2>5 DEF PlanSelect, Throw
    <2>6. CASE ScanSlot(w) \/ EndOfPage(w) \/ ScanRow(w) \/ LockRow(w)
        BY <2>6 DEF ScanSlot, EndOfPage, ScanRow, LockRow
    <2> QED
        BY <2>1, <2>2, <2>3, <2>4, <2>5, <2>6 DEF WorkerStep, Insert, Select
<1>4. UNCHANGED cursor \/ \E c : cursor' = [cursor EXCEPT ![w] = c]
    <2>1. CASE \E r \in DOMAIN Requests : Receive(w, r)
        BY <2>1 DEF Receive
    <2>2. CASE Parse(w) \/ Create(w) \/ Reply(w)
        BY <2>2 DEF Parse, Create, Reply
    <2>3. CASE PlanInsert(w) \/ NextRow(w) \/ InsertDone(w) \/ Commit(w)
        BY <2>3 DEF PlanInsert, Throw, NextRow, InsertDone, Commit
    <2>4. CASE CountSlot(w) \/ TakeSpace(w) \/ PlaceSlot(w) \/ FillData(w)
        BY <2>4 DEF CountSlot, TakeSpace, PlaceSlot, FillData, Refused
    <2>5. CASE PlanSelect(w)
        BY <2>5 DEF PlanSelect, Throw
    <2>6. CASE ScanSlot(w) \/ EndOfPage(w) \/ ScanRow(w) \/ LockRow(w)
        BY <2>6 DEF ScanSlot, EndOfPage, ScanRow, LockRow
    <2> QED
        BY <2>1, <2>2, <2>3, <2>4, <2>5, <2>6 DEF WorkerStep, Insert, Select
<1>5. pc' \in [Workers -> PCs] /\ \A v \in Workers \ {w} : pc'[v] = pc[v]
    BY <1>1, <1>2
<1>6. stmt' = [v \in Workers |-> stmt'[v]] /\ \A v \in Workers \ {w} : stmt'[v] = stmt[v]
    BY <1>1, <1>3
<1>7. cursor' = [v \in Workers |-> cursor'[v]] /\ \A v \in Workers \ {w} : cursor'[v] = cursor[v]
    BY <1>1, <1>4
<1> QED
    BY <1>5, <1>6, <1>7

\* What is sent or committed stays so.
LEMMA HistoryGrows ==
    ASSUME TypeInv, [Next]_vars
    PROVE  /\ IsList(committed')
           /\ Len(committed) \in Nat /\ Len(committed') \in Nat
           /\ Len(committed) <= Len(committed')
           /\ \A i \in DOMAIN committed : i \in DOMAIN committed' /\ committed'[i] = committed[i]
           /\ sent \subseteq sent'
           /\ sent' \subseteq DOMAIN Requests
<1>1. IsList(committed) /\ sent \subseteq DOMAIN Requests
    BY DEF TypeInv, SharedOK
<1>2. PICK T : committed \in Seq(T)
    BY <1>1 DEF IsList
<1>3. UNCHANGED committed \/ \E c : committed' = Append(committed, c)
    BY DEF Next, vars, Receive, Parse, Create, Reply, Insert, PlanInsert, Throw, NextRow, InsertDone,
           CountSlot, TakeSpace, PlaceSlot, FillData, Commit, Select, PlanSelect, ScanSlot,
           EndOfPage, ScanRow, LockRow
<1>4. UNCHANGED sent \/ \E r \in DOMAIN Requests : sent' = sent \cup {r}
    BY DEF Next, vars, Receive, Parse, Create, Reply, Insert, PlanInsert, Throw, NextRow, InsertDone,
           CountSlot, TakeSpace, PlaceSlot, FillData, Commit, Select, PlanSelect, ScanSlot,
           EndOfPage, ScanRow, LockRow
<1>5. CASE UNCHANGED committed
    BY <1>1, <1>2, <1>4, <1>5
<1>6. CASE \E c : committed' = Append(committed, c)
    <2>1. PICK c : committed' = Append(committed, c)
        BY <1>6
    <2>2. committed \in Seq(T \cup {c})
        BY <1>2
    <2>3. /\ committed' \in Seq(T \cup {c})
          /\ Len(committed') = Len(committed) + 1
          /\ \A i \in 1 .. Len(committed) : committed'[i] = committed[i]
        BY <2>1, <2>2
    <2>4. /\ DOMAIN committed = 1 .. Len(committed)
          /\ DOMAIN committed' = 1 .. Len(committed')
          /\ Len(committed) \in Nat
        BY <2>2, <2>3
    <2>5. IsList(committed')
        BY <2>3 DEF IsList
    <2>6. \A i \in DOMAIN committed : i \in DOMAIN committed' /\ committed'[i] = committed[i]
        BY <2>3, <2>4
    <2>7. Len(committed') \in Nat /\ Len(committed) <= Len(committed')
        BY <2>3, <2>4
    <2> QED
        BY <1>1, <1>4, <2>4, <2>5, <2>6, <2>7
<1> QED
    BY <1>3, <1>5, <1>6

\* A worker that does not move keeps its types.
LEMMA WorkerStays ==
    ASSUME TypeInv, [Next]_vars,
           NEW v \in Workers, pc'[v] = pc[v], stmt'[v] = stmt[v], cursor'[v] = cursor[v]
    PROVE  StmtOK(v)' /\ CursorOK(v)'
<1>1. StmtOK(v) /\ CursorOK(v)
    BY DEF TypeInv
<1>2. StmtOK(v)'
    BY <1>1, HistoryGrows DEF StmtOK
<1>3. PICK p : p = page[cursor[v].pid]
    OBVIOUS
<1>4. PICK q : q = page'[cursor[v].pid]
    OBVIOUS
<1>5. PageGrows(p, q) /\ p \in Pages /\ cursor[v].pid \in Pids
    BY <1>1, <1>3, <1>4, PagesStep DEF CursorOK, TypeInv, PagesOK
<1>6. /\ p.slot_count \in Nat /\ q.slot_count \in Nat /\ p.slot_count <= q.slot_count
      /\ p.is_initialized => q.is_initialized
    BY <1>5, HeapPageAssumption DEF PageGrows, Pages
<1>7. CursorOK(v)'
    BY <1>1, <1>3, <1>4, <1>6 DEF CursorOK
<1> QED
    BY <1>2, <1>7

\* The page a worker's cursor is on holds what the cursor needs, after the step too.
LEMMA CursorMoves ==
    ASSUME TypeInv, [Next]_vars, NEW w \in Workers,
           IsCursor(cursor'[w]),
           cursor'[w].pid \in Pids,
           cursor'[w].slot \in Slots,
           cursor'[w].row_no \in Nat,
           cursor'[w].slot_no \in 0 .. page[cursor'[w].pid].slot_count,
           pc'[w] \notin {"scan", "read", "lock", "reply"} => cursor'[w].slot_no = 0,
           pc'[w] = "read" => cursor'[w].slot_no < page[cursor'[w].pid].slot_count,
           pc'[w] \in RowPCs => cursor'[w].row_no < Len(stmt'[w].ast.values),
           pc'[w] \in OnPagePCs =>
               page'[cursor'[w].pid].is_initialized /\ page'[cursor'[w].pid].slot_count # 0
    PROVE  CursorOK(w)'
<1>1. PICK p : p = page[cursor'[w].pid]
    OBVIOUS
<1>2. PICK q : q = page'[cursor'[w].pid]
    OBVIOUS
<1>3. PageGrows(p, q) /\ p \in Pages
    BY <1>1, <1>2, PagesStep DEF TypeInv, PagesOK
<1>4. p.slot_count \in Nat /\ q.slot_count \in Nat /\ p.slot_count <= q.slot_count
    BY <1>3, HeapPageAssumption DEF PageGrows, Pages
<1> QED
    BY <1>1, <1>2, <1>4 DEF CursorOK

\* A statement that does not change keeps its types.
LEMMA StatementKept ==
    ASSUME TypeInv, [Next]_vars, NEW w \in Workers,
           stmt'[w] = stmt[w], pc[w] # "idle",
           pc'[w] \in InsertPCs => pc[w] \in InsertPCs
    PROVE  StmtOK(w)'
<1>1. StmtOK(w)
    BY DEF TypeInv
<1> QED
    BY <1>1, HistoryGrows DEF StmtOK

\* Where a step leads.
LEMMA WentTo ==
    ASSUME TypeInv, NEW w \in Workers
    PROVE  /\ \A label : Goto(w, label) => pc'[w] = label
           /\ \A s : stmt' = [stmt EXCEPT ![w] = s] => stmt'[w] = s
           /\ \A c : cursor' = [cursor EXCEPT ![w] = c] => cursor'[w] = c
<1>1. pc \in [Workers -> PCs]
    BY DEF TypeInv, SharedOK
<1>2. stmt = [v \in Workers |-> stmt[v]]
    BY DEF TypeInv, SharedOK
<1>3. cursor = [v \in Workers |-> cursor[v]]
    BY DEF TypeInv, SharedOK
<1>4. \A label : Goto(w, label) => pc'[w] = label
    BY <1>1 DEF Goto
<1>5. \A s : stmt' = [stmt EXCEPT ![w] = s] => stmt'[w] = s
    BY <1>2
<1>6. \A c : cursor' = [cursor EXCEPT ![w] = c] => cursor'[w] = c
    BY <1>3
<1> QED
    BY <1>4, <1>5, <1>6

\* PlanSelect sets two fields of the statement, ScanRow two of the cursor.
LEMMA Planned ==
    ASSUME TypeInv, NEW w \in Workers, NEW t, NEW o,
           stmt' = [stmt EXCEPT ![w].table = t, ![w].op = o]
    PROVE  /\ IsStmt(stmt'[w]) /\ stmt'[w].complete = stmt[w].complete
           /\ stmt'[w].began = stmt[w].began /\ stmt'[w].request = stmt[w].request
           /\ stmt'[w].ast = stmt[w].ast
<1>1. stmt = [v \in Workers |-> stmt[v]] /\ IsStmt(stmt[w])
    BY DEF TypeInv, SharedOK, StmtOK
<1>2. PICK s : s = [stmt EXCEPT ![w].table = t]
    OBVIOUS
<1>3. stmt' = [s EXCEPT ![w].op = o]
    BY <1>2
<1>4. s[w] = [stmt[w] EXCEPT !.table = t] /\ s = [v \in Workers |-> s[v]]
    BY <1>1, <1>2
<1>5. stmt'[w] = [s[w] EXCEPT !.op = o]
    BY <1>3, <1>4
<1>6. s[w] = [request |-> stmt[w].request, ast |-> stmt[w].ast, table |-> t, op |-> stmt[w].op,
              complete |-> stmt[w].complete, began |-> stmt[w].began]
    BY <1>1, <1>4 DEF IsStmt
<1>7. stmt'[w] = [request |-> stmt[w].request, ast |-> stmt[w].ast, table |-> t, op |-> o,
                  complete |-> stmt[w].complete, began |-> stmt[w].began]
    BY <1>5, <1>6
<1> QED
    BY ONLY <1>7 DEF IsStmt

LEMMA RowScanned ==
    ASSUME TypeInv, NEW w \in Workers, NEW r,
           cursor' = [cursor EXCEPT ![w].slot_no = @ + 1, ![w].row = r]
    PROVE  /\ IsCursor(cursor'[w]) /\ cursor'[w].pid = cursor[w].pid
           /\ cursor'[w].slot_no = cursor[w].slot_no + 1
           /\ cursor'[w].row_no = cursor[w].row_no /\ cursor'[w].slot = cursor[w].slot
<1>1. cursor = [v \in Workers |-> cursor[v]] /\ IsCursor(cursor[w])
    BY DEF TypeInv, SharedOK, CursorOK
<1>2. PICK n : n = cursor[w].slot_no + 1
    OBVIOUS
<1>3. PICK c : c = [cursor EXCEPT ![w].slot_no = n]
    OBVIOUS
<1>4. cursor' = [c EXCEPT ![w].row = r]
    BY <1>2, <1>3
<1>5. c[w] = [cursor[w] EXCEPT !.slot_no = n] /\ c = [v \in Workers |-> c[v]]
    BY <1>1, <1>3
<1>6. cursor'[w] = [c[w] EXCEPT !.row = r]
    BY <1>4, <1>5
<1>7. c[w] = [pid |-> cursor[w].pid, slot_no |-> n, row_no |-> cursor[w].row_no,
              slot |-> cursor[w].slot, row |-> cursor[w].row]
    BY <1>1, <1>5 DEF IsCursor
<1>8. cursor'[w] = [pid |-> cursor[w].pid, slot_no |-> n, row_no |-> cursor[w].row_no,
                    slot |-> cursor[w].slot, row |-> r]
    BY <1>6, <1>7
<1> QED
    BY ONLY <1>2, <1>8 DEF IsCursor

LEMMA ZeroesAreTyped ==
    /\ IsStmt(NoStatement) /\ NoStatement.complete = FALSE /\ NoStatement.began = 0
    /\ NoStatement.ast.kind # "table" /\ NoStatement.ast.kind # "insert"
    /\ IsCursor(NoCursor) /\ NoCursor.pid \in Pids /\ NoCursor.slot \in Slots
    /\ NoCursor.row_no = 0 /\ NoCursor.slot_no = 0
<1>1. ZeroSlot \in Slots
    BY HeapPageAssumption DEF ZeroSlot, Slots
<1>2. 0 \in Pids
    BY StatementsAssumption DEF Pids
<1>3. IsStmt(NoStatement) /\ NoStatement.complete = FALSE /\ NoStatement.began = 0
    BY DEF NoStatement, IsStmt
<1>4. NoStatement.ast.kind # "table" /\ NoStatement.ast.kind # "insert"
    BY DEF NoStatement, Rejected
<1>5. IsCursor(NoCursor) /\ NoCursor.pid = 0 /\ NoCursor.slot = ZeroSlot
      /\ NoCursor.row_no = 0 /\ NoCursor.slot_no = 0
    BY DEF NoCursor, IsCursor
<1> QED
    BY <1>1, <1>2, <1>3, <1>4, <1>5

\* Any statement: Receive, Parse, Create, Reply.
LEMMA StatementTypes ==
    ASSUME TypeInv, [Next]_vars, NEW w \in Workers,
           \/ \E r \in DOMAIN Requests : Receive(w, r)
           \/ Parse(w) \/ Create(w) \/ Reply(w)
    PROVE  StmtOK(w)' /\ CursorOK(w)'
<1>1. StmtOK(w) /\ CursorOK(w)
    BY DEF TypeInv
<1>2. UNCHANGED cursor => /\ IsCursor(cursor'[w]) /\ cursor'[w].pid \in Pids /\ cursor'[w].slot \in Slots
                          /\ cursor'[w].row_no \in Nat
                          /\ cursor'[w].slot_no \in 0 .. page[cursor'[w].pid].slot_count
    BY <1>1 DEF CursorOK
<1>3. CASE \E r \in DOMAIN Requests : Receive(w, r)
    <2>1. PICK r \in DOMAIN Requests : Receive(w, r)
        BY <1>3
    <2>2. PICK n : n = Len(committed)
        OBVIOUS
    <2>3. stmt'[w] = [NoStatement EXCEPT !.request = r, !.began = n]
        BY <2>1, <2>2, WentTo DEF Receive
    <2>4. stmt'[w] = [request |-> r, ast |-> Rejected, table |-> NoPlan, op |-> "none",
                      complete |-> FALSE, began |-> n]
        BY <2>3 DEF NoStatement
    <2>5. /\ IsStmt(stmt'[w]) /\ stmt'[w].complete = FALSE /\ stmt'[w].began = n
          /\ stmt'[w].request = r /\ stmt'[w].ast.kind # "table" /\ stmt'[w].ast.kind # "insert"
        BY <2>4 DEF IsStmt, Rejected
    <2>6. n \in 0 .. Len(committed')
        BY <2>2, HistoryGrows
    <2>7. r \in sent' /\ pc'[w] = "parse" /\ UNCHANGED cursor
        BY <2>1, WentTo DEF Receive
    <2>8. StmtOK(w)'
        BY <2>5, <2>6, <2>7 DEF StmtOK, InsertPCs
    <2>9. cursor'[w].slot_no = 0
        BY <1>1, <2>1, <2>7 DEF CursorOK, Receive
    <2>10. CursorOK(w)'
        BY <1>2, <2>7, <2>9, CursorMoves DEF RowPCs, OnPagePCs
    <2> QED
        BY <2>8, <2>10
<1>4. CASE Parse(w)
    <2>1. PICK ast : ast = grammer_check(lexer(Request(w).input), catalog, Request(w).schema_name)
        OBVIOUS
    <2>2. stmt' = [stmt EXCEPT ![w].ast = ast]
        BY <1>4, <2>1 DEF Parse
    <2>3. stmt = [v \in Workers |-> stmt[v]] /\ IsStmt(stmt[w])
        BY <1>1 DEF TypeInv, SharedOK, StmtOK
    <2>4. stmt'[w] = [stmt[w] EXCEPT !.ast = ast]
        BY <2>2, <2>3
    <2>5. /\ IsStmt(stmt'[w]) /\ stmt'[w].complete = stmt[w].complete /\ stmt'[w].began = stmt[w].began
          /\ stmt'[w].request = stmt[w].request /\ stmt'[w].ast = ast
        BY <2>3, <2>4 DEF IsStmt
    <2>6. ast.kind = "table" => IsTable(ast)
        BY <2>1, ParsedTable
    <2>7. ast.kind = "insert" => AreRows(ast.values)
        <3>1. stmt[w].request \in DOMAIN Requests
            BY <1>1, <1>4 DEF StmtOK, TypeInv, SharedOK, Parse
        <3>2. Request(w).input \in Seq(Pieces)
            BY <3>1, StatementsAssumption DEF Request, Pieces
        <3>3. HasTables(catalog)
            BY DEF TypeInv, CatalogInv, TablesOK, HasTables
        <3> QED
            BY <2>1, <3>2, <3>3, ParsedRows
    <2>8. pc[w] = "parse" /\ pc'[w] \in {"reply", "execute"} /\ UNCHANGED cursor
        BY <1>4, WentTo DEF Parse
    <2>9. StmtOK(w)'
        BY <1>1, <2>5, <2>6, <2>7, <2>8, HistoryGrows DEF StmtOK, InsertPCs
    <2>10. cursor'[w].slot_no = 0
        BY <1>1, <2>8 DEF CursorOK
    <2>11. CursorOK(w)'
        BY <1>2, <2>8, <2>10, CursorMoves DEF RowPCs, OnPagePCs
    <2> QED
        BY <2>9, <2>11
<1>5. CASE Create(w)
    <2>1. pc[w] = "execute" /\ pc'[w] = "reply" /\ UNCHANGED <<stmt, cursor>>
        BY <1>5, WentTo DEF Create
    <2>2. StmtOK(w)'
        BY <2>1, StatementKept DEF InsertPCs
    <2>3. CursorOK(w)'
        BY <1>2, <2>1, CursorMoves DEF RowPCs, OnPagePCs
    <2> QED
        BY <2>2, <2>3
<1>6. CASE Reply(w)
    <2>1. pc'[w] = "idle" /\ stmt'[w] = NoStatement /\ cursor'[w] = NoCursor
        BY <1>6, WentTo DEF Reply
    <2>2. StmtOK(w)'
        <3>1. /\ IsStmt(stmt'[w]) /\ stmt'[w].complete = FALSE /\ stmt'[w].began = 0
              /\ stmt'[w].ast.kind # "table" /\ stmt'[w].ast.kind # "insert"
            BY <2>1, ZeroesAreTyped
        <3>2. 0 \in 0 .. Len(committed')
            BY HistoryGrows
        <3> QED
            BY <2>1, <3>1, <3>2 DEF StmtOK, InsertPCs
    <2>3. 0 \in 0 .. page[NoCursor.pid].slot_count
        BY ZeroesAreTyped, HeapPageAssumption DEF TypeInv, PagesOK, Pages
    <2>4. CursorOK(w)'
        BY <2>1, <2>3, ZeroesAreTyped, CursorMoves DEF RowPCs, OnPagePCs
    <2> QED
        BY <2>2, <2>4
<1> QED
    BY <1>3, <1>4, <1>5, <1>6

\* INSERT up to its rows: PlanInsert, NextRow, InsertDone, Commit.
LEMMA InsertTypes ==
    ASSUME TypeInv, [Next]_vars, NEW w \in Workers,
           PlanInsert(w) \/ NextRow(w) \/ InsertDone(w) \/ Commit(w)
    PROVE  StmtOK(w)' /\ CursorOK(w)'
<1>1. StmtOK(w) /\ CursorOK(w)
    BY DEF TypeInv
<1>2. UNCHANGED cursor => /\ IsCursor(cursor'[w]) /\ cursor'[w].pid \in Pids /\ cursor'[w].slot \in Slots
                          /\ cursor'[w].row_no \in Nat
                          /\ cursor'[w].slot_no \in 0 .. page[cursor'[w].pid].slot_count
    BY <1>1 DEF CursorOK
<1>3. /\ stmt = [v \in Workers |-> stmt[v]] /\ IsStmt(stmt[w])
      /\ cursor = [v \in Workers |-> cursor[v]] /\ IsCursor(cursor[w])
    BY <1>1 DEF TypeInv, SharedOK, StmtOK, CursorOK
<1>4. CASE PlanInsert(w)
    <2>1. pc[w] = "execute" /\ stmt[w].ast.kind = "insert"
        BY <1>4 DEF PlanInsert
    <2>2. CASE Throw(w)
        <3>1. pc'[w] = "reply" /\ UNCHANGED <<stmt, cursor>>
            BY <2>2, WentTo DEF Throw
        <3>2. StmtOK(w)'
            BY <2>1, <3>1, StatementKept DEF InsertPCs
        <3>3. CursorOK(w)'
            BY <1>2, <3>1, CursorMoves DEF RowPCs, OnPagePCs
        <3> QED
            BY <3>2, <3>3
    <2>3. CASE TableFor(w) # NotFound /\ stmt' = [stmt EXCEPT ![w].table = TableFor(w)[1]]
               /\ Goto(w, "last_pid") /\ UNCHANGED cursor
        <3>1. PICK table : table = TableFor(w)[1]
            OBVIOUS
        <3>2. IsTable(table)
            BY <2>3, <3>1, FoundTable DEF TableFor, TypeInv, CatalogInv, TablesOK
        <3>3. stmt'[w] = [stmt[w] EXCEPT !.table = table]
            BY <1>3, <2>3, <3>1
        <3>4. /\ IsStmt(stmt'[w]) /\ stmt'[w].complete = stmt[w].complete
              /\ stmt'[w].began = stmt[w].began /\ stmt'[w].request = stmt[w].request
              /\ stmt'[w].ast = stmt[w].ast /\ stmt'[w].table = table
            BY <1>3, <3>3 DEF IsStmt
        <3>5. pc'[w] = "last_pid" /\ UNCHANGED cursor
            BY <2>3, WentTo
        <3>6. StmtOK(w)'
            BY <1>1, <2>1, <3>2, <3>4, <3>5, HistoryGrows DEF StmtOK
        <3>7. cursor'[w].slot_no = 0
            BY <1>1, <2>1, <3>5 DEF CursorOK
        <3>8. CursorOK(w)'
            BY <1>2, <3>5, <3>7, CursorMoves DEF RowPCs, OnPagePCs
        <3> QED
            BY <3>6, <3>8
    <2> QED
        BY <1>4, <2>2, <2>3 DEF PlanInsert
<1>5. CASE NextRow(w)
    <2>1. PICK pid \in Pids : pid = get_last_pid
        BY <1>5 DEF NextRow
    <2>2. /\ pc[w] = "last_pid" /\ pc'[w] = "count" /\ UNCHANGED stmt
          /\ cursor[w].row_no < Len(stmt[w].ast.values)
          /\ cursor' = [cursor EXCEPT ![w].pid = pid]
        BY <1>5, <2>1, WentTo DEF NextRow
    <2>3. cursor'[w] = [cursor[w] EXCEPT !.pid = pid]
        BY <1>3, <2>2
    <2>4. /\ IsCursor(cursor'[w]) /\ cursor'[w].pid = pid /\ cursor'[w].slot_no = cursor[w].slot_no
          /\ cursor'[w].row_no = cursor[w].row_no /\ cursor'[w].slot = cursor[w].slot
        BY <1>3, <2>3 DEF IsCursor
    <2>5. StmtOK(w)'
        BY <2>2, StatementKept DEF InsertPCs
    <2>6. cursor[w].slot_no = 0 /\ cursor[w].slot \in Slots /\ cursor[w].row_no \in Nat
        BY <1>1, <2>2 DEF CursorOK
    <2>7. 0 \in 0 .. page[pid].slot_count
        BY HeapPageAssumption DEF TypeInv, PagesOK, Pages
    <2>8. CursorOK(w)'
        BY <2>2, <2>4, <2>6, <2>7, CursorMoves DEF OnPagePCs
    <2> QED
        BY <2>5, <2>8
<1>6. CASE InsertDone(w)
    <2>1. PICK b : b = (stmt[w].ast.values # << >>)
        OBVIOUS
    <2>2. pc[w] = "last_pid" /\ pc'[w] = "reply" /\ UNCHANGED cursor
        BY <1>6, WentTo DEF InsertDone
    <2>3. stmt' = [stmt EXCEPT ![w].complete = b]
        BY <1>6, <2>1, Zenon DEF InsertDone
    <2>4. stmt'[w] = [stmt[w] EXCEPT !.complete = b]
        BY <1>3, <2>3
    <2>5. /\ IsStmt(stmt'[w]) /\ stmt'[w].complete = b
          /\ stmt'[w].began = stmt[w].began /\ stmt'[w].request = stmt[w].request
          /\ stmt'[w].ast = stmt[w].ast
        BY <1>3, <2>4 DEF IsStmt
    <2>6. b \in BOOLEAN
        BY <2>1, Zenon
    <2>7. StmtOK(w)'
        <3>1. stmt'[w].complete \in BOOLEAN
            BY <2>5, <2>6, Zenon
        <3>2. /\ IsStmt(stmt'[w]) /\ stmt'[w].began = stmt[w].began /\ stmt'[w].request = stmt[w].request
              /\ stmt'[w].ast = stmt[w].ast
            BY <2>5
        <3> QED
            BY <1>1, <2>2, <3>1, <3>2, HistoryGrows DEF StmtOK, InsertPCs
    <2>8. CursorOK(w)'
        BY <1>2, <2>2, CursorMoves DEF RowPCs, OnPagePCs
    <2> QED
        BY <2>7, <2>8
<1>7. CASE Commit(w)
    <2>1. pc[w] = "commit" /\ UNCHANGED stmt
        BY <1>7 DEF Commit
    <2>2. CASE pc'[w] = "reply" /\ UNCHANGED cursor
        <3>1. StmtOK(w)'
            BY <2>1, <2>2, StatementKept DEF InsertPCs
        <3>2. CursorOK(w)'
            BY <1>2, <2>2, CursorMoves DEF RowPCs, OnPagePCs
        <3> QED
            BY <3>1, <3>2
    <2>3. CASE pc'[w] = "last_pid" /\ cursor' = [cursor EXCEPT ![w].row_no = @ + 1]
        <3>1. cursor'[w] = [cursor[w] EXCEPT !.row_no = @ + 1]
            BY <1>3, <2>3
        <3>2. /\ IsCursor(cursor'[w]) /\ cursor'[w].pid = cursor[w].pid
              /\ cursor'[w].slot_no = cursor[w].slot_no
              /\ cursor'[w].row_no = cursor[w].row_no + 1 /\ cursor'[w].slot = cursor[w].slot
            BY <1>3, <3>1 DEF IsCursor
        <3>3. /\ cursor[w].slot_no = 0 /\ cursor[w].slot \in Slots /\ cursor[w].row_no \in Nat
              /\ cursor[w].pid \in Pids /\ cursor[w].slot_no \in 0 .. page[cursor[w].pid].slot_count
            BY <1>1, <2>1 DEF CursorOK
        <3>4. CursorOK(w)'
            BY <2>3, <3>2, <3>3, CursorMoves DEF RowPCs, OnPagePCs
        <3>5. StmtOK(w)'
            BY <2>1, <2>3, StatementKept DEF InsertPCs
        <3> QED
            BY <3>4, <3>5
    <2> QED
        BY <1>7, <2>2, <2>3, WentTo DEF Commit
<1> QED
    BY <1>4, <1>5, <1>6, <1>7

\* INSERT on the page: CountSlot, TakeSpace, PlaceSlot, FillData.
LEMMA OnPageTypes ==
    ASSUME TypeInv, [Next]_vars, NEW w \in Workers,
           CountSlot(w) \/ TakeSpace(w) \/ PlaceSlot(w) \/ FillData(w)
    PROVE  StmtOK(w)' /\ CursorOK(w)'
<1>1. StmtOK(w) /\ CursorOK(w)
    BY DEF TypeInv
<1>2. /\ cursor = [v \in Workers |-> cursor[v]] /\ IsCursor(cursor[w]) /\ cursor[w].pid \in Pids
      /\ page \in [Pids -> Pages]
    BY <1>1 DEF TypeInv, SharedOK, PagesOK, CursorOK
<1>3. pc[w] \in RowPCs /\ UNCHANGED stmt
    BY DEF CountSlot, TakeSpace, PlaceSlot, FillData, Refused, RowPCs
<1>4. /\ cursor[w].slot_no = 0 /\ cursor[w].slot \in Slots /\ cursor[w].row_no \in Nat
      /\ cursor[w].slot_no \in 0 .. page[cursor[w].pid].slot_count
      /\ cursor[w].row_no < Len(stmt[w].ast.values)
    BY <1>1, <1>3 DEF CursorOK, RowPCs
<1>5. StmtOK(w)'
    BY <1>3, StatementKept DEF InsertPCs, RowPCs
<1>6. CASE pc'[w] = "reply" /\ UNCHANGED cursor
    BY <1>2, <1>4, <1>5, <1>6, CursorMoves DEF RowPCs, OnPagePCs
<1>7. ASSUME NEW q, PageBecomes(w, q), q.is_initialized, q.slot_count # 0, UNCHANGED cursor,
             pc'[w] \in OnPagePCs
      PROVE  CursorOK(w)'
    <2>1. page'[cursor[w].pid] = q
        BY <1>2, <1>7 DEF PageBecomes
    <2> QED
        BY <1>2, <1>3, <1>4, <1>7, <2>1, CursorMoves DEF OnPagePCs
<1>8. CASE CountSlot(w)
    <2>1. CASE SlotsFull(page[cursor[w].pid])
        BY <1>6, <1>8, <2>1, WentTo DEF CountSlot, Refused
    <2>2. CASE ~SlotsFull(page[cursor[w].pid])
        <3>1. pc'[w] = "take" /\ UNCHANGED cursor
            BY <1>8, <2>2, WentTo DEF CountSlot
        <3> QED
            BY <1>5, <1>7, <1>8, <2>2, <3>1, CountSlotPage DEF OnPagePCs
    <2> QED
        BY <2>1, <2>2
<1>9. CASE TakeSpace(w)
    <2>1. CASE ~Fits(page[cursor[w].pid], RowSizeOf(w))
        BY <1>6, <1>9, <2>1, WentTo DEF TakeSpace, Refused
    <2>2. CASE Fits(page[cursor[w].pid], RowSizeOf(w))
        <3>1. pc'[w] = "place" /\ UNCHANGED cursor
            BY <1>9, <2>2, WentTo DEF TakeSpace
        <3> QED
            BY <1>5, <1>7, <1>9, <2>2, <3>1, TakeSpacePage DEF OnPagePCs
    <2> QED
        BY <2>1, <2>2
<1>10. CASE PlaceSlot(w)
    <2>1. pc'[w] = "fill" /\ UNCHANGED cursor
        BY <1>10, WentTo DEF PlaceSlot
    <2> QED
        BY <1>5, <1>7, <1>10, <2>1, PlaceSlotPage DEF OnPagePCs
<1>11. CASE FillData(w)
    <2>1. PICK s : s = CurrentSlot(page[cursor[w].pid])
        OBVIOUS
    <2>2. pc'[w] = "commit" /\ cursor' = [cursor EXCEPT ![w].slot = s]
        BY <1>11, <2>1, WentTo DEF FillData
    <2>3. page[cursor[w].pid].slot_count # 0
        BY <1>11, FillDataPage
    <2>4. s \in Slots
        BY <1>2, <2>1, <2>3, CurrentSlotType
    <2>5. cursor'[w] = [cursor[w] EXCEPT !.slot = s]
        BY <1>2, <2>2
    <2>6. /\ IsCursor(cursor'[w]) /\ cursor'[w].pid = cursor[w].pid
          /\ cursor'[w].slot_no = cursor[w].slot_no
          /\ cursor'[w].row_no = cursor[w].row_no /\ cursor'[w].slot = s
        BY <1>2, <2>5 DEF IsCursor
    <2>7. PICK q : PageBecomes(w, q) /\ q.is_initialized /\ q.slot_count # 0
        BY <1>11, FillDataPage
    <2>8. page'[cursor[w].pid] = q
        BY <1>2, <2>7 DEF PageBecomes
    <2>9. CursorOK(w)'
        BY <1>2, <1>3, <1>4, <2>2, <2>4, <2>6, <2>7, <2>8, CursorMoves
    <2> QED
        BY <1>5, <2>9
<1> QED
    BY <1>8, <1>9, <1>10, <1>11

\* SELECT: PlanSelect, ScanSlot, EndOfPage, ScanRow, LockRow.
LEMMA SelectTypes ==
    ASSUME TypeInv, [Next]_vars, NEW w \in Workers, Select(w)
    PROVE  StmtOK(w)' /\ CursorOK(w)'
<1>1. StmtOK(w) /\ CursorOK(w)
    BY DEF TypeInv
<1>2. UNCHANGED cursor => /\ IsCursor(cursor'[w]) /\ cursor'[w].pid \in Pids /\ cursor'[w].slot \in Slots
                          /\ cursor'[w].row_no \in Nat
                          /\ cursor'[w].slot_no \in 0 .. page[cursor'[w].pid].slot_count
    BY <1>1 DEF CursorOK
<1>3. /\ stmt = [v \in Workers |-> stmt[v]] /\ IsStmt(stmt[w])
      /\ cursor = [v \in Workers |-> cursor[v]] /\ IsCursor(cursor[w])
      /\ cursor[w].pid \in Pids
    BY <1>1 DEF TypeInv, SharedOK, StmtOK, CursorOK
<1>4. PICK p : p = page[cursor[w].pid]
    OBVIOUS
<1>5. p \in Pages /\ p.slot_count \in 0 .. MaxSlots
    BY <1>3, <1>4 DEF TypeInv, PagesOK, Pages
<1>6. CASE PlanSelect(w)
    <2>1. pc[w] = "execute" /\ UNCHANGED cursor
        BY <1>6 DEF PlanSelect, Throw
    <2>2. CASE Throw(w)
        <3>1. pc'[w] = "reply" /\ UNCHANGED stmt
            BY <2>2, WentTo DEF Throw
        <3>2. StmtOK(w)'
            BY <2>1, <3>1, StatementKept DEF InsertPCs
        <3> QED
            BY <1>2, <2>1, <3>1, <3>2, CursorMoves DEF RowPCs, OnPagePCs
    <2>3. CASE Goto(w, "scan") /\ \E t, o : stmt' = [stmt EXCEPT ![w].table = t, ![w].op = o]
        <3>1. PICK t, o : stmt' = [stmt EXCEPT ![w].table = t, ![w].op = o]
            BY <2>3
        <3>2. /\ IsStmt(stmt'[w]) /\ stmt'[w].complete = stmt[w].complete
              /\ stmt'[w].began = stmt[w].began /\ stmt'[w].request = stmt[w].request
              /\ stmt'[w].ast = stmt[w].ast
            BY <3>1, Planned
        <3>3. pc'[w] = "scan"
            BY <2>3, WentTo
        <3>4. StmtOK(w)'
            <4>1. stmt'[w].complete \in BOOLEAN
                BY <1>1, <3>2, Zenon DEF StmtOK
            <4> QED
                BY <1>1, <2>1, <3>2, <3>3, <4>1, HistoryGrows DEF StmtOK, InsertPCs
        <3> QED
            BY <1>2, <2>1, <3>3, <3>4, CursorMoves DEF RowPCs, OnPagePCs
    <2> QED
        BY <1>6, <2>2, <2>3 DEF PlanSelect
<1>7. CASE ScanSlot(w)
    <2>1. PICK s : s = p.slots[cursor[w].slot_no + 1]
        OBVIOUS
    <2>2. /\ pc[w] = "scan" /\ pc'[w] = "read" /\ UNCHANGED stmt
          /\ cursor[w].slot_no < p.slot_count
          /\ cursor' = [cursor EXCEPT ![w].slot = s]
        BY <1>4, <1>7, <2>1, WentTo DEF ScanSlot
    <2>3. cursor[w].slot_no \in 0 .. p.slot_count /\ cursor[w].row_no \in Nat
        BY <1>1, <1>4 DEF CursorOK
    <2>4. cursor[w].slot_no + 1 \in 1 .. MaxSlots
        BY <1>5, <2>2, <2>3, HeapPageAssumption
    <2>5. s \in Slots
        BY <1>5, <2>1, <2>4 DEF Pages
    <2>6. cursor'[w] = [cursor[w] EXCEPT !.slot = s]
        BY <1>3, <2>2
    <2>7. /\ IsCursor(cursor'[w]) /\ cursor'[w].pid = cursor[w].pid
          /\ cursor'[w].slot_no = cursor[w].slot_no
          /\ cursor'[w].row_no = cursor[w].row_no /\ cursor'[w].slot = s
        BY <1>3, <2>6 DEF IsCursor
    <2>8. StmtOK(w)'
        BY <2>2, StatementKept DEF InsertPCs
    <2> QED
        BY <1>3, <1>4, <2>2, <2>3, <2>5, <2>7, <2>8, CursorMoves DEF RowPCs, OnPagePCs
<1>8. CASE EndOfPage(w)
    <2>1. pc[w] = "scan" /\ pc'[w] = "reply" /\ UNCHANGED <<stmt, cursor>>
        BY <1>8, WentTo DEF EndOfPage
    <2>2. StmtOK(w)'
        BY <2>1, StatementKept DEF InsertPCs
    <2> QED
        BY <1>2, <2>1, <2>2, CursorMoves DEF RowPCs, OnPagePCs
<1>9. CASE ScanRow(w)
    <2>1. PICK r : r = ReadRow(p, cursor[w].slot, ColumnTypesOf(stmt[w].table))
        OBVIOUS
    <2>2. /\ pc[w] = "read" /\ pc'[w] = "lock" /\ UNCHANGED stmt
          /\ cursor' = [cursor EXCEPT ![w].slot_no = @ + 1, ![w].row = r]
        BY <1>4, <1>9, <2>1, WentTo DEF ScanRow
    <2>3. /\ cursor[w].slot_no \in 0 .. p.slot_count /\ cursor[w].row_no \in Nat /\ cursor[w].slot \in Slots
          /\ cursor[w].slot_no < p.slot_count
        BY <1>1, <1>4, <2>2 DEF CursorOK
    <2>4. /\ IsCursor(cursor'[w]) /\ cursor'[w].pid = cursor[w].pid
          /\ cursor'[w].slot_no = cursor[w].slot_no + 1
          /\ cursor'[w].row_no = cursor[w].row_no /\ cursor'[w].slot = cursor[w].slot
        BY <2>2, RowScanned
    <2>5. cursor[w].slot_no + 1 \in 0 .. p.slot_count
        BY <1>5, <2>3, HeapPageAssumption
    <2>6. StmtOK(w)'
        BY <2>2, StatementKept DEF InsertPCs
    <2> QED
        BY <1>3, <1>4, <2>2, <2>3, <2>4, <2>5, <2>6, CursorMoves DEF RowPCs, OnPagePCs
<1>10. CASE LockRow(w)
    <2>1. pc[w] = "lock" /\ pc'[w] = "scan" /\ UNCHANGED <<stmt, cursor>>
        BY <1>10, WentTo DEF LockRow
    <2>2. StmtOK(w)'
        BY <2>1, StatementKept DEF InsertPCs
    <2> QED
        BY <1>2, <2>1, <2>2, CursorMoves DEF RowPCs, OnPagePCs
<1> QED
    BY <1>6, <1>7, <1>8, <1>9, <1>10 DEF Select

\* What the workers share.
LEMMA SharedStep ==
    ASSUME TypeInv, [Next]_vars
    PROVE  SharedOK'
<1>1. SharedOK
    BY DEF TypeInv
<1>2. sent' \subseteq DOMAIN Requests /\ IsList(committed')
    BY HistoryGrows
<1>3. CASE UNCHANGED vars
    BY <1>1, <1>3 DEF vars, session, SharedOK
<1>4. CASE Next
    <2>1. PICK w \in Workers : WorkerStep(w)
        BY <1>4 DEF Next, WorkerStep
    <2>2. /\ pc' \in [Workers -> PCs]
          /\ stmt' = [v \in Workers |-> stmt'[v]]
          /\ cursor' = [v \in Workers |-> cursor'[v]]
        BY <1>1, <2>1, OthersStay
    <2>3. Rid(w) \in Rids
        BY DEF TypeInv, CursorOK, Rid, Rids, Slots
    <2>4. owner' \in [Rids -> Workers \cup {NoWorker}]
        <3>1. UNCHANGED owner \/ Locks!UnlockAll(w) \/ Locks!Lock(w, Rid(w))
            BY <2>1 DEF WorkerStep, Receive, Parse, Create, Reply, Insert, PlanInsert, Throw, NextRow,
                        InsertDone, CountSlot, TakeSpace, PlaceSlot, FillData, Commit, Select, PlanSelect,
                        ScanSlot, EndOfPage, ScanRow, LockRow, ReleaseLocks
        <3> QED
            BY <1>1, <2>3, <3>1 DEF Locks!UnlockAll, Locks!Lock, SharedOK
    <2>5. file_pages' \in 0 .. MaxPid + 1
        <3>1. UNCHANGED file_pages \/ file_pages' = Max({file_pages, cursor[w].pid + 1})
            BY <2>1 DEF WorkerStep, Receive, Parse, Create, Reply, Insert, PlanInsert, Throw, NextRow,
                        InsertDone, CountSlot, TakeSpace, PlaceSlot, FillData, Commit, Select, PlanSelect,
                        ScanSlot, EndOfPage, ScanRow, LockRow
        <3>2. PICK n : n = cursor[w].pid + 1
            OBVIOUS
        <3>3. n \in 0 .. MaxPid + 1 /\ file_pages \in 0 .. MaxPid + 1
            BY <1>1, <3>2, StatementsAssumption DEF TypeInv, CursorOK, Pids, SharedOK
        <3>4. \E m \in {file_pages, n} : \A k \in {file_pages, n} : k <= m
            BY <3>3, StatementsAssumption
        <3>5. Max({file_pages, n}) \in {file_pages, n}
            BY <3>4 DEF Max
        <3> QED
            BY <3>1, <3>2, <3>3, <3>5
    <2> QED
        BY <1>2, <2>2, <2>4, <2>5 DEF SharedOK
<1> QED
    BY <1>3, <1>4

LEMMA TypeInit ==
    ASSUME Init
    PROVE  TypeInv
<1>1. CatalogInv /\ TablesOK
    BY DEF Init, CatalogInv, IsCatalog, TablesOK
<1>2. PagesOK
    BY ZeroPageIsPage DEF Init, PagesOK, ZeroPage
<1>3. SharedOK
    <2>1. 0 \in 0 .. MaxPid + 1
        BY StatementsAssumption
    <2>2. IsList(committed)
        BY DEF Init, IsList
    <2> QED
        BY <2>1, <2>2 DEF Init, SharedOK, Locks!Init, PCs
<1>4. ASSUME NEW w \in Workers
      PROVE  StmtOK(w) /\ CursorOK(w)
    <2>1. pc[w] = "idle" /\ stmt[w] = NoStatement /\ cursor[w] = NoCursor /\ committed = << >>
        BY DEF Init
    <2>2. StmtOK(w)
        <3>1. /\ IsStmt(stmt[w]) /\ stmt[w].complete = FALSE /\ stmt[w].began = 0
              /\ stmt[w].ast.kind # "table" /\ stmt[w].ast.kind # "insert"
            BY <2>1, ZeroesAreTyped
        <3>2. 0 \in 0 .. Len(committed)
            BY <2>1
        <3> QED
            BY <2>1, <3>1, <3>2 DEF StmtOK, InsertPCs
    <2>3. 0 \in 0 .. page[NoCursor.pid].slot_count
        BY <1>2, ZeroesAreTyped, HeapPageAssumption DEF PagesOK, Pages
    <2>4. CursorOK(w)
        <3>1. /\ IsCursor(cursor[w]) /\ cursor[w].pid \in Pids /\ cursor[w].slot \in Slots
              /\ cursor[w].row_no = 0 /\ cursor[w].slot_no = 0
            BY <2>1, ZeroesAreTyped
        <3> QED
            BY <2>1, <2>3, <3>1 DEF CursorOK, RowPCs, OnPagePCs
    <2> QED
        BY <2>2, <2>4
<1> QED
    BY <1>1, <1>2, <1>3, <1>4 DEF TypeInv

\* Every step keeps the types.
LEMMA TypeStep ==
    ASSUME TypeInv, [Next]_vars
    PROVE  TypeInv'
<1>1. CatalogInv' /\ TablesOK'
    BY CatalogStep, TablesStep DEF TypeInv
<1>2. PagesOK'
    BY PagesStep
<1>3. SharedOK'
    BY SharedStep
<1>4. ASSUME NEW v \in Workers
      PROVE  StmtOK(v)' /\ CursorOK(v)'
    <2>1. CASE UNCHANGED vars
        BY <2>1, WorkerStays DEF vars, session
    <2>2. CASE Next
        <3>1. PICK w \in Workers : WorkerStep(w)
            BY <2>2 DEF Next, WorkerStep
        <3>2. CASE v # w
            <4>1. pc'[v] = pc[v] /\ stmt'[v] = stmt[v] /\ cursor'[v] = cursor[v]
                BY <3>1, <3>2, OthersStay DEF TypeInv
            <4> QED
                BY <4>1, WorkerStays
        <3>3. CASE v = w
            BY <3>1, <3>3, StatementTypes, InsertTypes, OnPageTypes, SelectTypes DEF WorkerStep, Insert
        <3> QED
            BY <3>2, <3>3
    <2> QED
        BY <2>1, <2>2
<1> QED
    BY <1>1, <1>2, <1>3, <1>4 DEF TypeInv

\* Pages keep their shape, with room in their slots for every slot that is counted, and
\* cursors stay on their pages, whatever is inserted or scanned at the same time.
THEOREM StatementTypesOK ==
    Spec => []TypeOK
<1>1. Init => TypeInv
    BY TypeInit
<1>2. TypeInv /\ [Next]_vars => TypeInv'
    BY TypeStep
<1>3. TypeInv => TypeOK
    BY DEF TypeInv, TypeOK, PagesOK, SharedOK, StmtOK, CursorOK
<1> QED
    BY <1>1, <1>2, <1>3, PTL DEF Spec

-----------------------------------------------------------------------------
(* Acknowledged rows stay.                                                 *)

\* One worker at a time is sent INSERTs.
OneWriter == \A v, w \in Writers : v = w

\* What a step leaves of its worker's statement: the request in any case, the
\* syntax tree but for Parse, the table but for the plans.
LEMMA RequestKept ==
    ASSUME TypeInv, NEW w \in Workers,
           Parse(w) \/ Create(w) \/ Insert(w) \/ Select(w)
    PROVE  /\ pc[w] # "idle" /\ pc'[w] # "idle"
           /\ stmt'[w].request = stmt[w].request
           /\ stmt'[w].complete = stmt[w].complete \/ InsertDone(w)
           /\ stmt'[w].ast = stmt[w].ast \/ Parse(w)
           /\ cursor'[w].row_no = cursor[w].row_no \/ Commit(w)
           /\ pc[w] \in RowPCs => UNCHANGED stmt
<1>1. /\ stmt = [v \in Workers |-> stmt[v]] /\ IsStmt(stmt[w])
      /\ cursor = [v \in Workers |-> cursor[v]] /\ IsCursor(cursor[w])
    BY DEF TypeInv, SharedOK, StmtOK, CursorOK
<1> DEFINE Kept == /\ stmt'[w].request = stmt[w].request
                   /\ stmt'[w].complete = stmt[w].complete
                   /\ stmt'[w].ast = stmt[w].ast
           Here == pc[w] # "idle" /\ pc'[w] # "idle"
<1>2. UNCHANGED stmt => Kept
    OBVIOUS
<1>3. ASSUME NEW t, stmt' = [stmt EXCEPT ![w].table = t]
      PROVE  Kept
    <2>1. stmt'[w] = [stmt[w] EXCEPT !.table = t]
        BY <1>1, <1>3
    <2> QED
        BY <1>1, <2>1 DEF IsStmt
<1>4. ASSUME NEW c, cursor' = [cursor EXCEPT ![w].pid = c] \/ cursor' = [cursor EXCEPT ![w].slot = c]
      PROVE  cursor'[w].row_no = cursor[w].row_no
    <2>1. cursor'[w] = [cursor[w] EXCEPT !.pid = c] \/ cursor'[w] = [cursor[w] EXCEPT !.slot = c]
        BY <1>1, <1>4
    <2> QED
        BY <1>1, <2>1 DEF IsCursor
<1> HIDE DEF Kept
<1>5. CASE Parse(w)
    <2>1. PICK ast : stmt' = [stmt EXCEPT ![w].ast = ast]
        BY <1>5 DEF Parse
    <2>2. stmt'[w] = [stmt[w] EXCEPT !.ast = ast]
        BY <1>1, <2>1
    <2>3. stmt'[w].request = stmt[w].request /\ stmt'[w].complete = stmt[w].complete
        BY <1>1, <2>2 DEF IsStmt
    <2>4. pc[w] = "parse" /\ pc'[w] \in {"reply", "execute"} /\ UNCHANGED cursor
        BY <1>5, WentTo DEF Parse
    <2> QED
        BY <1>5, <2>3, <2>4 DEF RowPCs
<1>6. CASE Create(w)
    <2>1. pc[w] = "execute" /\ pc'[w] = "reply" /\ UNCHANGED <<stmt, cursor>>
        BY <1>6, WentTo DEF Create
    <2> QED
        BY <1>2, <2>1 DEF Kept, RowPCs
<1>7. CASE PlanInsert(w)
    <2>1. pc[w] = "execute" /\ pc'[w] \in {"reply", "last_pid"} /\ UNCHANGED cursor
        BY <1>7, WentTo DEF PlanInsert, Throw
    <2>2. Kept
        BY <1>2, <1>3, <1>7 DEF PlanInsert, Throw
    <2> QED
        BY <2>1, <2>2 DEF Kept, RowPCs
<1>8. CASE NextRow(w)
    <2>1. pc[w] = "last_pid" /\ pc'[w] = "count" /\ UNCHANGED stmt
        BY <1>8, WentTo DEF NextRow
    <2> QED
        BY <1>2, <1>4, <1>8, <2>1 DEF Kept, NextRow
<1>9. CASE InsertDone(w)
    <2>1. PICK b : b = (stmt[w].ast.values # << >>)
        OBVIOUS
    <2>2. pc[w] = "last_pid" /\ pc'[w] = "reply" /\ UNCHANGED cursor
        BY <1>9, WentTo DEF InsertDone
    <2>3. stmt' = [stmt EXCEPT ![w].complete = b]
        BY <1>9, <2>1, Zenon DEF InsertDone
    <2>4. stmt'[w] = [stmt[w] EXCEPT !.complete = b]
        BY <1>1, <2>3
    <2>5. stmt'[w].request = stmt[w].request /\ stmt'[w].ast = stmt[w].ast
        BY <1>1, <2>4 DEF IsStmt
    <2> QED
        BY <1>9, <2>2, <2>5 DEF RowPCs
<1>10. CASE CountSlot(w) \/ TakeSpace(w) \/ PlaceSlot(w)
    <2>1. Here /\ UNCHANGED <<stmt, cursor>>
        BY <1>10, WentTo DEF CountSlot, TakeSpace, PlaceSlot, Refused
    <2> QED
        BY <1>2, <2>1 DEF Kept
<1>11. CASE FillData(w)
    <2>1. Here /\ UNCHANGED stmt
        BY <1>11, WentTo DEF FillData
    <2>2. cursor'[w].row_no = cursor[w].row_no
        BY <1>4, <1>11 DEF FillData
    <2> QED
        BY <1>2, <2>1, <2>2 DEF Kept
<1>12. CASE Commit(w)
    <2>1. Here /\ UNCHANGED stmt
        BY <1>12, WentTo DEF Commit
    <2> QED
        BY <1>2, <1>12, <2>1 DEF Kept
<1>13. CASE PlanSelect(w)
    <2>1. pc[w] = "execute" /\ UNCHANGED cursor
        BY <1>13 DEF PlanSelect, Throw
    <2>2. CASE Throw(w)
        BY <1>2, <2>1, <2>2, WentTo DEF Throw, Kept, RowPCs
    <2>3. CASE Goto(w, "scan") /\ \E t, o : stmt' = [stmt EXCEPT ![w].table = t, ![w].op = o]
        <3>1. PICK t, o : stmt' = [stmt EXCEPT ![w].table = t, ![w].op = o]
            BY <2>3
        <3>2. /\ stmt'[w].complete = stmt[w].complete /\ stmt'[w].request = stmt[w].request
              /\ stmt'[w].ast = stmt[w].ast
            BY <3>1, Planned
        <3>3. pc'[w] = "scan"
            BY <2>3, WentTo
        <3> QED
            BY <2>1, <3>2, <3>3 DEF RowPCs
    <2> QED
        BY <1>13, <2>2, <2>3 DEF PlanSelect
<1>14. CASE ScanSlot(w)
    <2>1. Here /\ UNCHANGED stmt
        BY <1>14, WentTo DEF ScanSlot
    <2>2. cursor'[w].row_no = cursor[w].row_no
        BY <1>4, <1>14 DEF ScanSlot
    <2> QED
        BY <1>2, <2>1, <2>2 DEF Kept
<1>15. CASE EndOfPage(w) \/ LockRow(w)
    <2>1. Here /\ UNCHANGED <<stmt, cursor>>
        BY <1>15, WentTo DEF EndOfPage, LockRow
    <2> QED
        BY <1>2, <2>1 DEF Kept
<1>16. CASE ScanRow(w)
    <2>1. Here /\ UNCHANGED stmt
        BY <1>16, WentTo DEF ScanRow
    <2>2. cursor'[w].row_no = cursor[w].row_no
        BY <1>16, RowScanned DEF ScanRow
    <2> QED
        BY <1>2, <2>1, <2>2 DEF Kept
<1> QED
    BY <1>5, <1>6, <1>7, <1>8, <1>9, <1>10, <1>11, <1>12, <1>13, <1>14, <1>15, <1>16
       DEF Insert, Select

\* Two workers are never both at an INSERT.
LEMMA InsertsAlone ==
    ASSUME OneWriter, TypeInv, ParsedAsMeant, InsertersOK,
           NEW v \in Workers, NEW w \in Workers, pc[v] \in InsertPCs, pc[w] \in InsertPCs
    PROVE  v = w
<1>1. ASSUME NEW u \in Workers, pc[u] \in InsertPCs
      PROVE  u \in Writers
    <2>1. StmtOK(u)
        BY DEF TypeInv
    <2>2. stmt[u].ast.kind = "insert" /\ pc[u] # "idle"
        BY <1>1, <2>1 DEF StmtOK, InsertPCs
    <2>3. Request(u).means.kind = "insert"
        BY <2>2 DEF ParsedAsMeant
    <2> QED
        BY <2>2, <2>3 DEF InsertersOK
<1> QED
    BY <1>1 DEF OneWriter

\* INSERTs go to writers only.
LEMMA WritersStep ==
    ASSUME TypeInv, InsertersOK, [Next]_vars, NEW v \in Workers,
           pc'[v] # "idle", Requests[stmt'[v].request].means.kind = "insert"
    PROVE  v \in Writers
<1>1. pc[v] # "idle" /\ Requests[stmt[v].request].means.kind = "insert" => v \in Writers
    BY DEF InsertersOK, Request
<1>2. CASE UNCHANGED vars
    BY <1>1, <1>2 DEF vars, session
<1>3. CASE Next
    <2>1. PICK w \in Workers : WorkerStep(w)
        BY <1>3 DEF Next, WorkerStep
    <2>2. CASE v # w
        <3>1. pc'[v] = pc[v] /\ stmt'[v] = stmt[v]
            BY <2>1, <2>2, OthersStay DEF TypeInv
        <3> QED
            BY <1>1, <3>1
    <2>3. CASE v = w /\ (Parse(w) \/ Create(w) \/ Insert(w) \/ Select(w))
        BY <1>1, <2>3, RequestKept
    <2>4. CASE v = w /\ Reply(w)
        BY <2>4, WentTo DEF Reply
    <2>5. CASE v = w /\ \E r \in DOMAIN Requests : Receive(w, r)
        <3>1. PICK r \in DOMAIN Requests : Receive(w, r)
            BY <2>5
        <3>2. PICK n : n = Len(committed)
            OBVIOUS
        <3>3. stmt'[w] = [NoStatement EXCEPT !.request = r, !.began = n]
            BY <3>1, <3>2, WentTo DEF Receive
        <3>4. stmt'[w].request = r
            BY <3>3 DEF NoStatement
        <3> QED
            BY <2>5, <3>1, <3>4 DEF Receive
    <2> QED
        BY <2>1, <2>2, <2>3, <2>4, <2>5 DEF WorkerStep
<1> QED
    BY <1>2, <1>3

\* A step that neither changes pages nor leaves its worker at one.
LEMMA RowsStay ==
    ASSUME TypeInv, RowsInv, [Next]_vars, NEW w \in Workers, WorkerStep(w),
           UNCHANGED <<page, committed>>, pc'[w] \notin OnPagePCs
    PROVE  RowsInv'
<1>1. \A v \in Workers \ {w} : pc'[v] = pc[v] /\ stmt'[v] = stmt[v] /\ cursor'[v] = cursor[v]
    BY OthersStay DEF TypeInv
<1>2. ASSUME NEW v \in Workers
      PROVE  NewestOK(v)'
    <2>1. CASE v = w
        BY <2>1 DEF NewestOK, PlacePCs, OnPagePCs
    <2>2. CASE v # w
        <3>1. NewestOK(v)
            BY DEF RowsInv, InsertersOK
        <3> QED
            BY <1>1, <2>2, <3>1 DEF NewestOK, TypesOf, MeantOf
    <2> QED
        BY <2>1, <2>2
<1>3. InsertersOK'
    BY <1>2, WritersStep DEF InsertersOK, Request, RowsInv
<1>4. ASSUME NEW i \in DOMAIN committed
      PROVE  AckedRow(committed[i])'
    <2>1. PICK c : c = committed[i]
        OBVIOUS
    <2>2. AckedRow(c)
        BY <2>1 DEF RowsInv
    <2>3. \A v \in Workers : pc'[v] \in OnPagePCs =>
             pc'[v] = pc[v] /\ cursor'[v] = cursor[v] /\ stmt'[v] = stmt[v]
        BY <1>1
    <2>4. PICK s \in 1 .. page[c.rid.pid].slot_count :
             /\ page[c.rid.pid].slots[s] = SlotOf(c)
             /\ \A v \in Workers : pc[v] \in OnPagePCs /\ cursor[v].pid = c.rid.pid
                                   => s # page[c.rid.pid].slot_count
        BY <2>2 DEF AckedRow
    <2>5. \E t \in 1 .. page'[c.rid.pid].slot_count :
             /\ page'[c.rid.pid].slots[t] = SlotOf(c)
             /\ \A v \in Workers : pc'[v] \in OnPagePCs /\ cursor'[v].pid = c.rid.pid
                                   => t # page'[c.rid.pid].slot_count
        BY <2>3, <2>4
    <2>6. \A v \in Workers : pc'[v] \in PlacePCs /\ cursor'[v].pid = c.rid.pid
                             => page'[c.rid.pid].free_size + RowSize(ColumnTypesOf(stmt'[v].table))
                                <= c.rid.offset
        BY <2>2, <2>3 DEF AckedRow, TypesOf, PlacePCs, OnPagePCs
    <2>7. AckedRow(c)'
        BY <2>2, <2>5, <2>6 DEF AckedRow, TypesOf
    <2> QED
        BY <2>1, <2>7
<1> QED
    BY <1>3, <1>4 DEF RowsInv

\* What the page of an inserting worker owes to an acknowledged row on it, once it is q.
RowSafe(w, q, c) ==
    /\ q.is_initialized
    /\ q.free_size <= c.rid.offset
    /\ HoldsRow(q, SlotOf(c), ColumnTypesOf(c), MeantRow(c))
    /\ \E s \in 1 .. q.slot_count : q.slots[s] = SlotOf(c) /\ (pc'[w] \in OnPagePCs => s # q.slot_count)
    /\ pc'[w] \in PlacePCs => q.free_size + RowSize(TypesOf(w)) <= c.rid.offset

RowsSafe(w, q) ==
    \A i \in DOMAIN committed : committed[i].rid.pid = cursor[w].pid => RowSafe(w, q, committed[i])

\* A step of heap_write.
LEMMA RowsOnPage ==
    ASSUME OneWriter, TypeInv, ParsedAsMeant, RowsInv, [Next]_vars,
           NEW w \in Workers, WorkerStep(w), pc[w] \in RowPCs,
           NEW q, PageBecomes(w, q), RowsSafe(w, q), NewestOK(w)',
           UNCHANGED <<stmt, committed>>, cursor'[w].pid = cursor[w].pid
    PROVE  RowsInv'
<1>1. \A v \in Workers \ {w} : pc'[v] \notin InsertPCs
    <2> SUFFICES ASSUME NEW v \in Workers \ {w}, pc'[v] \in InsertPCs
                 PROVE  FALSE
        OBVIOUS
    <2>1. pc[v] \in InsertPCs
        BY OthersStay DEF TypeInv
    <2>2. pc[w] \in InsertPCs
        BY DEF InsertPCs, RowPCs
    <2> QED
        BY <2>1, <2>2, InsertsAlone DEF RowsInv
<1>2. \A v \in Workers : NewestOK(v)'
    BY <1>1 DEF NewestOK, PlacePCs, InsertPCs
<1>3. InsertersOK'
    BY <1>2, WritersStep DEF InsertersOK, Request, RowsInv
<1>4. /\ page' = [page EXCEPT ![cursor[w].pid] = q]
      /\ page \in [Pids -> Pages] /\ cursor[w].pid \in Pids
    BY DEF PageBecomes, TypeInv, PagesOK, CursorOK
<1>5. ASSUME NEW i \in DOMAIN committed
      PROVE  AckedRow(committed[i])'
    <2>1. PICK c : c = committed[i]
        OBVIOUS
    <2>2. AckedRow(c)
        BY <2>1 DEF RowsInv
    <2>3. c.rid.pid \in Pids
        BY <2>2 DEF AckedRow, Rids
    <2>4. \A v \in Workers : pc'[v] \in OnPagePCs => v = w
        BY <1>1 DEF OnPagePCs, InsertPCs
    <2>5. CASE c.rid.pid # cursor[w].pid
        <3>1. page'[c.rid.pid] = page[c.rid.pid]
            BY <1>4, <2>3, <2>5
        <3>2. \A v \in Workers : ~(pc'[v] \in OnPagePCs /\ cursor'[v].pid = c.rid.pid)
            BY <2>4, <2>5
        <3>3. \A v \in Workers : ~(pc'[v] \in PlacePCs /\ cursor'[v].pid = c.rid.pid)
            BY <3>2 DEF PlacePCs, OnPagePCs
        <3>4. \E s \in 1 .. page[c.rid.pid].slot_count : page[c.rid.pid].slots[s] = SlotOf(c)
            BY <2>2 DEF AckedRow
        <3> QED
            BY <2>1, <2>2, <3>1, <3>2, <3>3, <3>4 DEF AckedRow
    <2>6. CASE c.rid.pid = cursor[w].pid
        <3>1. page'[c.rid.pid] = q
            BY <1>4, <2>6
        <3>2. RowSafe(w, q, c)
            BY <2>1, <2>6 DEF RowsSafe
        <3>3. PICK s \in 1 .. q.slot_count : q.slots[s] = SlotOf(c) /\ (pc'[w] \in OnPagePCs => s # q.slot_count)
            BY <3>2 DEF RowSafe
        <3>4. \E t \in 1 .. q.slot_count :
                 /\ q.slots[t] = SlotOf(c)
                 /\ \A v \in Workers : pc'[v] \in OnPagePCs /\ cursor'[v].pid = c.rid.pid => t # q.slot_count
            BY <2>4, <3>3
        <3>5. \A v \in Workers : pc'[v] \in PlacePCs /\ cursor'[v].pid = c.rid.pid
                                 => q.free_size + RowSize(ColumnTypesOf(stmt'[v].table)) <= c.rid.offset
            <4>1. \A v \in Workers : pc'[v] \in PlacePCs => v = w
                BY <2>4 DEF PlacePCs, OnPagePCs
            <4>2. pc'[w] \in PlacePCs => q.free_size + RowSize(ColumnTypesOf(stmt'[w].table)) <= c.rid.offset
                BY <3>2 DEF RowSafe, TypesOf
            <4> QED
                BY <4>1, <4>2
        <3>6. /\ IsTable(c) /\ c.rid \in Rids
              /\ c.rid.offset + RowSize(ColumnTypesOf(c)) <= HeapPayloadSize
            BY <2>2 DEF AckedRow
        <3>7. /\ q.is_initialized /\ q.free_size <= c.rid.offset
              /\ HoldsRow(q, SlotOf(c), ColumnTypesOf(c), MeantRow(c))
            BY <3>2 DEF RowSafe
        <3>8. AckedRow(c)'
            BY <3>1, <3>4, <3>5, <3>6, <3>7 DEF AckedRow, TypesOf
        <3> QED
            BY <2>1, <3>8
    <2> QED
        BY <2>5, <2>6
<1> QED
    BY <1>3, <1>5 DEF RowsInv

\* An acknowledged row on the page of a worker that is about to write there.
LEMMA RowBefore ==
    ASSUME TypeInv, RowsInv, NEW w \in Workers, NEW i \in DOMAIN committed,
           NEW c, c = committed[i], NEW p, p = page[cursor[w].pid], c.rid.pid = cursor[w].pid
    PROVE  /\ p \in Pages /\ p.is_initialized /\ p.slot_count \in 0 .. MaxSlots
           /\ p.free_size \in 0 .. HeapPayloadSize
           /\ c.rid.offset \in Nat /\ IsList(ColumnTypesOf(c))
           /\ RowSize(ColumnTypesOf(c)) \in Nat \ {0}
           /\ p.free_size <= c.rid.offset
           /\ c.rid.offset + RowSize(ColumnTypesOf(c)) <= HeapPayloadSize
           /\ HoldsRow(p, SlotOf(c), ColumnTypesOf(c), MeantRow(c))
           /\ \E s \in 1 .. p.slot_count :
                 p.slots[s] = SlotOf(c) /\ (pc[w] \in OnPagePCs => s # p.slot_count)
           /\ pc[w] \in PlacePCs => p.free_size + RowSize(TypesOf(w)) <= c.rid.offset
<1>1. AckedRow(c)
    BY DEF RowsInv
<1>2. p \in Pages
    BY DEF TypeInv, PagesOK, CursorOK
<1>3. p.slot_count \in 0 .. MaxSlots /\ p.free_size \in 0 .. HeapPayloadSize
    BY <1>2 DEF Pages
<1>4. c.rid.offset \in Nat
    BY <1>1, HeapPageAssumption DEF AckedRow, Rids
<1>5. IsList(ColumnTypesOf(c)) /\ RowSize(ColumnTypesOf(c)) \in Nat \ {0}
    BY <1>1, TypesOfTable DEF AckedRow
<1> QED
    BY <1>1, <1>2, <1>3, <1>4, <1>5 DEF AckedRow

\* Pages of the same bytes have the same rows.
LEMMA SameDataHeldSame ==
    ASSUME NEW p, NEW q, q.data = p.data, NEW c, IsList(ColumnTypesOf(c)), c.rid.offset \in Nat,
           HoldsRow(p, SlotOf(c), ColumnTypesOf(c), MeantRow(c))
    PROVE  HoldsRow(q, SlotOf(c), ColumnTypesOf(c), MeantRow(c))
<1>1. SlotOf(c).slot_offset = c.rid.offset
    BY DEF SlotOf
<1>2. SameBytes(p, q, c.rid.offset, RowSize(ColumnTypesOf(c)))
    BY DEF SameBytes
<1> QED
    BY <1>1, <1>2, HeldSame

LEMMA CountSlotRows ==
    ASSUME OneWriter, TypeInv, ParsedAsMeant, RowsInv, [Next]_vars, NEW w \in Workers, CountSlot(w)
    PROVE  RowsInv'
<1>1. PICK p : p = page[cursor[w].pid]
    OBVIOUS
<1>2. WorkerStep(w) /\ pc[w] = "count" /\ UNCHANGED committed
    BY DEF WorkerStep, Insert, CountSlot
<1>3. page \in [Pids -> Pages] /\ cursor[w].pid \in Pids /\ p \in Pages
    BY <1>1 DEF TypeInv, PagesOK, CursorOK
<1>4. CASE SlotsFull(p)
    <2>1. p.is_initialized
        BY <1>3, <1>4, Initialized, HeapPageAssumption DEF SlotsFull
    <2>2. page' = [page EXCEPT ![cursor[w].pid] = p]
        BY <1>1, <1>3, <1>4, <2>1, Initialized DEF CountSlot
    <2>3. UNCHANGED page
        BY <1>1, <1>3, <2>2
    <2>4. pc'[w] = "reply"
        BY <1>1, <1>4, WentTo DEF CountSlot, Refused
    <2> QED
        BY <1>2, <2>3, <2>4, RowsStay DEF OnPagePCs
<1>5. CASE ~SlotsFull(p)
    <2>1. PICK q : q = SlotCounted(p)
        OBVIOUS
    <2>2. PageBecomes(w, q)
        BY <1>1, <1>5, <2>1, CountSlotPage
    <2>3. pc'[w] = "take" /\ UNCHANGED <<stmt, cursor>>
        BY <1>1, <1>5, WentTo DEF CountSlot
    <2>4. RowsSafe(w, q)
        <3> SUFFICES ASSUME NEW i \in DOMAIN committed, committed[i].rid.pid = cursor[w].pid
                     PROVE  RowSafe(w, q, committed[i])
            BY DEF RowsSafe
        <3>1. PICK c : c = committed[i]
            OBVIOUS
        <3>2. /\ p.is_initialized /\ p.slot_count \in 0 .. MaxSlots
              /\ c.rid.offset \in Nat /\ IsList(ColumnTypesOf(c))
              /\ p.free_size <= c.rid.offset
              /\ HoldsRow(p, SlotOf(c), ColumnTypesOf(c), MeantRow(c))
              /\ \E s \in 1 .. p.slot_count : p.slots[s] = SlotOf(c)
            BY <1>1, <3>1, RowBefore
        <3>3. /\ q.is_initialized /\ q.free_size = p.free_size
              /\ q.slot_count = p.slot_count + 1 /\ q.slots = p.slots /\ q.data = p.data
            BY <1>3, <1>5, <2>1, <3>2, Counted, Initialized
        <3>4. HoldsRow(q, SlotOf(c), ColumnTypesOf(c), MeantRow(c))
            BY <3>2, <3>3, SameDataHeldSame
        <3>5. \E s \in 1 .. q.slot_count : q.slots[s] = SlotOf(c) /\ s # q.slot_count
            BY <3>2, <3>3, HeapPageAssumption
        <3> QED
            BY <2>3, <3>1, <3>2, <3>3, <3>4, <3>5 DEF RowSafe, PlacePCs
    <2>5. NewestOK(w)'
        BY <2>3 DEF NewestOK, PlacePCs
    <2> QED
        BY <1>2, <2>2, <2>3, <2>4, <2>5, RowsOnPage DEF RowPCs
<1> QED
    BY <1>4, <1>5

LEMMA TakeSpaceRows ==
    ASSUME OneWriter, TypeInv, ParsedAsMeant, RowsInv, [Next]_vars, NEW w \in Workers, TakeSpace(w)
    PROVE  RowsInv'
<1>1. PICK p : p = page[cursor[w].pid]
    OBVIOUS
<1>2. WorkerStep(w) /\ pc[w] = "take" /\ UNCHANGED <<stmt, cursor, committed>>
    BY DEF WorkerStep, Insert, TakeSpace, Refused
<1>3. p \in Pages /\ p.slot_count # 0
    BY <1>1, TakeSpacePage DEF TypeInv, PagesOK, CursorOK
<1>4. PICK n \in Nat \ {0} : n = RowSizeOf(w)
    <2>1. IsTable(stmt[w].table)
        BY <1>2 DEF TypeInv, StmtOK, InsertPCs
    <2> QED
        BY <2>1, TypesOfTable DEF RowSizeOf
<1>5. n = RowSize(TypesOf(w))
    BY <1>4 DEF RowSizeOf, TypesOf
<1>6. PICK q : q = IF Fits(p, n) THEN SpaceTaken(p, n) ELSE Sized(p, n)
    OBVIOUS
<1>7. PageBecomes(w, q)
    BY <1>1, <1>4, <1>6, TakeSpacePage
<1>8. /\ q.slot_count = p.slot_count /\ q.is_initialized = p.is_initialized /\ q.data = p.data
      /\ \A s \in 1 .. MaxSlots : s # p.slot_count => q.slots[s] = p.slots[s]
    BY <1>3, <1>6, TakenSpace, SizedNewest
<1>9. p.free_size \in 0 .. HeapPayloadSize
    BY <1>3 DEF Pages
<1>10. CASE Fits(p, n)
    <2>1. q.free_size = p.free_size - n /\ n <= p.free_size
        BY <1>3, <1>6, <1>10, TakenSpace DEF Fits
    <2>2. CurrentSlot(q).slot_size = n
        BY <1>3, <1>6, <1>8, <1>10, TakenSpace, SizedNewest DEF CurrentSlot
    <2>3. pc'[w] = "place"
        BY <1>1, <1>4, <1>10, WentTo DEF TakeSpace
    <2>4. NewestOK(w)'
        <3>1. page'[cursor'[w].pid] = q
            BY <1>2, <1>7 DEF PageBecomes, TypeInv, PagesOK, CursorOK
        <3>2. RowSize(ColumnTypesOf(stmt'[w].table)) = n
            BY <1>2, <1>5 DEF TypesOf
        <3>3. q.free_size + n <= HeapPayloadSize
            BY <1>9, <2>1, HeapPageAssumption
        <3> QED
            BY <2>2, <2>3, <3>1, <3>2, <3>3 DEF NewestOK, TypesOf
    <2>5. RowsSafe(w, q)
        <3> SUFFICES ASSUME NEW i \in DOMAIN committed, committed[i].rid.pid = cursor[w].pid
                     PROVE  RowSafe(w, q, committed[i])
            BY DEF RowsSafe
        <3>1. PICK c : c = committed[i]
            OBVIOUS
        <3>2. /\ p.is_initialized /\ p.slot_count \in 0 .. MaxSlots
              /\ c.rid.offset \in Nat /\ IsList(ColumnTypesOf(c))
              /\ p.free_size <= c.rid.offset
              /\ HoldsRow(p, SlotOf(c), ColumnTypesOf(c), MeantRow(c))
              /\ \E s \in 1 .. p.slot_count : p.slots[s] = SlotOf(c) /\ s # p.slot_count
            BY <1>1, <1>2, <3>1, RowBefore DEF OnPagePCs
        <3>3. HoldsRow(q, SlotOf(c), ColumnTypesOf(c), MeantRow(c))
            BY <1>8, <3>2, SameDataHeldSame
        <3>4. \E s \in 1 .. q.slot_count : q.slots[s] = SlotOf(c) /\ s # q.slot_count
            BY <1>8, <3>2, HeapPageAssumption
        <3>5. q.free_size <= c.rid.offset /\ q.free_size + n <= c.rid.offset
            BY <1>9, <2>1, <3>2, HeapPageAssumption
        <3> QED
            BY <1>5, <1>8, <3>1, <3>2, <3>3, <3>4, <3>5 DEF RowSafe
    <2> QED
        BY <1>2, <1>7, <2>4, <2>5, RowsOnPage DEF RowPCs
<1>11. CASE ~Fits(p, n)
    <2>1. q.free_size = p.free_size
        BY <1>3, <1>6, <1>11, SizedNewest
    <2>2. pc'[w] = "reply"
        BY <1>1, <1>4, <1>11, WentTo DEF TakeSpace, Refused
    <2>3. NewestOK(w)'
        BY <2>2 DEF NewestOK, PlacePCs
    <2>4. RowsSafe(w, q)
        <3> SUFFICES ASSUME NEW i \in DOMAIN committed, committed[i].rid.pid = cursor[w].pid
                     PROVE  RowSafe(w, q, committed[i])
            BY DEF RowsSafe
        <3>1. PICK c : c = committed[i]
            OBVIOUS
        <3>2. /\ p.is_initialized /\ p.slot_count \in 0 .. MaxSlots
              /\ c.rid.offset \in Nat /\ IsList(ColumnTypesOf(c))
              /\ p.free_size <= c.rid.offset
              /\ HoldsRow(p, SlotOf(c), ColumnTypesOf(c), MeantRow(c))
              /\ \E s \in 1 .. p.slot_count : p.slots[s] = SlotOf(c) /\ s # p.slot_count
            BY <1>1, <1>2, <3>1, RowBefore DEF OnPagePCs
        <3>3. HoldsRow(q, SlotOf(c), ColumnTypesOf(c), MeantRow(c))
            BY <1>8, <3>2, SameDataHeldSame
        <3>4. \E s \in 1 .. q.slot_count : q.slots[s] = SlotOf(c)
            BY <1>8, <3>2, HeapPageAssumption
        <3> QED
            BY <1>8, <2>1, <2>2, <3>1, <3>2, <3>3, <3>4 DEF RowSafe, PlacePCs, OnPagePCs
    <2> QED
        BY <1>2, <1>7, <2>3, <2>4, RowsOnPage DEF RowPCs
<1> QED
    BY <1>10, <1>11

LEMMA PlaceSlotRows ==
    ASSUME OneWriter, TypeInv, ParsedAsMeant, RowsInv, [Next]_vars, NEW w \in Workers, PlaceSlot(w)
    PROVE  RowsInv'
<1>1. PICK p : p = page[cursor[w].pid]
    OBVIOUS
<1>2. WorkerStep(w) /\ pc[w] = "place" /\ pc'[w] = "fill" /\ UNCHANGED <<stmt, cursor, committed>>
    BY WentTo DEF WorkerStep, Insert, PlaceSlot
<1>3. p \in Pages /\ p.slot_count # 0
    BY <1>1, PlaceSlotPage DEF TypeInv, PagesOK, CursorOK
<1>4. PICK q : q = Placed(p)
    OBVIOUS
<1>5. PageBecomes(w, q)
    BY <1>1, <1>4, PlaceSlotPage
<1>6. /\ q.slot_count = p.slot_count /\ q.is_initialized = p.is_initialized /\ q.data = p.data
      /\ q.free_size = p.free_size
      /\ \A s \in 1 .. MaxSlots : s # p.slot_count => q.slots[s] = p.slots[s]
      /\ CurrentSlot(q).slot_size = CurrentSlot(p).slot_size
      /\ CurrentSlot(q).slot_offset = q.free_size
    BY <1>3, <1>4, PlacedNewest
<1>7. NewestOK(w)'
    <2>1. /\ CurrentSlot(p).slot_size = RowSize(TypesOf(w))
          /\ p.free_size + RowSize(TypesOf(w)) <= HeapPayloadSize
        BY <1>1, <1>2 DEF RowsInv, InsertersOK, NewestOK, PlacePCs
    <2>2. page'[cursor'[w].pid] = q
        BY <1>2, <1>5 DEF PageBecomes, TypeInv, PagesOK, CursorOK
    <2>3. stmt'[w] = stmt[w]
        BY <1>2
    <2> QED
        BY <1>2, <1>6, <2>1, <2>2, <2>3 DEF NewestOK, TypesOf
<1>8. RowsSafe(w, q)
    <2> SUFFICES ASSUME NEW i \in DOMAIN committed, committed[i].rid.pid = cursor[w].pid
                 PROVE  RowSafe(w, q, committed[i])
        BY DEF RowsSafe
    <2>1. PICK c : c = committed[i]
        OBVIOUS
    <2>2. /\ p.is_initialized /\ p.slot_count \in 0 .. MaxSlots
          /\ c.rid.offset \in Nat /\ IsList(ColumnTypesOf(c))
          /\ p.free_size <= c.rid.offset
          /\ HoldsRow(p, SlotOf(c), ColumnTypesOf(c), MeantRow(c))
          /\ \E s \in 1 .. p.slot_count : p.slots[s] = SlotOf(c) /\ s # p.slot_count
          /\ p.free_size + RowSize(TypesOf(w)) <= c.rid.offset
        BY <1>1, <1>2, <2>1, RowBefore DEF OnPagePCs, PlacePCs
    <2>3. HoldsRow(q, SlotOf(c), ColumnTypesOf(c), MeantRow(c))
        BY <1>6, <2>2, SameDataHeldSame
    <2>4. \E s \in 1 .. q.slot_count : q.slots[s] = SlotOf(c) /\ s # q.slot_count
        BY <1>6, <2>2, HeapPageAssumption
    <2> QED
        BY <1>6, <2>1, <2>2, <2>3, <2>4 DEF RowSafe
<1> QED
    BY <1>2, <1>5, <1>7, <1>8, RowsOnPage DEF RowPCs

LEMMA FillDataRows ==
    ASSUME OneWriter, TypeInv, ParsedAsMeant, RowsInv, [Next]_vars, NEW w \in Workers, FillData(w)
    PROVE  RowsInv'
<1>1. PICK p : p = page[cursor[w].pid]
    OBVIOUS
<1>2. WorkerStep(w) /\ pc[w] = "fill" /\ pc'[w] = "commit" /\ UNCHANGED <<stmt, committed>>
    BY WentTo DEF WorkerStep, Insert, FillData
<1>3. p \in Pages /\ p.slot_count # 0
    BY <1>1, FillDataPage DEF TypeInv, PagesOK, CursorOK
<1>4. PICK row : row = RowOf(w)
    OBVIOUS
<1>5. PICK types : types = TypesOf(w)
    OBVIOUS
<1>6. IsRow(row, types) /\ IsList(types) /\ ValuesOf(row, types) = MeantOf(w)
    BY <1>2, <1>4, <1>5, RowAsMeant, TypesOfTable DEF RowPCs, TypesOf
<1>7. PICK q : q = DataFilled(p, row)
    OBVIOUS
<1>8. PageBecomes(w, q)
    BY <1>1, <1>4, <1>7, FillDataPage
<1>9. /\ q.slot_count = p.slot_count /\ q.is_initialized = p.is_initialized
      /\ q.free_size = p.free_size /\ q.slots = p.slots
    BY <1>3, <1>6, <1>7, FilledPage
<1>10. CurrentSlot(q) = CurrentSlot(p)
    BY <1>9 DEF CurrentSlot
<1>11. /\ CurrentSlot(p).slot_size = RowSize(types)
       /\ CurrentSlot(p).slot_offset = p.free_size
       /\ p.free_size + RowSize(types) <= HeapPayloadSize
    BY <1>1, <1>2, <1>5 DEF RowsInv, InsertersOK, NewestOK, PlacePCs
<1>12. PICK s : s = CurrentSlot(p)
    OBVIOUS
<1>13. /\ cursor'[w].slot = s /\ cursor'[w].pid = cursor[w].pid
       /\ cursor'[w].row_no = cursor[w].row_no
    <2>1. cursor = [v \in Workers |-> cursor[v]] /\ IsCursor(cursor[w])
        BY DEF TypeInv, SharedOK, CursorOK
    <2>2. cursor' = [cursor EXCEPT ![w].slot = s]
        BY <1>1, <1>12 DEF FillData
    <2>3. cursor'[w] = [cursor[w] EXCEPT !.slot = s]
        BY <2>1, <2>2
    <2> QED
        BY <2>1, <2>3 DEF IsCursor
<1>14. NewestOK(w)'
    <2>1. page'[cursor'[w].pid] = q
        BY <1>8, <1>13 DEF PageBecomes, TypeInv, PagesOK, CursorOK
    <2>2. HoldsRow(q, s, types, ValuesOf(row, types))
        BY <1>3, <1>6, <1>7, <1>11, <1>12, WrittenIsRead
    <2>3. TypesOf(w)' = types /\ MeantOf(w)' = MeantOf(w)
        BY <1>2, <1>5, <1>13 DEF TypesOf, MeantOf
    <2>4. /\ CurrentSlot(q).slot_size = RowSize(types)
          /\ q.free_size + RowSize(types) <= HeapPayloadSize
          /\ CurrentSlot(q).slot_offset = q.free_size
          /\ cursor'[w].slot = CurrentSlot(q)
          /\ HoldsRow(q, CurrentSlot(q), types, MeantOf(w))
        BY <1>6, <1>9, <1>10, <1>11, <1>12, <1>13, <2>2
    <2> QED
        BY <2>1, <2>3, <2>4 DEF NewestOK
<1>15. RowsSafe(w, q)
    <2> SUFFICES ASSUME NEW i \in DOMAIN committed, committed[i].rid.pid = cursor[w].pid
                 PROVE  RowSafe(w, q, committed[i])
        BY DEF RowsSafe
    <2>1. PICK c : c = committed[i]
        OBVIOUS
    <2>2. /\ p.is_initialized /\ p.slot_count \in 0 .. MaxSlots
          /\ c.rid.offset \in Nat /\ IsList(ColumnTypesOf(c))
          /\ c.rid.offset + RowSize(ColumnTypesOf(c)) <= HeapPayloadSize
          /\ p.free_size <= c.rid.offset
          /\ HoldsRow(p, SlotOf(c), ColumnTypesOf(c), MeantRow(c))
          /\ \E t \in 1 .. p.slot_count : p.slots[t] = SlotOf(c) /\ t # p.slot_count
          /\ p.free_size + RowSize(types) <= c.rid.offset
        BY <1>1, <1>2, <1>5, <2>1, RowBefore DEF OnPagePCs, PlacePCs
    <2>3. PICK others : others = ColumnTypesOf(c)
        OBVIOUS
    <2>4. PICK r \in Nat : r = c.rid.offset
        BY <2>2
    <2>5. SlotOf(c).slot_offset = r
        BY <2>4 DEF SlotOf
    <2>6. /\ IsList(others) /\ r + RowSize(others) <= HeapPayloadSize
          /\ CurrentSlot(p).slot_offset + RowSize(types) <= r
        BY <1>11, <2>2, <2>3, <2>4
    <2>7. HoldsRow(q, SlotOf(c), others, MeantRow(c))
        BY <1>3, <1>6, <1>7, <2>2, <2>3, <2>5, <2>6, OtherRowsKept
    <2>8. \E t \in 1 .. q.slot_count : q.slots[t] = SlotOf(c) /\ t # q.slot_count
        BY <1>9, <2>2
    <2> QED
        BY <1>5, <1>9, <2>1, <2>2, <2>3, <2>7, <2>8 DEF RowSafe
<1> QED
    BY <1>2, <1>8, <1>13, <1>14, <1>15, RowsOnPage DEF RowPCs

\* CommitTransaction acknowledges the row that has just been written.
LEMMA CommitRows ==
    ASSUME OneWriter, TypeInv, ParsedAsMeant, RowsInv, [Next]_vars, NEW w \in Workers, Commit(w)
    PROVE  RowsInv'
<1>1. WorkerStep(w) /\ pc[w] = "commit" /\ UNCHANGED <<stmt, page>>
    BY DEF WorkerStep, Insert, Commit
<1>2. pc'[w] \notin OnPagePCs
    BY WentTo DEF Commit, OnPagePCs
<1>3. CASE UNCHANGED committed
    BY <1>1, <1>2, <1>3, RowsStay
<1>4. CASE committed # committed'
    <2>0. PICK c : c = [rid |-> [pid |-> cursor[w].pid, offset |-> cursor[w].slot.slot_offset],
                       request |-> stmt[w].request, columns |-> stmt[w].table.columns,
                       row_no |-> cursor[w].row_no + 1]
        OBVIOUS
    <2>1. committed' = Append(committed, c)
        BY <1>4, <2>0 DEF Commit
    <2>2. PICK p : p = page[cursor[w].pid]
        OBVIOUS
    <2>3. p \in Pages /\ p.slot_count # 0 /\ p.is_initialized /\ cursor[w].pid \in Pids
          /\ cursor[w].slot \in Slots
        BY <1>1, <2>2 DEF TypeInv, PagesOK, CursorOK, OnPagePCs
    <2>4. p.slot_count \in 1 .. MaxSlots /\ CurrentSlot(p) \in Slots
        BY <2>3, CurrentSlotType
    <2>5. PICK types : types = TypesOf(w)
        OBVIOUS
    <2>6. /\ CurrentSlot(p).slot_size = RowSize(types)
          /\ CurrentSlot(p).slot_offset = p.free_size
          /\ p.free_size + RowSize(types) <= HeapPayloadSize
          /\ cursor[w].slot = CurrentSlot(p)
          /\ HoldsRow(p, CurrentSlot(p), types, MeantOf(w))
        BY <1>1, <2>2, <2>5 DEF RowsInv, InsertersOK, NewestOK, PlacePCs
    <2>7. IsTable(stmt[w].table)
        BY <1>1 DEF TypeInv, StmtOK, InsertPCs
    <2>8. RowSize(types) \in Nat \ {0}
        BY <2>5, <2>7, TypesOfTable DEF TypesOf
    <2>9. /\ c.rid = [pid |-> cursor[w].pid, offset |-> p.free_size]
          /\ c.columns = stmt[w].table.columns
          /\ c.request = stmt[w].request /\ c.row_no = cursor[w].row_no + 1
        BY <2>0, <2>6
    <2>10. ColumnTypesOf(c) = types
        BY <2>5, <2>9 DEF ColumnTypesOf, TypesOf
    <2>11. SlotOf(c) = CurrentSlot(p)
        BY <2>4, <2>6, <2>9, <2>10 DEF SlotOf, Slots
    <2>12. MeantRow(c) = MeantOf(w)
        BY <2>9 DEF MeantRow, MeantOf
    <2>13. IsTable(c)
        BY <2>7, <2>9 DEF IsTable
    <2>14. c.rid \in Rids
        BY <2>3, <2>9 DEF Rids, Pages
    <2>15. \A v \in Workers : pc'[v] \notin OnPagePCs
        <3> SUFFICES ASSUME NEW v \in Workers, v # w, pc'[v] \in OnPagePCs
                     PROVE  FALSE
            BY <1>2
        <3>1. pc[v] \in InsertPCs /\ pc[w] \in InsertPCs
            BY <1>1, OthersStay DEF TypeInv, InsertPCs, OnPagePCs
        <3> QED
            BY <3>1, InsertsAlone DEF RowsInv
    <2>16. \A v \in Workers : pc'[v] \notin PlacePCs
        BY <2>15 DEF OnPagePCs, PlacePCs
    <2>17. InsertersOK'
        BY <2>16, WritersStep DEF InsertersOK, NewestOK, Request, RowsInv, PlacePCs
    <2>18. ASSUME NEW d, AckedRow(d)
           PROVE  AckedRow(d)'
        BY <1>1, <2>15, <2>16, <2>18 DEF AckedRow
    <2>19. AckedRow(c)'
        <3>1. c.rid.pid = cursor[w].pid /\ c.rid.offset = p.free_size
            BY <2>9
        <3>2. page'[c.rid.pid] = p
            BY <1>1, <2>2, <3>1
        <3>3. p.free_size <= c.rid.offset
            BY <2>3, <3>1, HeapPageAssumption DEF Pages
        <3>4. c.rid.offset + RowSize(ColumnTypesOf(c)) <= HeapPayloadSize
            BY <2>6, <2>10, <3>1
        <3>5. HoldsRow(p, SlotOf(c), ColumnTypesOf(c), MeantRow(c))
            BY <2>6, <2>10, <2>11, <2>12
        <3>6. \E s \in 1 .. p.slot_count : p.slots[s] = SlotOf(c)
            <4>1. p.slot_count \in 1 .. p.slot_count
                BY <2>4, HeapPageAssumption
            <4>2. p.slots[p.slot_count] = SlotOf(c)
                BY <2>11 DEF CurrentSlot
            <4> QED
                BY <4>1, <4>2
        <3> QED
            BY <2>3, <2>13, <2>14, <2>15, <2>16, <3>2, <3>3, <3>4, <3>5, <3>6 DEF AckedRow
    <2>20. PICK T : committed \in Seq(T)
        BY DEF TypeInv, SharedOK, IsList
    <2>21. /\ DOMAIN committed = 1 .. Len(committed) /\ Len(committed) \in Nat
           /\ DOMAIN committed' = 1 .. Len(committed) + 1
           /\ committed'[Len(committed) + 1] = c
           /\ \A i \in 1 .. Len(committed) : committed'[i] = committed[i]
        <3>1. committed \in Seq(T \cup {c})
            BY <2>20
        <3> QED
            BY <2>1, <3>1
    <2>22. (\A i \in DOMAIN committed : AckedRow(committed[i]))'
        <3> SUFFICES ASSUME NEW i \in 1 .. Len(committed) + 1
                     PROVE  AckedRow(committed[i])'
            BY <2>21
        <3>1. CASE i = Len(committed) + 1
            BY <2>19, <2>21, <3>1
        <3>2. CASE i \in 1 .. Len(committed)
            <4>1. AckedRow(committed[i])
                BY <2>21, <3>2 DEF RowsInv
            <4> QED
                BY <2>18, <2>21, <3>2, <4>1
        <3> QED
            BY <2>21, <3>1, <3>2
    <2>23. \A i \in DOMAIN committed : committed[i].rid # c.rid
        <3> SUFFICES ASSUME NEW i \in DOMAIN committed, committed[i].rid = c.rid
                     PROVE  FALSE
            OBVIOUS
        <3>1. PICK d : d = committed[i]
            OBVIOUS
        <3>2. d.rid.pid = cursor[w].pid /\ d.rid.offset = p.free_size
            BY <2>9, <3>1
        <3>3. p.free_size + RowSize(types) <= d.rid.offset
            BY <1>1, <2>2, <2>5, <3>1, <3>2, RowBefore DEF PlacePCs
        <3>4. p.free_size \in Nat
            BY <2>3, HeapPageAssumption DEF Pages
        <3> QED
            BY <2>8, <3>2, <3>3, <3>4
    <2>24. \A i, j \in DOMAIN committed' : i # j => committed'[i].rid # committed'[j].rid
        <3>1. \A i, j \in DOMAIN committed : i # j => committed[i].rid # committed[j].rid
            BY DEF RowsInv
        <3> QED
            BY <2>21, <2>23, <3>1
    <2> QED
        BY <2>17, <2>22, <2>24 DEF RowsInv
<1> QED
    BY <1>3, <1>4

LEMMA RowsStep ==
    ASSUME OneWriter, TypeInv, ParsedAsMeant, RowsInv, [Next]_vars
    PROVE  RowsInv'
<1>1. CASE UNCHANGED vars
    <2>1. UNCHANGED <<page, pc, stmt, cursor, committed>>
        BY <1>1 DEF vars, session
    <2>2. InsertersOK'
        BY <2>1, WritersStep DEF RowsInv, InsertersOK, NewestOK, Request, TypesOf, MeantOf
    <2>3. ASSUME NEW c, AckedRow(c)
          PROVE  AckedRow(c)'
        BY <2>1, <2>3 DEF AckedRow, TypesOf
    <2> QED
        BY <2>1, <2>2, <2>3 DEF RowsInv
<1>2. CASE Next
    <2>1. PICK w \in Workers : WorkerStep(w)
        BY <1>2 DEF Next, WorkerStep
    <2>2. CASE UNCHANGED <<page, committed>> /\ pc'[w] \notin OnPagePCs
        BY <2>1, <2>2, RowsStay
    <2>3. CASE (\E r \in DOMAIN Requests : Receive(w, r)) \/ Parse(w) \/ Create(w) \/ Reply(w)
        BY <2>2, <2>3, WentTo DEF Receive, Parse, Create, Reply, OnPagePCs
    <2>4. CASE PlanInsert(w) \/ NextRow(w) \/ InsertDone(w)
        BY <2>2, <2>4, WentTo DEF PlanInsert, Throw, NextRow, InsertDone, OnPagePCs
    <2>5. CASE Select(w)
        BY <2>2, <2>5, WentTo DEF Select, PlanSelect, Throw, ScanSlot, EndOfPage, ScanRow, LockRow, OnPagePCs
    <2> QED
        BY <2>1, <2>3, <2>4, <2>5, CountSlotRows, TakeSpaceRows, PlaceSlotRows, FillDataRows, CommitRows
           DEF WorkerStep, Insert
<1> QED
    BY <1>1, <1>2

LEMMA RowsInit ==
    ASSUME Init
    PROVE  RowsInv
<1>1. committed = << >> /\ \A w \in Workers : pc[w] = "idle"
    BY DEF Init
<1> QED
    BY <1>1 DEF RowsInv, InsertersOK, NewestOK, PlacePCs

\* Once CommitTransaction has accepted a row, a slot leads to it and its bytes are those
\* its client meant, and it is read as meant but for strings as long as their column,
\* which no NUL ends, however many rows of whatever tables are inserted or refused behind
\* it and however many scans run meanwhile, as long as INSERTs come to one worker at a
\* time (heap_write, get_last_pid, CommitTransaction).
THEOREM AckedRowsStay ==
    ASSUME OneWriter
    PROVE  Spec /\ []ParsedAsMeant => []AckedRowsIntact
<1>1. Init => TypeInv /\ RowsInv
    BY TypeInit, RowsInit
<1>2. TypeInv /\ RowsInv /\ ParsedAsMeant /\ [Next]_vars => (TypeInv /\ RowsInv)'
    BY TypeStep, RowsStep
<1>3. RowsInv => AckedRowsIntact
    <2> SUFFICES ASSUME RowsInv
                 PROVE  AckedRowsIntact
        OBVIOUS
    <2>1. ASSUME NEW i \in DOMAIN committed
          PROVE  LET c == committed[i]
                     p == page[c.rid.pid]
                     types == ColumnTypesOf(c)
                     slot == [slot_size |-> RowSize(types), slot_offset |-> c.rid.offset]
                 IN  /\ \E s \in 1 .. p.slot_count : p.slots[s] = slot
                     /\ HoldsRow(p, slot, types, MeantRow(c))
                     /\ \A k \in DOMAIN types :
                           Delimited(types[k], MeantRow(c)[k])
                           => ReadValue(p, slot, types, k) = MeantRow(c)[k]
        <3>1. PICK c : c = committed[i]
            OBVIOUS
        <3>2. AckedRow(c)
            BY <2>1, <3>1 DEF RowsInv
        <3>3. PICK p : p = page[c.rid.pid]
            OBVIOUS
        <3>4. PICK types : types = ColumnTypesOf(c)
            OBVIOUS
        <3>5. PICK slot : slot = SlotOf(c)
            OBVIOUS
        <3>6. /\ \E s \in 1 .. p.slot_count : p.slots[s] = slot
              /\ HoldsRow(p, slot, types, MeantRow(c))
            BY <3>2, <3>3, <3>4, <3>5 DEF AckedRow
        <3>7. IsList(types) /\ DOMAIN types = 1 .. Len(types)
            BY <3>2, <3>4, TypesOfTable DEF AckedRow
        <3>8. /\ slot.slot_offset \in Nat
              /\ slot.slot_offset + RowSize(types) <= HeapPayloadSize
            BY <3>2, <3>4, <3>5, HeapPageAssumption DEF AckedRow, Rids, SlotOf
        <3>9. ASSUME NEW k \in DOMAIN types, Delimited(types[k], MeantRow(c)[k])
              PROVE  ReadValue(p, slot, types, k) = MeantRow(c)[k]
            BY <3>6, <3>7, <3>8, <3>9, ReadBack
        <3> QED
            BY <3>1, <3>3, <3>4, <3>5, <3>6, <3>9 DEF SlotOf
    <2>2. \A i, j \in DOMAIN committed : i # j => committed[i].rid # committed[j].rid
        BY DEF RowsInv
    <2> QED
        BY <2>1, <2>2 DEF AckedRowsIntact
<1> QED
    BY <1>1, <1>2, <1>3, PTL DEF Spec

-----------------------------------------------------------------------------
(* The rows of a statement are the first it lists.                         *)

LEMMA FirstRowsKept ==
    ASSUME NEW r, NEW n, FirstRows(r, n), IsList(committed),
           UNCHANGED committed \/ \E c : committed' = Append(committed, c) /\ c.request # r
    PROVE  FirstRows(r, n)'
<1>1. CASE UNCHANGED committed
    BY <1>1 DEF FirstRows, Mine
<1>2. CASE \E c : committed' = Append(committed, c) /\ c.request # r
    <2>1. PICK c : committed' = Append(committed, c) /\ c.request # r
        BY <1>2
    <2>2. PICK T : committed \in Seq(T)
        BY DEF IsList
    <2>3. /\ DOMAIN committed = 1 .. Len(committed) /\ Len(committed) \in Nat
          /\ DOMAIN committed' = 1 .. Len(committed) + 1
          /\ committed'[Len(committed) + 1] = c
          /\ \A i \in 1 .. Len(committed) : committed'[i] = committed[i]
        <3>1. committed \in Seq(T \cup {c})
            BY <2>2
        <3> QED
            BY <2>1, <3>1
    <2>4. \A i : i \in Mine(r)' <=> i \in Mine(r)
        <3> SUFFICES ASSUME NEW i
                     PROVE  i \in Mine(r)' <=> i \in Mine(r)
            OBVIOUS
        <3>1. CASE i \in 1 .. Len(committed)
            BY <2>3, <3>1 DEF Mine
        <3>2. CASE i = Len(committed) + 1
            BY <2>1, <2>3, <3>2 DEF Mine
        <3>3. CASE i \notin 1 .. Len(committed) /\ i # Len(committed) + 1
            <4>1. i \notin DOMAIN committed /\ i \notin DOMAIN committed'
                BY <2>3, <3>3
            <4> QED
                BY <4>1 DEF Mine
        <3> QED
            BY <3>1, <3>2, <3>3
    <2>5. Mine(r)' = Mine(r) /\ \A i \in Mine(r) : committed'[i] = committed[i]
        BY <2>3, <2>4 DEF Mine
    <2> HIDE DEF Mine
    <2>6. {committed'[i].row_no : i \in Mine(r)'} = {committed[i].row_no : i \in Mine(r)}
        BY <2>5
    <2> QED
        BY <2>5, <2>6 DEF FirstRows
<1> QED
    BY <1>1, <1>2

LEMMA FirstRowsNext ==
    ASSUME NEW r, NEW n \in Nat, FirstRows(r, n), IsList(committed),
           NEW c, committed' = Append(committed, c), c.request = r, c.row_no = n + 1
    PROVE  FirstRows(r, n + 1)'
<1>1. PICK T : committed \in Seq(T)
    BY DEF IsList
<1>2. PICK m \in Nat : m = Len(committed)
    BY <1>1
<1>3. /\ DOMAIN committed = 1 .. m
      /\ DOMAIN committed' = 1 .. m + 1
      /\ committed'[m + 1] = c
      /\ \A i \in 1 .. m : committed'[i] = committed[i]
    <2>1. committed \in Seq(T \cup {c})
        BY <1>1
    <2> QED
        BY <1>2, <2>1
<1>4. Mine(r) \subseteq 1 .. m
    BY <1>3 DEF Mine
<1>5. Mine(r)' = Mine(r) \cup {m + 1}
    <2>1. \A i : i \in Mine(r)' <=> i \in Mine(r) \cup {m + 1}
        BY <1>3 DEF Mine
    <2> QED
        BY <2>1
<1> HIDE DEF Mine
<1>6. \A i \in Mine(r) : committed'[i].row_no = committed[i].row_no
    BY <1>3, <1>4
<1>7. {committed[i].row_no : i \in Mine(r)} = 1 .. n
      /\ \A i, j \in Mine(r) : i < j => committed[i].row_no < committed[j].row_no
    BY DEF FirstRows
<1>8. committed'[m + 1].row_no = n + 1
    BY <1>3
<1>9. {committed'[i].row_no : i \in Mine(r)'} = 1 .. n + 1
    <2>1. {committed'[i].row_no : i \in Mine(r)'} = {committed[i].row_no : i \in Mine(r)} \cup {n + 1}
        <3>1. \A x : x \in {committed'[i].row_no : i \in Mine(r)'}
                     => x \in {committed[i].row_no : i \in Mine(r)} \cup {n + 1}
            BY <1>5, <1>6, <1>8
        <3>2. \A i \in Mine(r) : committed[i].row_no \in {committed'[j].row_no : j \in Mine(r)'}
            BY <1>5, <1>6
        <3>3. n + 1 \in {committed'[j].row_no : j \in Mine(r)'}
            BY <1>5, <1>8
        <3> QED
            BY <3>1, <3>2, <3>3
    <2>2. 1 .. n + 1 = 1 .. n \cup {n + 1}
        OBVIOUS
    <2> QED
        BY <1>7, <2>1, <2>2
<1>10. ASSUME NEW i \in Mine(r)', NEW j \in Mine(r)', i < j
       PROVE  committed'[i].row_no < committed'[j].row_no
    <2>1. i \in Mine(r)
        BY <1>4, <1>5, <1>10
    <2>2. committed'[i].row_no \in 1 .. n
        BY <1>6, <1>7, <2>1
    <2>3. CASE j \in Mine(r)
        BY <1>6, <1>7, <1>10, <2>1, <2>3
    <2>4. CASE j = m + 1
        <3>1. PICK a : a = committed'[i].row_no
            OBVIOUS
        <3>2. a \in 1 .. n /\ committed'[j].row_no = n + 1
            BY <1>8, <2>2, <2>4, <3>1
        <3>3. a < n + 1
            BY <3>2
        <3> QED
            BY ONLY <3>1, <3>2, <3>3
    <2> QED
        BY <1>5, <2>3, <2>4
<1> QED
    BY <1>9, <1>10 DEF FirstRows

\* An INSERT's rows as they were parsed.
LEMMA ValuesParsed ==
    ASSUME TypeInv, ParsedAsMeant, NEW w \in Workers, pc[w] # "idle", stmt[w].ast.kind = "insert"
    PROVE  /\ Request(w).means.kind = "insert"
           /\ Len(Request(w).means.rows) \in Nat \ {0}
           /\ Len(stmt[w].ast.values) \in Nat
           /\ Len(stmt[w].ast.values) <= Len(Request(w).means.rows)
           /\ stmt[w].ast.values # << >> => Len(stmt[w].ast.values) = Len(Request(w).means.rows)
           /\ stmt[w].ast.values = << >> => Len(stmt[w].ast.values) = 0
<1>1. stmt[w].request \in DOMAIN Requests
    BY DEF TypeInv, StmtOK, SharedOK
<1>2. /\ Request(w).means.kind = "insert"
      /\ stmt[w].ast.values = << >> \/ Len(stmt[w].ast.values) = Len(Request(w).means.rows)
    BY DEF ParsedAsMeant
<1>3. Len(Request(w).means.rows) \in Nat \ {0}
    BY <1>1, <1>2, StatementsAssumption DEF Request
<1>4. stmt[w].ast.values = << >> => Len(stmt[w].ast.values) = 0
    OBVIOUS
<1> QED
    BY <1>2, <1>3, <1>4

\* A step that commits nothing and ends nothing but what is not complete.
LEMMA CountedKept ==
    ASSUME TypeInv, ParsedAsMeant, PrefixInv, NEW w \in Workers,
           pc[w] \notin {"idle", "reply"}, UNCHANGED committed,
           stmt'[w].request = stmt[w].request, stmt'[w].complete = stmt[w].complete,
           cursor'[w].row_no = cursor[w].row_no,
           pc[w] \in InsertPCs => pc'[w] \in InsertPCs \cup {"reply"},
           pc'[w] \in InsertPCs => cursor[w].row_no <= Len(stmt'[w].ast.values),
           pc[w] \in InsertPCs /\ pc'[w] = "reply" => cursor[w].row_no < Len(stmt[w].ast.values)
    PROVE  CountedOK(w)'
<1>1. CountedOK(w) /\ StmtOK(w) /\ CursorOK(w)
    BY DEF PrefixInv, TypeInv
<1>2. FirstRows(stmt[w].request, cursor[w].row_no)'
    <2>1. PICK r, n : r = stmt[w].request /\ n = cursor[w].row_no
        OBVIOUS
    <2>2. FirstRows(r, n)
        BY <1>1, <2>1 DEF CountedOK
    <2>3. FirstRows(r, n)'
        BY <2>2, FirstRowsKept DEF TypeInv, SharedOK
    <2> QED
        BY <2>1, <2>3
<1>3. ~stmt'[w].complete
    BY <1>1 DEF CountedOK
<1>4. pc'[w] \notin InsertPCs \cup {"reply"} => cursor'[w].row_no = 0
    BY <1>1 DEF CountedOK
<1>5. Request(w)' = Request(w)
    BY DEF Request
<1>6. ASSUME pc'[w] = "reply", Request(w).means.kind = "insert"
      PROVE  cursor[w].row_no < Len(Request(w).means.rows) /\ cursor[w].row_no \in Nat
             /\ Len(Request(w).means.rows) \in Nat
    <2>1. CASE pc[w] \in InsertPCs
        <3>1. stmt[w].ast.kind = "insert"
            BY <1>1, <2>1 DEF StmtOK
        <3> QED
            BY <1>1, <1>6, <2>1, <3>1, ValuesParsed DEF CursorOK
    <2>2. CASE pc[w] \notin InsertPCs
        <3>1. cursor[w].row_no = 0
            BY <1>1, <2>2 DEF CountedOK
        <3>2. stmt[w].request \in DOMAIN Requests
            BY <1>1 DEF TypeInv, SharedOK, StmtOK
        <3>3. Len(Request(w).means.rows) \in Nat \ {0}
            BY <1>6, <3>2, StatementsAssumption DEF Request
        <3> QED
            BY <3>1, <3>3
    <2> QED
        BY <2>1, <2>2
<1>7. pc'[w] = "reply" /\ Request(w)'.means.kind = "insert" =>
          /\ cursor'[w].row_no <= Len(Request(w)'.means.rows)
          /\ cursor'[w].row_no # Len(Request(w)'.means.rows)
    BY <1>5, <1>6
<1> QED
    BY <1>2, <1>3, <1>4, <1>7 DEF CountedOK

\* A worker that does not move has its rows as they were.
LEMMA CountedStays ==
    ASSUME TypeInv, PrefixInv, NEW v \in Workers,
           pc'[v] = pc[v], stmt'[v] = stmt[v], cursor'[v] = cursor[v],
           \/ pc[v] = "idle"
           \/ UNCHANGED committed
           \/ \E c : committed' = Append(committed, c) /\ c.request # stmt[v].request
    PROVE  CountedOK(v)'
<1>1. CountedOK(v)
    BY DEF PrefixInv
<1>2. pc[v] # "idle" => FirstRows(stmt[v].request, cursor[v].row_no)'
    <2> SUFFICES ASSUME pc[v] # "idle"
                 PROVE  FirstRows(stmt[v].request, cursor[v].row_no)'
        OBVIOUS
    <2>1. PICK r, n : r = stmt[v].request /\ n = cursor[v].row_no
        OBVIOUS
    <2>2. FirstRows(r, n)
        BY <1>1, <2>1 DEF CountedOK
    <2>3. UNCHANGED committed \/ \E c : committed' = Append(committed, c) /\ c.request # r
        BY <2>1
    <2>4. FirstRows(r, n)'
        BY <2>2, <2>3, FirstRowsKept DEF TypeInv, SharedOK
    <2> QED
        BY <2>1, <2>4
<1>3. Request(v)' = Request(v)
    BY DEF Request
<1> QED
    BY <1>1, <1>2, <1>3 DEF CountedOK

\* Receive, Reply and the statements that are no INSERT.
LEMMA StatementCounted ==
    ASSUME TypeInv, ParsedAsMeant, PrefixInv, NEW w \in Workers,
           \/ \E r \in DOMAIN Requests : Receive(w, r)
           \/ Parse(w) \/ Create(w) \/ Reply(w) \/ PlanInsert(w) \/ Select(w)
    PROVE  CountedOK(w)'
<1>1. CountedOK(w) /\ StmtOK(w) /\ CursorOK(w)
    BY DEF PrefixInv, TypeInv
<1>2. CASE \E r \in DOMAIN Requests : Receive(w, r)
    <2>1. PICK r \in DOMAIN Requests : Receive(w, r)
        BY <1>2
    <2>2. PICK n : n = Len(committed)
        OBVIOUS
    <2>3. stmt'[w] = [NoStatement EXCEPT !.request = r, !.began = n]
        BY <2>1, <2>2, WentTo DEF Receive
    <2>4. stmt'[w] = [request |-> r, ast |-> Rejected, table |-> NoPlan, op |-> "none",
                      complete |-> FALSE, began |-> n]
        BY <2>3 DEF NoStatement
    <2>5. stmt'[w].request = r /\ ~stmt'[w].complete
        BY <2>4
    <2>6. pc'[w] = "parse" /\ UNCHANGED <<cursor, committed>> /\ r \notin sent /\ pc[w] = "idle"
        BY <2>1, WentTo DEF Receive
    <2>7. cursor[w].row_no = 0
        BY <1>1, <2>6 DEF CountedOK, InsertPCs
    <2>8. FirstRows(r, 0)'
        <3>1. Mine(r)' = {}
            BY <2>6 DEF Mine, PrefixInv
        <3> QED
            BY <3>1 DEF FirstRows
    <2>9. cursor'[w].row_no = 0
        BY <2>6, <2>7
    <2> QED
        BY <2>5, <2>6, <2>8, <2>9 DEF CountedOK, InsertPCs
<1>3. CASE Reply(w)
    <2>1. pc'[w] = "idle" /\ stmt'[w] = NoStatement /\ cursor'[w] = NoCursor
        BY <1>3, WentTo DEF Reply
    <2>2. ~NoStatement.complete /\ NoCursor.row_no = 0
        BY DEF NoStatement, NoCursor
    <2>3. ~stmt'[w].complete /\ cursor'[w].row_no = 0
        BY <2>1, <2>2
    <2> QED
        BY <2>1, <2>3 DEF CountedOK, InsertPCs
<1>4. CASE Parse(w) \/ Create(w) \/ PlanInsert(w) \/ Select(w)
    <2>1. /\ pc[w] \in {"parse", "execute", "scan", "read", "lock"}
          /\ UNCHANGED committed
        BY <1>4 DEF Parse, Create, PlanInsert, Throw, Select, PlanSelect, ScanSlot, EndOfPage, ScanRow, LockRow
    <2>2. /\ stmt'[w].request = stmt[w].request
          /\ stmt'[w].complete = stmt[w].complete
          /\ cursor'[w].row_no = cursor[w].row_no
          /\ stmt'[w].ast = stmt[w].ast \/ Parse(w)
        <3>1. ~InsertDone(w) /\ ~Commit(w)
            BY <2>1 DEF InsertDone, Commit
        <3> QED
            BY <1>4, <3>1, RequestKept DEF Insert
    <2>3. pc'[w] \in InsertPCs => stmt'[w].ast = stmt[w].ast /\ stmt[w].ast.kind = "insert"
        <3>1. CASE Parse(w)
            BY <3>1, WentTo DEF Parse, InsertPCs
        <3>2. CASE Create(w)
            BY <3>2, WentTo DEF Create, InsertPCs
        <3>3. CASE PlanInsert(w)
            BY <2>1, <2>2, <3>3 DEF PlanInsert, Parse
        <3>4. CASE Select(w)
            BY <3>4, WentTo DEF Select, PlanSelect, Throw, ScanSlot, EndOfPage, ScanRow, LockRow, InsertPCs
        <3> QED
            BY <1>4, <3>1, <3>2, <3>3, <3>4
    <2>4. cursor[w].row_no = 0
        BY <1>1, <2>1 DEF CountedOK, InsertPCs
    <2>5. pc'[w] \in InsertPCs => cursor[w].row_no <= Len(stmt'[w].ast.values)
        BY <2>1, <2>3, <2>4, ValuesParsed
    <2>6. pc[w] \notin InsertPCs
        BY <2>1 DEF InsertPCs
    <2> QED
        BY <2>1, <2>2, <2>5, <2>6, CountedKept
<1> QED
    BY <1>2, <1>3, <1>4

\* An INSERT's rows, up to the commit of each.
LEMMA RowCounted ==
    ASSUME TypeInv, ParsedAsMeant, PrefixInv, NEW w \in Workers,
           NextRow(w) \/ CountSlot(w) \/ TakeSpace(w) \/ PlaceSlot(w) \/ FillData(w)
    PROVE  CountedOK(w)'
<1>1. CountedOK(w) /\ StmtOK(w) /\ CursorOK(w)
    BY DEF PrefixInv, TypeInv
<1>2. /\ pc[w] \in {"last_pid", "count", "take", "place", "fill"}
      /\ pc'[w] \in {"count", "take", "place", "fill", "commit", "reply"}
      /\ UNCHANGED <<stmt, committed>>
    BY WentTo DEF NextRow, CountSlot, TakeSpace, PlaceSlot, FillData, Refused
<1>3. cursor'[w].row_no = cursor[w].row_no
    BY <1>2, RequestKept DEF Insert, Commit
<1>4. cursor[w].row_no < Len(stmt[w].ast.values)
    BY <1>1 DEF NextRow, CountSlot, TakeSpace, PlaceSlot, FillData, CursorOK, RowPCs
<1>5. pc[w] \in InsertPCs /\ pc'[w] \in InsertPCs \cup {"reply"}
    BY <1>2 DEF InsertPCs
<1>6. cursor[w].row_no <= Len(stmt'[w].ast.values)
    BY <1>1, <1>2, <1>5 DEF CountedOK
<1>7. stmt'[w] = stmt[w] /\ pc[w] \notin {"idle", "reply"}
    BY <1>2
<1> QED
    BY <1>2, <1>3, <1>4, <1>5, <1>6, <1>7, CountedKept

\* EOP: all rows are in, if the statement has any.
LEMMA DoneCounted ==
    ASSUME TypeInv, ParsedAsMeant, PrefixInv, NEW w \in Workers, InsertDone(w)
    PROVE  CountedOK(w)'
<1>1. CountedOK(w) /\ StmtOK(w) /\ CursorOK(w)
    BY DEF PrefixInv, TypeInv
<1>2. /\ pc[w] = "last_pid" /\ pc'[w] = "reply" /\ UNCHANGED <<cursor, committed>>
      /\ cursor[w].row_no >= Len(stmt[w].ast.values)
    BY WentTo DEF InsertDone
<1>3. stmt'[w].request = stmt[w].request /\ Request(w)' = Request(w)
    BY RequestKept DEF Insert, Request
<1>4. stmt[w].ast.kind = "insert" /\ cursor[w].row_no \in Nat
    BY <1>1, <1>2 DEF StmtOK, CursorOK, InsertPCs
<1>5. cursor[w].row_no = Len(stmt[w].ast.values)
    <2>1. cursor[w].row_no <= Len(stmt[w].ast.values)
        BY <1>1, <1>2 DEF CountedOK, InsertPCs
    <2>2. Len(stmt[w].ast.values) \in Nat
        BY <1>2, <1>4, ValuesParsed
    <2> QED
        BY <1>2, <1>4, <2>1, <2>2
<1>6. PICK b : b = (stmt[w].ast.values # << >>)
    OBVIOUS
<1>7. stmt'[w].complete = b
    <2>1. stmt = [v \in Workers |-> stmt[v]] /\ IsStmt(stmt[w])
        BY <1>1 DEF TypeInv, SharedOK, StmtOK
    <2>2. stmt' = [stmt EXCEPT ![w].complete = b]
        BY <1>6, Zenon DEF InsertDone
    <2>3. stmt'[w] = [stmt[w] EXCEPT !.complete = b]
        BY <2>1, <2>2
    <2> QED
        BY <2>1, <2>3 DEF IsStmt
<1>8. CASE stmt[w].ast.values = << >>
    <2>1. b = FALSE
        BY <1>6, <1>8, Zenon
    <2>2. ~stmt'[w].complete
        BY <1>7, <2>1
    <2>3. /\ cursor[w].row_no <= Len(Request(w).means.rows)
          /\ cursor[w].row_no # Len(Request(w).means.rows)
        BY <1>2, <1>4, <1>5, <1>8, ValuesParsed
    <2>4. FirstRows(stmt[w].request, cursor[w].row_no)'
        BY <1>1, <1>2, <1>3 DEF CountedOK, FirstRows, Mine
    <2> QED
        BY <1>2, <1>3, <2>2, <2>3, <2>4 DEF CountedOK, InsertPCs
<1>9. CASE stmt[w].ast.values # << >>
    <2>1. b = TRUE
        BY <1>6, <1>9, Zenon
    <2>2. stmt'[w].complete
        BY <1>7, <2>1
    <2>3. /\ cursor[w].row_no <= Len(Request(w).means.rows)
          /\ cursor[w].row_no = Len(Request(w).means.rows)
        BY <1>2, <1>4, <1>5, <1>9, ValuesParsed
    <2>4. FirstRows(stmt[w].request, cursor[w].row_no)'
        BY <1>1, <1>2, <1>3 DEF CountedOK, FirstRows, Mine
    <2> QED
        BY <1>2, <1>3, <2>2, <2>3, <2>4 DEF CountedOK, InsertPCs
<1> QED
    BY <1>8, <1>9

\* A commit counts the row, or the statement ends without it.
LEMMA CommitCounted ==
    ASSUME TypeInv, ParsedAsMeant, PrefixInv, NEW w \in Workers, Commit(w)
    PROVE  /\ CountedOK(w)'
           /\ \/ UNCHANGED committed
              \/ \E c : committed' = Append(committed, c) /\ c.request = stmt[w].request
<1>1. CountedOK(w) /\ StmtOK(w) /\ CursorOK(w)
    BY DEF PrefixInv, TypeInv
<1>2. pc[w] = "commit" /\ UNCHANGED stmt
    BY DEF Commit
<1>3. /\ cursor[w].row_no \in Nat /\ stmt[w].ast.kind = "insert"
      /\ cursor[w].row_no < Len(stmt[w].ast.values)
    BY <1>1, <1>2 DEF StmtOK, CursorOK, InsertPCs, RowPCs
<1>4. CASE pc'[w] = "reply" /\ UNCHANGED <<cursor, committed>>
    <2>1. CountedOK(w)'
        BY <1>2, <1>3, <1>4, CountedKept DEF InsertPCs
    <2> QED
        BY <1>4, <2>1
<1>5. CASE Goto(w, "last_pid") /\ cursor' = [cursor EXCEPT ![w].row_no = @ + 1]
           /\ committed' = Append(committed,
                 [rid |-> [pid |-> cursor[w].pid, offset |-> cursor[w].slot.slot_offset],
                  request |-> stmt[w].request,
                  columns |-> stmt[w].table.columns, row_no |-> cursor[w].row_no + 1])
    <2>1. PICK c : /\ committed' = Append(committed, c) /\ c.request = stmt[w].request
                   /\ c.row_no = cursor[w].row_no + 1
        BY <1>5
    <2>2. PICK r, n : r = stmt[w].request /\ n = cursor[w].row_no
        OBVIOUS
    <2>3. FirstRows(r, n) /\ IsList(committed) /\ n \in Nat
        BY <1>1, <1>2, <1>3, <2>2 DEF CountedOK, TypeInv, SharedOK
    <2>4. FirstRows(r, n + 1)'
        BY <2>1, <2>2, <2>3, FirstRowsNext
    <2>5. cursor'[w].row_no = n + 1
        <3>1. cursor = [v \in Workers |-> cursor[v]] /\ IsCursor(cursor[w])
            BY <1>1 DEF TypeInv, SharedOK, CursorOK
        <3>2. cursor'[w] = [cursor[w] EXCEPT !.row_no = @ + 1]
            BY <1>5, <3>1
        <3> QED
            BY <2>2, <3>1, <3>2 DEF IsCursor
    <2>6. stmt'[w] = stmt[w] /\ pc'[w] = "last_pid"
        BY <1>2, <1>5, WentTo
    <2>7. FirstRows(stmt[w].request, cursor[w].row_no)'
        BY <2>2, <2>4, <2>5, <2>6
    <2>8. n + 1 <= Len(stmt[w].ast.values)
        BY <1>2, <1>3, <2>2, ValuesParsed
    <2>9. ~stmt[w].complete
        BY <1>1, <1>2 DEF CountedOK
    <2>10. CountedOK(w)'
        BY <2>5, <2>6, <2>7, <2>8, <2>9 DEF CountedOK, InsertPCs
    <2> QED
        BY <2>1, <2>10
<1> QED
    BY <1>4, <1>5, WentTo DEF Commit

LEMMA PrefixStep ==
    ASSUME TypeInv, ParsedAsMeant, PrefixInv, [Next]_vars
    PROVE  PrefixInv'
<1>1. CASE UNCHANGED vars
    <2>1. UNCHANGED <<pc, stmt, cursor, sent, committed>>
        BY <1>1 DEF vars, session
    <2>2. \A v \in Workers : CountedOK(v)'
        BY <2>1, CountedStays
    <2> QED
        BY <2>1, <2>2 DEF PrefixInv
<1>2. CASE Next
    <2>1. PICK w \in Workers : WorkerStep(w)
        BY <1>2 DEF Next, WorkerStep
    <2>2. CountedOK(w)'
        BY <2>1, StatementCounted, RowCounted, DoneCounted, CommitCounted DEF WorkerStep, Insert
    <2>3. UNCHANGED committed
          \/ (pc[w] # "idle" /\ \E c : committed' = Append(committed, c) /\ c.request = stmt[w].request)
        <3>1. CASE Commit(w)
            BY <3>1, CommitCounted DEF Commit
        <3>2. CASE ~Commit(w)
            BY <2>1, <3>2 DEF WorkerStep, Receive, Parse, Create, Reply, Insert, PlanInsert, Throw, NextRow,
                              InsertDone, CountSlot, TakeSpace, PlaceSlot, FillData, Select, PlanSelect,
                              ScanSlot, EndOfPage, ScanRow, LockRow
        <3> QED
            BY <3>1, <3>2
    <2>4. \A v \in Workers \ {w} : pc'[v] = pc[v] /\ stmt'[v] = stmt[v] /\ cursor'[v] = cursor[v]
        BY <2>1, OthersStay DEF TypeInv
    <2>5. \A u, v \in Workers : u # v /\ pc[u] # "idle" /\ pc[v] # "idle" => stmt[u].request # stmt[v].request
        BY DEF PrefixInv
    <2>6. ASSUME NEW v \in Workers \ {w}
          PROVE  CountedOK(v)'
        <3>1. \/ pc[v] = "idle"
              \/ UNCHANGED committed
              \/ \E c : committed' = Append(committed, c) /\ c.request # stmt[v].request
            BY <2>3, <2>5, <2>6
        <3> QED
            BY <2>4, <3>1, CountedStays
    <2>7. \A v \in Workers : pc[v] # "idle" => stmt[v].request \in sent
        BY DEF TypeInv, StmtOK
    <2>8. pc'[w] # "idle" => \/ pc[w] # "idle" /\ stmt'[w].request = stmt[w].request
                             \/ stmt'[w].request \notin sent
        <3>1. CASE \E r \in DOMAIN Requests : Receive(w, r)
            <4>1. PICK r \in DOMAIN Requests : Receive(w, r)
                BY <3>1
            <4>2. PICK n : n = Len(committed)
                OBVIOUS
            <4>3. stmt'[w] = [NoStatement EXCEPT !.request = r, !.began = n]
                BY <4>1, <4>2, WentTo DEF Receive
            <4>4. stmt'[w].request = r
                BY <4>3 DEF NoStatement
            <4> QED
                BY <4>1, <4>4 DEF Receive
        <3>2. CASE Reply(w)
            BY <3>2, WentTo DEF Reply
        <3>3. CASE Parse(w) \/ Create(w) \/ Insert(w) \/ Select(w)
            BY <3>3, RequestKept
        <3> QED
            BY <2>1, <3>1, <3>2, <3>3 DEF WorkerStep
    <2>9. \A u, v \in Workers : u # v /\ pc'[u] # "idle" /\ pc'[v] # "idle" => stmt'[u].request # stmt'[v].request
        <3> SUFFICES ASSUME NEW u \in Workers, NEW v \in Workers,
                            u # v, pc'[u] # "idle", pc'[v] # "idle", stmt'[u].request = stmt'[v].request
                     PROVE  FALSE
            OBVIOUS
        <3>1. CASE u = w
            BY <2>4, <2>5, <2>7, <2>8, <3>1
        <3>2. CASE v = w
            BY <2>4, <2>5, <2>7, <2>8, <3>2
        <3>3. CASE u # w /\ v # w
            BY <2>4, <2>5, <3>3
        <3> QED
            BY <3>1, <3>2, <3>3
    <2>10. \A i \in DOMAIN committed' : committed'[i].request \in sent'
        <3>1. sent \subseteq sent'
            BY HistoryGrows
        <3>2. \A i \in DOMAIN committed : committed[i].request \in sent
            BY DEF PrefixInv
        <3>3. CASE UNCHANGED committed
            BY <3>1, <3>2, <3>3
        <3>4. CASE pc[w] # "idle" /\ \E c : committed' = Append(committed, c) /\ c.request = stmt[w].request
            <4>1. PICK c : committed' = Append(committed, c) /\ c.request = stmt[w].request
                BY <3>4
            <4>2. PICK T : committed \in Seq(T)
                BY DEF TypeInv, SharedOK, IsList
            <4>3. /\ DOMAIN committed = 1 .. Len(committed) /\ Len(committed) \in Nat
                  /\ DOMAIN committed' = 1 .. Len(committed) + 1
                  /\ committed'[Len(committed) + 1] = c
                  /\ \A i \in 1 .. Len(committed) : committed'[i] = committed[i]
                <5>1. committed \in Seq(T \cup {c})
                    BY <4>2
                <5> QED
                    BY <4>1, <5>1
            <4>4. c.request \in sent
                BY <2>7, <3>4, <4>1
            <4> QED
                BY <3>1, <3>2, <4>3, <4>4
        <3> QED
            BY <2>3, <3>3, <3>4
    <2>11. \A v \in Workers : CountedOK(v)'
        BY <2>2, <2>6
    <2> QED
        BY <2>9, <2>10, <2>11 DEF PrefixInv
<1> QED
    BY <1>1, <1>2

LEMMA PrefixInit ==
    ASSUME Init
    PROVE  PrefixInv
<1>1. /\ committed = << >>
      /\ \A w \in Workers : pc[w] = "idle" /\ stmt[w] = NoStatement /\ cursor[w] = NoCursor
    BY DEF Init
<1>2. NoCursor.row_no = 0 /\ ~NoStatement.complete
    BY DEF NoCursor, NoStatement
<1>3. \A w \in Workers : cursor[w].row_no = 0 /\ ~stmt[w].complete
    BY <1>1, <1>2
<1> QED
    BY <1>1, <1>3 DEF PrefixInv, CountedOK, InsertPCs

\* The rows an INSERT has committed are the first of those it lists, each once and in
\* their order, and it is answered as complete exactly when they are all of them,
\* whatever the other workers insert, read or create meanwhile, in the same pages too
\* (Insert::next, create_entry, CommitTransaction).  It is about what is done with the
\* rows the parser has made: that they are as many as the client lists is ParsedAsMeant.
THEOREM InsertsInOrder ==
    Spec /\ []ParsedAsMeant => []InsertIsAllOrPrefix
<1>1. Init => TypeInv /\ PrefixInv
    BY TypeInit, PrefixInit
<1>2. TypeInv /\ PrefixInv /\ ParsedAsMeant /\ [Next]_vars => (TypeInv /\ PrefixInv)'
    BY TypeStep, PrefixStep
<1>3. TypeInv /\ PrefixInv /\ ParsedAsMeant => InsertIsAllOrPrefix
    <2> SUFFICES ASSUME TypeInv, PrefixInv, NEW w \in Workers,
                        pc[w] = "reply", Request(w).means.kind = "insert"
                 PROVE  \E n \in 0 .. Len(Request(w).means.rows) :
                           /\ {committed[i].row_no : i \in Mine(stmt[w].request)} = 1 .. n
                           /\ \A i, j \in Mine(stmt[w].request) :
                                 i < j => committed[i].row_no < committed[j].row_no
                           /\ stmt[w].complete = (n = Len(Request(w).means.rows))
        BY DEF InsertIsAllOrPrefix, Mine
    <2>1. CountedOK(w) /\ StmtOK(w) /\ CursorOK(w)
        BY DEF PrefixInv, TypeInv
    <2>2. FirstRows(stmt[w].request, cursor[w].row_no)
        BY <2>1 DEF CountedOK
    <2>3. stmt[w].request \in DOMAIN Requests
        BY <2>1 DEF StmtOK, TypeInv, SharedOK
    <2>4. Len(Request(w).means.rows) \in Nat
        BY <2>3, StatementsAssumption DEF Request
    <2>5. cursor[w].row_no \in 0 .. Len(Request(w).means.rows)
        BY <2>1, <2>4 DEF CountedOK, CursorOK
    <2>6. stmt[w].complete = (cursor[w].row_no = Len(Request(w).means.rows))
        <3>1. stmt[w].complete <=> cursor[w].row_no = Len(Request(w).means.rows)
            BY <2>1, Zenon DEF CountedOK
        <3>2. stmt[w].complete \in BOOLEAN
            BY <2>1, Zenon DEF StmtOK
        <3> QED
            BY <3>1, <3>2, Zenon
    <2>7. PICK n : n = cursor[w].row_no
        OBVIOUS
    <2>8. /\ {committed[i].row_no : i \in Mine(stmt[w].request)} = 1 .. n
          /\ \A i, j \in Mine(stmt[w].request) : i < j => committed[i].row_no < committed[j].row_no
        BY <2>2, <2>7 DEF FirstRows
    <2> QED
        BY <2>5, <2>6, <2>7, <2>8, Zenon
<1> QED
    BY <1>1, <1>2, <1>3, PTL DEF Spec
-----------------------------------------------------------------------------
(* A scan locks rows in the order they lie in.                             *)

\* Where the free bytes of the page end, or will once it is initialized.
FreeEnd(p) == initialize(p).free_size

\* Rows are placed one before the other, and behind the free bytes.
SlotsFall(p) ==
    /\ \A s \in 1 .. MaxSlots : p.slots[s].slot_offset # 0 =>
          s <= p.slot_count /\ FreeEnd(p) <= p.slots[s].slot_offset
    /\ \A s, t \in 1 .. MaxSlots :
          s < t /\ p.slots[s].slot_offset # 0 /\ p.slots[t].slot_offset # 0
          => p.slots[t].slot_offset <= p.slots[s].slot_offset

\* No row that the slots behind the n-th lead to, now or later, lies behind o.
NoneBehind(p, n, o) ==
    /\ FreeEnd(p) <= o
    /\ \A s \in 1 .. MaxSlots : n < s /\ p.slots[s].slot_offset # 0 => p.slots[s].slot_offset <= o

ScanPCs == {"scan", "read", "lock", "reply"}

\* The worker holds a placed row of the page it is on.
HoldsLock(w, r) == owner[r] = w /\ r.pid = cursor[w].pid /\ r.offset # 0

\* It has copied a placed slot and not yet locked its row.
InFlight(w) == pc[w] \in {"read", "lock"} /\ cursor[w].slot.slot_offset # 0

\* What is still to be scanned lies before what is held.
ScanOK(w) ==
    /\ pc[w] \notin ScanPCs => \A r \in Rids : owner[r] # w
    /\ \A r \in Rids : HoldsLock(w, r) => NoneBehind(page[cursor[w].pid], cursor[w].slot_no, r.offset)
    /\ InFlight(w) =>
          /\ NoneBehind(page[cursor[w].pid], cursor[w].slot_no, cursor[w].slot.slot_offset)
          /\ \A r \in Rids : HoldsLock(w, r) => cursor[w].slot.slot_offset <= r.offset

ScansInv == (\A p \in Pids : SlotsFall(page[p])) /\ \A w \in Workers : ScanOK(w)

\* What heap_write may do to a page: take free bytes, count a slot, place the newest.
PageFalls(p, q) ==
    /\ FreeEnd(q) <= FreeEnd(p)
    /\ p.slot_count <= q.slot_count
    /\ \A s \in 1 .. MaxSlots :
          \/ q.slots[s].slot_offset = p.slots[s].slot_offset
          \/ s = q.slot_count /\ s = p.slot_count /\ q.slots[s].slot_offset = FreeEnd(q)

\* The numbers of a page.
LEMMA PageNumbers ==
    ASSUME NEW p \in Pages
    PROVE  /\ FreeEnd(p) \in Nat /\ p.slot_count \in Nat
           /\ \A s \in 1 .. MaxSlots : p.slots[s].slot_offset \in Nat
<1>1. initialize(p) \in Pages
    BY Initialized
<1> QED
    BY <1>1, HeapPageAssumption DEF FreeEnd, Pages, Slots

LEMMA SlotsFallOn ==
    ASSUME NEW p \in Pages, NEW q \in Pages, SlotsFall(p), PageFalls(p, q)
    PROVE  SlotsFall(q)
<1>1. /\ FreeEnd(p) \in Nat /\ p.slot_count \in Nat
      /\ \A s \in 1 .. MaxSlots : p.slots[s].slot_offset \in Nat
    BY PageNumbers
<1>2. /\ FreeEnd(q) \in Nat /\ q.slot_count \in Nat
      /\ \A s \in 1 .. MaxSlots : q.slots[s].slot_offset \in Nat
    BY PageNumbers
<1>3. ASSUME NEW s \in 1 .. MaxSlots, q.slots[s].slot_offset # 0
      PROVE  s <= q.slot_count /\ FreeEnd(q) <= q.slots[s].slot_offset
    BY <1>1, <1>2, <1>3, HeapPageAssumption DEF SlotsFall, PageFalls
<1>4. ASSUME NEW s \in 1 .. MaxSlots, NEW t \in 1 .. MaxSlots, s < t,
             q.slots[s].slot_offset # 0, q.slots[t].slot_offset # 0
      PROVE  q.slots[t].slot_offset <= q.slots[s].slot_offset
    <2>1. t <= q.slot_count /\ s # q.slot_count
        BY <1>2, <1>3, <1>4, HeapPageAssumption
    <2>2. q.slots[s].slot_offset = p.slots[s].slot_offset
        BY <2>1 DEF PageFalls
    <2>3. FreeEnd(q) <= q.slots[s].slot_offset
        BY <1>3, <1>4
    <2>4. CASE q.slots[t].slot_offset = p.slots[t].slot_offset
        BY <1>4, <2>2, <2>4 DEF SlotsFall
    <2>5. CASE q.slots[t].slot_offset = FreeEnd(q)
        BY <2>3, <2>5
    <2> QED
        BY <2>4, <2>5 DEF PageFalls
<1> QED
    BY <1>3, <1>4 DEF SlotsFall

LEMMA NoneBehindOn ==
    ASSUME NEW p \in Pages, NEW q \in Pages, PageFalls(p, q),
           NEW n \in Nat, NEW m \in Nat, n <= m, NEW o \in Nat, NoneBehind(p, n, o)
    PROVE  NoneBehind(q, m, o)
<1>1. /\ FreeEnd(p) \in Nat
      /\ \A s \in 1 .. MaxSlots : p.slots[s].slot_offset \in Nat
    BY PageNumbers
<1>2. /\ FreeEnd(q) \in Nat
      /\ \A s \in 1 .. MaxSlots : q.slots[s].slot_offset \in Nat
    BY PageNumbers
<1>3. FreeEnd(q) <= o
    BY <1>1, <1>2 DEF PageFalls, NoneBehind
<1>4. ASSUME NEW s \in 1 .. MaxSlots, m < s, q.slots[s].slot_offset # 0
      PROVE  q.slots[s].slot_offset <= o
    <2>1. n < s
        BY <1>4, HeapPageAssumption
    <2>2. CASE q.slots[s].slot_offset = p.slots[s].slot_offset
        BY <1>4, <2>1, <2>2 DEF NoneBehind
    <2>3. CASE q.slots[s].slot_offset = FreeEnd(q)
        BY <1>3, <2>3
    <2> QED
        BY <2>2, <2>3 DEF PageFalls
<1> QED
    BY <1>3, <1>4 DEF NoneBehind

LEMMA SamePageFalls ==
    ASSUME NEW p \in Pages
    PROVE  PageFalls(p, p)
BY PageNumbers DEF PageFalls

\* An initialized page's free bytes end where free_size says.
LEMMA FreeEndIs ==
    ASSUME NEW p \in Pages, p.is_initialized
    PROVE  FreeEnd(p) = p.free_size
BY Initialized DEF FreeEnd

\* Any step lets the pages fall.
LEMMA PagesFall ==
    ASSUME TypeInv, [Next]_vars
    PROVE  \A p \in Pids : PageFalls(page[p], page'[p])
<1>1. page \in [Pids -> Pages]
    BY DEF TypeInv, PagesOK
<1>2. CASE UNCHANGED page
    BY <1>1, <1>2, SamePageFalls
<1>3. ASSUME NEW w \in Workers, NEW q, PageBecomes(w, q), PageFalls(page[cursor[w].pid], q)
      PROVE  \A p \in Pids : PageFalls(page[p], page'[p])
    <2>1. cursor[w].pid \in Pids /\ page' = [page EXCEPT ![cursor[w].pid] = q]
        BY <1>3 DEF TypeInv, CursorOK, PageBecomes
    <2>2. page'[cursor[w].pid] = q /\ \A p \in Pids : p # cursor[w].pid => page'[p] = page[p]
        BY <1>1, <2>1
    <2> QED
        BY <1>1, <1>3, <2>2, SamePageFalls
<1>4. ASSUME NEW w \in Workers, CountSlot(w)
      PROVE  \A p \in Pids : PageFalls(page[p], page'[p])
    <2>1. PICK p \in Pages : p = page[cursor[w].pid]
        BY <1>1 DEF TypeInv, CursorOK
    <2>2. ~p.is_initialized => p.slot_count = 0
        BY <2>1 DEF TypeInv, CursorOK, PagesOK
    <2>3. PICK i \in Pages : i = initialize(p)
        BY Initialized
    <2>4. i.is_initialized /\ i.slots = p.slots /\ i.slot_count = p.slot_count /\ FreeEnd(p) = i.free_size
        BY <2>2, <2>3, Initialized DEF FreeEnd
    <2>5. FreeEnd(i) = FreeEnd(p)
        BY <2>4, FreeEndIs
    <2>6. PageFalls(p, i)
        BY <2>4, <2>5, PageNumbers DEF PageFalls
    <2>7. CASE SlotsFull(p)
        <3>1. PageBecomes(w, i)
            BY <1>4, <2>1, <2>3, <2>7, CountSlotPage
        <3> QED
            BY <1>3, <2>1, <2>6, <3>1
    <2>8. CASE ~SlotsFull(p)
        <3>1. PICK q : q = SlotCounted(p)
            OBVIOUS
        <3>2. PageBecomes(w, q)
            BY <1>4, <2>1, <2>8, <3>1, CountSlotPage
        <3>3. /\ q \in Pages /\ q.is_initialized /\ q.free_size = i.free_size
              /\ q.slot_count = i.slot_count + 1 /\ q.slots = p.slots
            BY <2>3, <2>8, <3>1, Counted
        <3>4. FreeEnd(q) = FreeEnd(p)
            BY <2>4, <3>3, FreeEndIs
        <3>5. PageFalls(p, q)
            BY <2>4, <3>3, <3>4, PageNumbers DEF PageFalls
        <3> QED
            BY <1>3, <2>1, <3>2, <3>5
    <2> QED
        BY <2>7, <2>8
<1>5. ASSUME NEW w \in Workers, TakeSpace(w)
      PROVE  \A p \in Pids : PageFalls(page[p], page'[p])
    <2>1. PICK p \in Pages : p = page[cursor[w].pid]
        BY <1>1 DEF TypeInv, CursorOK
    <2>2. p.is_initialized /\ p.slot_count # 0
        BY <1>5, <2>1 DEF TypeInv, CursorOK, TakeSpace, OnPagePCs
    <2>3. PICK n \in Nat : n = RowSizeOf(w)
        <3>1. IsTable(stmt[w].table)
            BY <1>5 DEF TypeInv, StmtOK, TakeSpace, InsertPCs
        <3> QED
            BY <3>1, TypesOfTable DEF RowSizeOf
    <2>4. PICK z : z = Sized(p, n)
        OBVIOUS
    <2>5. /\ z \in Pages /\ z.is_initialized /\ z.free_size = p.free_size /\ z.slot_count = p.slot_count
          /\ \A s \in 1 .. MaxSlots : z.slots[s].slot_offset = p.slots[s].slot_offset
        BY <2>2, <2>4, SizedNewest DEF CurrentSlot
    <2>6. CASE Fits(p, n)
        <3>1. PICK q : q = SpaceTaken(p, n)
            OBVIOUS
        <3>2. PageBecomes(w, q)
            BY <1>5, <2>1, <2>3, <2>6, <3>1, TakeSpacePage
        <3>3. /\ q \in Pages /\ q.is_initialized /\ q.free_size = p.free_size - n
              /\ q.slot_count = p.slot_count /\ q.slots = z.slots
            BY <2>2, <2>4, <2>6, <3>1, TakenSpace
        <3>4. FreeEnd(q) = FreeEnd(p) - n
            BY <2>2, <3>3, FreeEndIs
        <3>5. PageFalls(p, q)
            BY <2>5, <3>3, <3>4, PageNumbers DEF PageFalls
        <3> QED
            BY <1>3, <2>1, <3>2, <3>5
    <2>7. CASE ~Fits(p, n)
        <3>1. PageBecomes(w, z)
            BY <1>5, <2>1, <2>3, <2>4, <2>7, TakeSpacePage
        <3>2. FreeEnd(z) = FreeEnd(p)
            BY <2>2, <2>5, FreeEndIs
        <3>3. PageFalls(p, z)
            BY <2>5, <3>2, PageNumbers DEF PageFalls
        <3> QED
            BY <1>3, <2>1, <3>1, <3>3
    <2> QED
        BY <2>6, <2>7
<1>6. ASSUME NEW w \in Workers, PlaceSlot(w)
      PROVE  \A p \in Pids : PageFalls(page[p], page'[p])
    <2>1. PICK p \in Pages : p = page[cursor[w].pid]
        BY <1>1 DEF TypeInv, CursorOK
    <2>2. p.is_initialized /\ p.slot_count # 0
        BY <1>6, <2>1 DEF TypeInv, CursorOK, PlaceSlot, OnPagePCs
    <2>3. PICK q : q = Placed(p)
        OBVIOUS
    <2>4. PageBecomes(w, q)
        BY <1>6, <2>1, <2>3, PlaceSlotPage
    <2>5. /\ q \in Pages /\ q.is_initialized /\ q.free_size = p.free_size /\ q.slot_count = p.slot_count
          /\ \A s \in 1 .. MaxSlots : s # p.slot_count => q.slots[s] = p.slots[s]
          /\ q.slots[q.slot_count].slot_offset = p.free_size
        BY <2>2, <2>3, PlacedNewest DEF CurrentSlot
    <2>6. FreeEnd(q) = p.free_size /\ FreeEnd(p) = p.free_size
        BY <2>2, <2>5, FreeEndIs
    <2>7. PageFalls(p, q)
        BY <2>5, <2>6, PageNumbers DEF PageFalls
    <2> QED
        BY <1>3, <2>1, <2>4, <2>7
<1>7. ASSUME NEW w \in Workers, FillData(w)
      PROVE  \A p \in Pids : PageFalls(page[p], page'[p])
    <2>1. PICK p \in Pages : p = page[cursor[w].pid]
        BY <1>1 DEF TypeInv, CursorOK
    <2>2. p.is_initialized /\ p.slot_count # 0
        BY <1>7, <2>1 DEF TypeInv, CursorOK, FillData, OnPagePCs
    <2>3. PICK q : q = DataFilled(p, RowOf(w))
        OBVIOUS
    <2>4. PageBecomes(w, q)
        BY <1>7, <2>1, <2>3, FillDataPage
    <2>5. /\ q \in Pages /\ q.is_initialized = p.is_initialized /\ q.free_size = p.free_size
          /\ q.slot_count = p.slot_count /\ q.slots = p.slots
        <3>1. PICK types : IsList(types) /\ IsRow(RowOf(w), types)
            BY <1>7, RowOfItsOwn DEF FillData, RowPCs
        <3> QED
            BY <2>2, <2>3, <3>1, FilledPage
    <2>6. FreeEnd(q) = FreeEnd(p)
        BY <2>2, <2>5, FreeEndIs
    <2>7. PageFalls(p, q)
        BY <2>5, <2>6, PageNumbers DEF PageFalls
    <2> QED
        BY <1>3, <2>1, <2>4, <2>7
<1>8. CASE UNCHANGED vars
    BY <1>2, <1>8 DEF vars
<1>9. CASE Next
    <2>1. PICK w \in Workers : WorkerStep(w)
        BY <1>9 DEF Next, WorkerStep
    <2>2. UNCHANGED page \/ CountSlot(w) \/ TakeSpace(w) \/ PlaceSlot(w) \/ FillData(w)
        BY <2>1 DEF WorkerStep, Receive, Parse, Create, Reply, Insert, PlanInsert, Throw, NextRow, InsertDone,
                    Commit, Select, PlanSelect, ScanSlot, EndOfPage, ScanRow, LockRow
    <2> QED
        BY <1>2, <1>4, <1>5, <1>6, <1>7, <2>2
<1> QED
    BY <1>8, <1>9

\* A worker that goes on as it was, or further down its page, with no new lock.
LEMMA ScanGoesOn ==
    ASSUME TypeInv, [Next]_vars, NEW w \in Workers, ScanOK(w),
           \A r \in Rids : owner'[r] = w => owner[r] = w,
           cursor'[w].pid = cursor[w].pid, cursor'[w].slot = cursor[w].slot,
           cursor'[w].slot_no \in Nat, cursor[w].slot_no <= cursor'[w].slot_no,
           pc'[w] \notin ScanPCs => pc[w] \notin ScanPCs,
           pc'[w] \in {"read", "lock"} => pc[w] \in {"read", "lock"}
    PROVE  ScanOK(w)'
<1>1. PICK p : p = page[cursor[w].pid]
    OBVIOUS
<1>2. PICK q : q = page'[cursor[w].pid]
    OBVIOUS
<1>3. p \in Pages /\ q \in Pages /\ PageFalls(p, q)
    BY <1>1, <1>2, PagesFall, PagesStep DEF TypeInv, CursorOK, PagesOK
<1>4. cursor[w].slot_no \in Nat /\ cursor[w].slot.slot_offset \in Nat
    BY <1>1, <1>3, PageNumbers, HeapPageAssumption DEF TypeInv, CursorOK, Slots
<1>5. \A o \in Nat : NoneBehind(p, cursor[w].slot_no, o) => NoneBehind(q, cursor'[w].slot_no, o)
    BY <1>3, <1>4, NoneBehindOn
<1>6. \A r \in Rids : r.offset \in Nat
    BY HeapPageAssumption DEF Rids
<1>7. \A r \in Rids : HoldsLock(w, r)' => HoldsLock(w, r)
    BY DEF HoldsLock
<1>8. InFlight(w)' => InFlight(w)
    BY DEF InFlight
<1>9. pc'[w] \notin ScanPCs => \A r \in Rids : owner'[r] # w
    BY DEF ScanOK
<1>10. \A r \in Rids : HoldsLock(w, r)' => NoneBehind(q, cursor'[w].slot_no, r.offset)
    BY <1>1, <1>5, <1>6, <1>7 DEF ScanOK
<1>11. InFlight(w)' => /\ NoneBehind(q, cursor'[w].slot_no, cursor[w].slot.slot_offset)
                       /\ \A r \in Rids : HoldsLock(w, r)' => cursor[w].slot.slot_offset <= r.offset
    BY <1>1, <1>4, <1>5, <1>7, <1>8 DEF ScanOK
<1> QED
    BY <1>2, <1>9, <1>10, <1>11 DEF ScanOK

\* A worker without a lock, and not about to take one.
LEMMA NothingHeld ==
    ASSUME NEW w \in Workers, \A r \in Rids : owner[r] # w, pc[w] \notin {"read", "lock"}
    PROVE  ScanOK(w)
BY DEF ScanOK, HoldsLock, InFlight

\* A worker releases and takes nobody's locks but its own.
LEMMA LocksOfOthers ==
    ASSUME TypeInv, NEW w \in Workers, WorkerStep(w), NEW v \in Workers, v # w, NEW r \in Rids,
           owner'[r] = v
    PROVE  owner[r] = v
<1>1. owner \in [Rids -> Workers \cup {NoWorker}]
    BY DEF TypeInv, SharedOK
<1>2. UNCHANGED owner \/ Locks!UnlockAll(w) \/ Locks!Lock(w, Rid(w))
    BY DEF WorkerStep, Receive, Parse, Create, Reply, Insert, PlanInsert, Throw, NextRow, InsertDone,
           CountSlot, TakeSpace, PlaceSlot, FillData, Commit, Select, PlanSelect, ScanSlot, EndOfPage,
           ScanRow, LockRow, ReleaseLocks
<1>3. v # NoWorker
    BY StatementsAssumption
<1>4. CASE UNCHANGED owner
    BY <1>4
<1>5. CASE Locks!UnlockAll(w)
    BY <1>3, <1>5 DEF Locks!UnlockAll
<1>6. CASE Locks!Lock(w, Rid(w))
    BY <1>1, <1>6 DEF Locks!Lock
<1> QED
    BY <1>2, <1>4, <1>5, <1>6

\* The scan copies its next slot.
LEMMA ScanSlotInOrder ==
    ASSUME TypeInv, [Next]_vars, ScansInv, NEW w \in Workers, ScanSlot(w)
    PROVE  ScanOK(w)'
<1>1. PICK p \in Pages : p = page[cursor[w].pid]
    BY DEF TypeInv, CursorOK, PagesOK
<1>2. PICK n \in Nat : n = cursor[w].slot_no
    BY <1>1, PageNumbers, HeapPageAssumption DEF TypeInv, CursorOK
<1>3. PICK slot : slot = p.slots[n + 1]
    OBVIOUS
<1>4. n < p.slot_count /\ pc[w] = "scan" /\ pc'[w] = "read" /\ UNCHANGED <<page, owner>>
    BY <1>1, <1>2, WentTo DEF ScanSlot
<1>5. cursor' = [cursor EXCEPT ![w].slot = slot]
    BY <1>1, <1>2, <1>3 DEF ScanSlot
<1>6. cursor'[w].pid = cursor[w].pid /\ cursor'[w].slot_no = n /\ cursor'[w].slot = slot
    <2>1. cursor = [v \in Workers |-> cursor[v]] /\ IsCursor(cursor[w])
        BY DEF TypeInv, SharedOK, CursorOK
    <2>2. cursor'[w] = [cursor[w] EXCEPT !.slot = slot]
        BY <1>5, <2>1
    <2> QED
        BY <1>2, <2>1, <2>2 DEF IsCursor
<1>7. n + 1 \in 1 .. MaxSlots
    BY <1>2, <1>4, HeapPageAssumption DEF Pages
<1>8. SlotsFall(p) /\ ScanOK(w)
    BY <1>1 DEF ScansInv, TypeInv, CursorOK
<1>9. \A r \in Rids : HoldsLock(w, r)' => NoneBehind(p, n, r.offset)
    BY <1>1, <1>2, <1>4, <1>6, <1>8 DEF ScanOK, HoldsLock
<1>10. ASSUME slot.slot_offset # 0
       PROVE  /\ NoneBehind(p, n, slot.slot_offset)
              /\ \A r \in Rids : HoldsLock(w, r)' => slot.slot_offset <= r.offset
    <2>1. \A s \in 1 .. MaxSlots : p.slots[s].slot_offset \in Nat
        BY PageNumbers
    <2>2. FreeEnd(p) <= slot.slot_offset
        BY <1>3, <1>7, <1>8, <1>10 DEF SlotsFall
    <2>3. ASSUME NEW s \in 1 .. MaxSlots, n < s, p.slots[s].slot_offset # 0
          PROVE  p.slots[s].slot_offset <= slot.slot_offset
        <3>1. CASE s = n + 1
            BY <1>3, <2>1, <3>1
        <3>2. CASE n + 1 < s
            BY <1>3, <1>7, <1>8, <1>10, <2>3, <3>2 DEF SlotsFall
        <3> QED
            BY <1>2, <2>3, <3>1, <3>2, HeapPageAssumption
    <2>4. NoneBehind(p, n, slot.slot_offset)
        BY <2>2, <2>3 DEF NoneBehind
    <2>5. ASSUME NEW r \in Rids, HoldsLock(w, r)'
          PROVE  slot.slot_offset <= r.offset
        BY <1>2, <1>3, <1>7, <1>9, <1>10, <2>5 DEF NoneBehind
    <2> QED
        BY <2>4, <2>5
<1>11. page'[cursor'[w].pid] = p
    BY <1>1, <1>4, <1>6
<1> QED
    BY <1>4, <1>6, <1>9, <1>10, <1>11 DEF ScanOK, InFlight, ScanPCs

\* The scan takes the lock of the row it has copied.
LEMMA LockRowInOrder ==
    ASSUME TypeInv, [Next]_vars, ScansInv, NEW w \in Workers, LockRow(w)
    PROVE  ScanOK(w)'
<1>1. PICK p : p = page[cursor[w].pid]
    OBVIOUS
<1>2. pc[w] = "lock" /\ pc'[w] = "scan" /\ UNCHANGED <<page, cursor>>
    BY WentTo DEF LockRow
<1>3. ScanOK(w)
    BY DEF ScansInv
<1>4. ASSUME NEW r \in Rids, HoldsLock(w, r)'
      PROVE  HoldsLock(w, r) \/ r = Rid(w)
    <2>1. owner \in [Rids -> Workers \cup {NoWorker}]
        BY DEF TypeInv, SharedOK
    <2>2. UNCHANGED owner \/ owner' = [owner EXCEPT ![Rid(w)] = w]
        BY DEF LockRow, Locks!Lock
    <2>3. owner'[r] = owner[r] \/ r = Rid(w)
        BY <2>1, <2>2
    <2> QED
        BY <1>2, <1>4, <2>3 DEF HoldsLock
<1>5. ASSUME NEW r \in Rids, HoldsLock(w, r)'
      PROVE  NoneBehind(p, cursor[w].slot_no, r.offset)
    <2>1. CASE HoldsLock(w, r)
        BY <1>1, <1>3, <2>1 DEF ScanOK
    <2>2. CASE r = Rid(w)
        <3>1. r.offset = cursor[w].slot.slot_offset /\ r.offset # 0
            BY <1>5, <2>2 DEF HoldsLock, Rid
        <3>2. InFlight(w)
            BY <1>2, <3>1 DEF InFlight
        <3> QED
            BY <1>1, <1>3, <3>1, <3>2 DEF ScanOK
    <2> QED
        BY <1>4, <1>5, <2>1, <2>2
<1> QED
    BY <1>1, <1>2, <1>5 DEF ScanOK, InFlight, ScanPCs

LEMMA ScannerStep ==
    ASSUME TypeInv, [Next]_vars, ScansInv, NEW w \in Workers, WorkerStep(w)
    PROVE  ScanOK(w)'
<1>1. ScanOK(w) /\ cursor[w].slot_no \in Nat
    BY PageNumbers, HeapPageAssumption DEF ScansInv, TypeInv, CursorOK, PagesOK
<1>2. ASSUME \A r \in Rids : owner'[r] # w, pc'[w] \notin {"read", "lock"}
      PROVE  ScanOK(w)'
    BY <1>2 DEF ScanOK, HoldsLock, InFlight
<1>3. ASSUME pc[w] \notin ScanPCs, UNCHANGED owner, pc'[w] \notin {"read", "lock"}
      PROVE  ScanOK(w)'
    BY <1>1, <1>2, <1>3 DEF ScanOK
<1>4. CASE (\E r \in DOMAIN Requests : Receive(w, r)) \/ Parse(w) \/ Create(w)
    BY <1>3, <1>4, WentTo DEF Receive, Parse, Create, ScanPCs
<1>5. CASE Reply(w)
    BY <1>2, <1>5, WentTo, StatementsAssumption DEF Reply, ReleaseLocks, Locks!UnlockAll
<1>6. CASE PlanInsert(w) \/ NextRow(w) \/ InsertDone(w)
    BY <1>3, <1>6, WentTo DEF PlanInsert, Throw, NextRow, InsertDone, ScanPCs
<1>7. CASE CountSlot(w) \/ TakeSpace(w)
    BY <1>3, <1>7, WentTo DEF CountSlot, TakeSpace, Refused, ScanPCs
<1>8. CASE PlaceSlot(w) \/ FillData(w) \/ Commit(w)
    BY <1>3, <1>8, WentTo DEF PlaceSlot, FillData, Commit, ScanPCs
<1>9. CASE PlanSelect(w)
    BY <1>3, <1>9, WentTo DEF PlanSelect, Throw, ScanPCs
<1>10. CASE ScanSlot(w)
    BY <1>10, ScanSlotInOrder
<1>11. CASE EndOfPage(w)
    <2>1. pc[w] = "scan" /\ pc'[w] = "reply" /\ UNCHANGED <<cursor, owner>>
        BY <1>11, WentTo DEF EndOfPage
    <2> QED
        BY <1>1, <2>1, ScanGoesOn DEF ScanPCs
<1>12. CASE ScanRow(w)
    <2>1. PICK r : r = ReadRow(page[cursor[w].pid], cursor[w].slot, ColumnTypesOf(stmt[w].table))
        OBVIOUS
    <2>2. /\ pc[w] = "read" /\ pc'[w] = "lock" /\ UNCHANGED owner
          /\ cursor' = [cursor EXCEPT ![w].slot_no = @ + 1, ![w].row = r]
        BY <1>12, <2>1, WentTo DEF ScanRow
    <2>3. /\ cursor'[w].pid = cursor[w].pid /\ cursor'[w].slot = cursor[w].slot
          /\ cursor'[w].slot_no = cursor[w].slot_no + 1
        BY <2>2, RowScanned
    <2>4. cursor'[w].slot_no \in Nat /\ cursor[w].slot_no <= cursor'[w].slot_no
        BY <1>1, <2>3
    <2> QED
        BY <1>1, <2>2, <2>3, <2>4, ScanGoesOn DEF ScanPCs
<1>13. CASE LockRow(w)
    BY <1>13, LockRowInOrder
<1> QED
    BY <1>4, <1>5, <1>6, <1>7, <1>8, <1>9, <1>10, <1>11, <1>12, <1>13 DEF WorkerStep, Insert, Select

LEMMA ScansStep ==
    ASSUME TypeInv, [Next]_vars, ScansInv
    PROVE  ScansInv'
<1>1. ASSUME NEW p \in Pids
      PROVE  SlotsFall(page'[p])
    <2>1. page[p] \in Pages /\ page'[p] \in Pages
        BY PagesStep DEF TypeInv, PagesOK
    <2>2. PageFalls(page[p], page'[p]) /\ SlotsFall(page[p])
        BY PagesFall DEF ScansInv
    <2> QED
        BY <2>1, <2>2, SlotsFallOn
<1>2. ASSUME NEW v \in Workers, pc'[v] = pc[v], cursor'[v] = cursor[v],
             \A r \in Rids : owner'[r] = v => owner[r] = v
      PROVE  ScanOK(v)'
    <2>1. ScanOK(v) /\ cursor[v].slot_no \in Nat
        BY PageNumbers, HeapPageAssumption DEF ScansInv, TypeInv, CursorOK, PagesOK
    <2> QED
        BY <1>2, <2>1, ScanGoesOn
<1>3. CASE UNCHANGED vars
    <2>1. UNCHANGED <<pc, cursor, owner>>
        BY <1>3 DEF vars, session
    <2> QED
        BY <1>1, <1>2, <2>1 DEF ScansInv
<1>4. CASE Next
    <2>1. PICK w \in Workers : WorkerStep(w)
        BY <1>4 DEF Next, WorkerStep
    <2>2. ASSUME NEW v \in Workers, v # w
          PROVE  ScanOK(v)'
        BY <1>2, <2>1, <2>2, OthersStay, LocksOfOthers DEF TypeInv
    <2>3. ScanOK(w)'
        BY <2>1, ScannerStep
    <2> QED
        BY <1>1, <2>2, <2>3 DEF ScansInv
<1> QED
    BY <1>3, <1>4

LEMMA ScansInit ==
    ASSUME Init
    PROVE  ScansInv
<1>1. \A p \in Pids : page[p] = ZeroPage
    BY DEF Init
<1>2. SlotsFall(ZeroPage)
    BY HeapPageAssumption DEF SlotsFall, ZeroPage, ZeroSlot
<1>3. \A r \in Rids : owner[r] = NoWorker
    BY DEF Init, Locks!Init
<1>4. ASSUME NEW w \in Workers
      PROVE  ScanOK(w)
    <2>1. \A r \in Rids : owner[r] # w
        BY <1>3, StatementsAssumption
    <2>2. pc[w] = "idle"
        BY DEF Init
    <2> QED
        BY <2>1, <2>2, NothingHeld
<1> QED
    BY <1>1, <1>2, <1>4 DEF ScansInv

\* A scan locks the rows that have been placed from the end of the payload on and never one
\* behind a row it holds, however many workers insert at the same time: what is placed
\* later lies before it, and the locks of the statement before are given back
\* (heap_scan::scan, heap_write, ReleaseLockFromLockTable).
THEOREM LocksInOrder ==
    Spec => []ScanLocksInOrder
<1>1. Init => TypeInv /\ ScansInv
    BY TypeInit, ScansInit
<1>2. TypeInv /\ ScansInv /\ [Next]_vars => (TypeInv /\ ScansInv)'
    BY TypeStep, ScansStep
<1>3. ScansInv => ScanLocksInOrder
    <2> SUFFICES ASSUME ScansInv, NEW w \in Workers, pc[w] = "lock", Rid(w).offset # 0,
                        NEW r \in Rids, owner[r] = w, r.pid = Rid(w).pid, r.offset # 0
                 PROVE  r.offset >= Rid(w).offset
        BY DEF ScanLocksInOrder
    <2>1. ScanOK(w) /\ Rid(w).pid = cursor[w].pid /\ Rid(w).offset = cursor[w].slot.slot_offset
        BY DEF ScansInv, Rid
    <2>2. InFlight(w) /\ HoldsLock(w, r)
        BY <2>1 DEF InFlight, HoldsLock
    <2>3. cursor[w].slot.slot_offset <= r.offset
        BY <2>1, <2>2 DEF ScanOK
    <2> QED
        BY <2>1, <2>3
<1> QED
    BY <1>1, <1>2, <1>3, PTL DEF Spec

\* Scans are on the first page, and stay there.
OnFirstPage(w) == pc[w] \notin InsertPCs \cup {"reply"} => cursor[w].pid = 0

LEMMA FirstPageStep ==
    ASSUME TypeInv, [Next]_vars, \A w \in Workers : OnFirstPage(w)
    PROVE  \A w \in Workers : OnFirstPage(w)'
<1>1. CASE UNCHANGED vars
    BY <1>1 DEF vars, session, OnFirstPage
<1>2. CASE Next
    <2>1. PICK w \in Workers : WorkerStep(w)
        BY <1>2 DEF Next, WorkerStep
    <2>2. \A v \in Workers \ {w} : OnFirstPage(v)'
        BY <2>1, OthersStay DEF TypeInv, OnFirstPage
    <2>3. ASSUME pc[w] \notin InsertPCs \cup {"reply"}, UNCHANGED cursor
          PROVE  OnFirstPage(w)'
        BY <2>3 DEF OnFirstPage
    <2>4. ASSUME pc'[w] \in InsertPCs \cup {"reply"}
          PROVE  OnFirstPage(w)'
        BY <2>4 DEF OnFirstPage
    <2>5. OnFirstPage(w)'
        <3>1. CASE (\E r \in DOMAIN Requests : Receive(w, r)) \/ Parse(w) \/ Create(w)
            BY <2>3, <3>1 DEF Receive, Parse, Create, InsertPCs
        <3>2. CASE Reply(w)
            <4>1. cursor'[w] = NoCursor
                BY <3>2, WentTo DEF Reply
            <4> QED
                BY <4>1 DEF OnFirstPage, NoCursor
        <3>3. CASE Insert(w)
            BY <2>4, <3>3, WentTo DEF Insert, PlanInsert, Throw, NextRow, InsertDone, CountSlot, TakeSpace,
                                      PlaceSlot, FillData, Commit, Refused, InsertPCs
        <3>4. CASE PlanSelect(w) \/ LockRow(w) \/ EndOfPage(w)
            BY <2>3, <3>4 DEF PlanSelect, Throw, LockRow, EndOfPage, InsertPCs
        <3>5. CASE ScanSlot(w)
            <4>1. pc[w] = "scan"
                BY <3>5 DEF ScanSlot
            <4>2. PICK s : cursor' = [cursor EXCEPT ![w].slot = s]
                BY <3>5 DEF ScanSlot
            <4>3. cursor = [v \in Workers |-> cursor[v]] /\ IsCursor(cursor[w])
                BY DEF TypeInv, SharedOK, CursorOK
            <4>4. cursor'[w] = [cursor[w] EXCEPT !.slot = s]
                BY <4>2, <4>3
            <4>5. cursor'[w].pid = cursor[w].pid
                BY <4>3, <4>4 DEF IsCursor
            <4> QED
                BY <4>1, <4>5 DEF OnFirstPage, InsertPCs
        <3>6. CASE ScanRow(w)
            <4>1. PICK r : r = ReadRow(page[cursor[w].pid], cursor[w].slot, ColumnTypesOf(stmt[w].table))
                OBVIOUS
            <4>2. pc[w] = "read" /\ cursor' = [cursor EXCEPT ![w].slot_no = @ + 1, ![w].row = r]
                BY <3>6, <4>1 DEF ScanRow
            <4>3. cursor'[w].pid = cursor[w].pid
                BY <4>2, RowScanned
            <4> QED
                BY <4>2, <4>3 DEF OnFirstPage, InsertPCs
        <3> QED
            BY <2>1, <3>1, <3>2, <3>3, <3>4, <3>5, <3>6 DEF WorkerStep, Select
    <2> QED
        BY <2>2, <2>5
<1> QED
    BY <1>1, <1>2

\* Of some numbers one is the least.
LEMMA LeastNumber ==
    ASSUME NEW T \in SUBSET Nat, T # {}
    PROVE  \E m \in T : \A k \in T : m <= k
<1> DEFINE R == {p \in Nat \X Nat : p[1] < p[2]}
<1>1. IsWellFoundedOn(R, Nat)
    BY NatLessThanWellFounded, Zenon DEF OpToRel
<1>2. PICK m \in T : \A k \in T : <<k, m>> \notin R
    <2> HIDE DEF R
    <2> QED
        BY <1>1, WFMin
<1>3. ASSUME NEW k \in T
      PROVE  m <= k
    <2>1. <<k, m>> \notin R /\ k \in Nat /\ m \in Nat
        BY <1>2
    <2>2. ~(k < m)
        BY <2>1
    <2> QED
        BY <2>1, <2>2
<1> QED
    BY <1>3

\* Scans that wait for rows that each other have locked.
ScanCycle(S) == S # {} /\ \A w \in S : Waiting(w) /\ owner[Rid(w)] \in S

\* Whatever scans wait for each other for ever, one of them waits for a slot that is counted
\* and not yet placed: rows that have been placed never bring a deadlock about, although
\* nothing orders the scans (heap_scan::scan, LockManager::lock, heap_write).
THEOREM PlacedRowsBringNoDeadlock ==
    Spec => [](\A S \in SUBSET Workers : ScanCycle(S) => \E w \in S : Rid(w).offset = 0)
<1> DEFINE Inv == TypeInv /\ ScansInv /\ \A w \in Workers : OnFirstPage(w)
           Claim == \A S \in SUBSET Workers : ScanCycle(S) => \E w \in S : Rid(w).offset = 0
<1>1. Init => Inv
    BY TypeInit, ScansInit DEF Init, OnFirstPage, NoCursor
<1>2. Inv /\ [Next]_vars => Inv'
    BY TypeStep, ScansStep, FirstPageStep
<1>3. Inv => Claim
    <2> SUFFICES ASSUME Inv, NEW S \in SUBSET Workers, ScanCycle(S), \A w \in S : Rid(w).offset # 0
                 PROVE  FALSE
        OBVIOUS
    <2>1. \A w \in S : pc[w] = "lock" /\ owner[Rid(w)] # w /\ owner[Rid(w)] \in S
        BY DEF ScanCycle, Waiting
    <2>2. \A w \in S : Rid(w) \in Rids /\ Rid(w).pid = 0 /\ Rid(w).offset \in Nat
        <3> SUFFICES ASSUME NEW w \in S
                     PROVE  Rid(w) \in Rids /\ Rid(w).pid = 0 /\ Rid(w).offset \in Nat
            OBVIOUS
        <3>1. cursor[w].pid \in Pids /\ cursor[w].slot \in Slots
            BY DEF TypeInv, CursorOK
        <3>2. cursor[w].pid = 0
            BY <2>1 DEF OnFirstPage, InsertPCs
        <3> QED
            BY <3>1, <3>2, HeapPageAssumption DEF Rid, Rids, Slots
    <2>3. PICK w \in S : \A v \in S : Rid(w).offset <= Rid(v).offset
        <3> DEFINE T == {Rid(v).offset : v \in S}
        <3>1. T \in SUBSET Nat /\ T # {}
            BY <2>2 DEF ScanCycle
        <3>2. PICK m \in T : \A k \in T : m <= k
            BY <3>1, LeastNumber
        <3> QED
            BY <3>2
    <2>4. PICK v \in S : v = owner[Rid(w)]
        BY <2>1
    <2>5. ScanOK(v) /\ InFlight(v) /\ HoldsLock(v, Rid(w))
        BY <2>1, <2>2, <2>4 DEF ScansInv, InFlight, HoldsLock, Rid
    <2>6. Rid(v).offset <= Rid(w).offset
        BY <2>2, <2>5 DEF ScanOK, Rid
    <2>7. Rid(v).offset = Rid(w).offset /\ Rid(v).pid = Rid(w).pid
        BY <2>2, <2>3, <2>6
    <2>8. Rid(v) = Rid(w)
        BY <2>7 DEF Rid
    <2> QED
        BY <2>1, <2>4, <2>8
<1> HIDE DEF Inv, Claim
<1>4. Spec => []Claim
    BY <1>1, <1>2, <1>3, PTL DEF Spec
<1> QED
    BY <1>4 DEF Claim
=============================================================================
