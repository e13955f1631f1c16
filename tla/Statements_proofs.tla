------------------------- MODULE Statements_proofs -------------------------
(***************************************************************************)
(* What the catalog and the parser promise to the statements, for every    *)
(* set of workers, statements and names: a table that is found stays       *)
(* found, with the columns it has; what an INSERT is parsed to are rows of *)
(* values, whatever its text and whatever the catalog has become.          *)
(***************************************************************************)
EXTENDS Statements, HeapPage_proofs

\* The catalog is a sequence of schemas, each with a sequence of tables.
IsCatalog(c) ==
    /\ \E S : c \in Seq(S)
    /\ \A i \in DOMAIN c :
          /\ c[i] = [schema_name |-> c[i].schema_name, tables |-> c[i].tables]
          /\ \E T : c[i].tables \in Seq(T)

CatalogInv == IsCatalog(catalog)

-----------------------------------------------------------------------------
(* Lookups.                                                                *)

\* The least index that a loop stops at.
LEMMA LeastIndex ==
    ASSUME NEW n \in Nat, NEW I, I \subseteq 1 .. n, I # {}
    PROVE  Min(I) \in I /\ \A j \in I : Min(I) <= j
<1>1. I \subseteq Nat
    OBVIOUS
<1> DEFINE R == {p \in Nat \X Nat : p[1] < p[2]}
<1>2. IsWellFoundedOn(R, Nat)
    BY NatLessThanWellFounded, Zenon DEF OpToRel
<1>3. \E m \in I : \A j \in I : <<j, m>> \notin R
    <2> HIDE DEF R
    <2> QED
        BY <1>1, <1>2, WFMin
<1>4. PICK m \in I : \A j \in I : <<j, m>> \notin R
    BY <1>3
<1>5. \A j \in I : m <= j
    <2> SUFFICES ASSUME NEW j \in I
                 PROVE  m <= j
        OBVIOUS
    <2>1. j \in Nat /\ m \in Nat
        BY <1>1
    <2>2. j < m => <<j, m>> \in R
        BY <2>1
    <2> QED
        BY <1>4, <2>1, <2>2
<1> QED
    BY <1>5 DEF Min

\* A schema is found exactly when one has the name, and then it is the first.
LEMMA FindSchemaFirst ==
    ASSUME NEW c, IsCatalog(c), NEW s
    PROVE  \/ /\ FindSchema(c, s) = NotFound
              /\ \A i \in 1 .. Len(c) : c[i].schema_name # s
           \/ \E i \in 1 .. Len(c) :
                 /\ FindSchema(c, s) = <<c[i]>>
                 /\ c[i].schema_name = s
                 /\ \A j \in 1 .. i - 1 : c[j].schema_name # s
<1> DEFINE I == {i \in 1 .. Len(c) : c[i].schema_name = s}
<1>1. Len(c) \in Nat
    BY DEF IsCatalog
<1>2. FindSchema(c, s) = IF (IF I # {} THEN Min(I) ELSE 0) = 0 THEN NotFound
                         ELSE <<c[IF I # {} THEN Min(I) ELSE 0]>>
    BY DEF FindSchema, EntryAt, SelectInSeq
<1>3. CASE I = {}
    BY <1>2, <1>3
<1>4. CASE I # {}
    <2>1. Min(I) \in I /\ \A j \in I : Min(I) <= j
        BY <1>1, <1>4, LeastIndex
    <2>2. FindSchema(c, s) = <<c[Min(I)]>>
        <3>1. Min(I) # 0
            BY <1>1, <2>1
        <3> HIDE DEF I
        <3> QED
            BY <1>2, <1>4, <3>1, Zenon
    <2>3. \A j \in 1 .. Min(I) - 1 : j \in 1 .. Len(c) /\ ~(Min(I) <= j)
        BY <1>1, <2>1
    <2> QED
        BY <2>1, <2>2, <2>3
<1> QED
    BY <1>3, <1>4

\* The same for a table, in the schema that is found.
LEMMA FindTableFirst ==
    ASSUME NEW c, NEW s, NEW t, NEW x,
           FindSchema(c, s) = <<x>>, Len(x.tables) \in Nat
    PROVE  \/ /\ FindTable(c, s, t) = NotFound
              /\ \A i \in 1 .. Len(x.tables) : x.tables[i].table_name # t
           \/ \E i \in 1 .. Len(x.tables) :
                 /\ FindTable(c, s, t) = <<x.tables[i]>>
                 /\ x.tables[i].table_name = t
                 /\ \A j \in 1 .. i - 1 : x.tables[j].table_name # t
<1> DEFINE n == Len(x.tables)
           I == {i \in 1 .. n : x.tables[i].table_name = t}
<1>1. n \in Nat
    OBVIOUS
<1>2. FindTable(c, s, t) = IF (IF I # {} THEN Min(I) ELSE 0) = 0 THEN NotFound
                           ELSE <<x.tables[IF I # {} THEN Min(I) ELSE 0]>>
    BY DEF FindTable, EntryAt, SelectInSeq, NotFound
<1>3. CASE I = {}
    BY <1>2, <1>3
<1>4. CASE I # {}
    <2>1. Min(I) \in I /\ \A j \in I : Min(I) <= j
        BY <1>1, <1>4, LeastIndex
    <2>2. FindTable(c, s, t) = <<x.tables[Min(I)]>>
        <3>1. Min(I) # 0
            BY <1>1, <2>1
        <3> HIDE DEF I
        <3> QED
            BY <1>2, <1>4, <3>1, Zenon
    <2>3. \A j \in 1 .. Min(I) - 1 : j \in 1 .. n /\ ~(Min(I) <= j)
        BY <1>1, <2>1
    <2> QED
        BY <2>1, <2>2, <2>3
<1> QED
    BY <1>3, <1>4

-----------------------------------------------------------------------------
(* Growth: later entries never come before earlier ones.                   *)

\* Catalog d holds what c holds, in the same places, and perhaps more behind it.
Grown(c, d) ==
    /\ Len(c) <= Len(d)
    /\ \A i \in 1 .. Len(c) :
          /\ d[i].schema_name = c[i].schema_name
          /\ Len(c[i].tables) <= Len(d[i].tables)
          /\ \A k \in 1 .. Len(c[i].tables) : d[i].tables[k] = c[i].tables[k]

\* A found table stays found when the catalog grows.
LEMMA GrownKeepsTables ==
    ASSUME NEW c, NEW d, IsCatalog(c), IsCatalog(d), Grown(c, d),
           NEW s, NEW t, FindTable(c, s, t) # NotFound
    PROVE  FindTable(d, s, t) = FindTable(c, s, t)
<1>1. Len(c) \in Nat /\ Len(d) \in Nat
    BY DEF IsCatalog
<1>2. FindSchema(c, s) # NotFound
    BY DEF FindTable
<1>3. PICK i \in 1 .. Len(c) : /\ FindSchema(c, s) = <<c[i]>>
                               /\ c[i].schema_name = s
                               /\ \A j \in 1 .. i - 1 : c[j].schema_name # s
    BY <1>2, FindSchemaFirst
<1>4. i \in 1 .. Len(d) /\ d[i].schema_name = s
    BY <1>1, <1>3 DEF Grown
<1>5. PICK h \in 1 .. Len(d) : /\ FindSchema(d, s) = <<d[h]>>
                               /\ d[h].schema_name = s
                               /\ \A j \in 1 .. h - 1 : d[j].schema_name # s
    BY <1>4, FindSchemaFirst
<1>6. h = i
    <2>1. ~(i < h)
        BY <1>1, <1>4, <1>5
    <2>2. ~(h < i)
        <3> SUFFICES ASSUME h < i PROVE FALSE
            OBVIOUS
        <3>1. h \in 1 .. i - 1 /\ h \in 1 .. Len(c)
            BY <1>1
        <3>2. c[h].schema_name = s
            BY <1>5, <3>1 DEF Grown
        <3> QED
            BY <1>3, <3>1, <3>2
    <2> QED
        BY <1>1, <2>1, <2>2
<1>7. /\ \E T : c[i].tables \in Seq(T)
      /\ \E T : d[i].tables \in Seq(T)
    BY <1>1, <1>4 DEF IsCatalog
<1>8. /\ Len(c[i].tables) \in Nat
      /\ Len(d[i].tables) \in Nat
      /\ Len(c[i].tables) <= Len(d[i].tables)
    BY <1>7 DEF Grown
<1>9. PICK k \in 1 .. Len(c[i].tables) :
           /\ FindTable(c, s, t) = <<c[i].tables[k]>>
           /\ c[i].tables[k].table_name = t
           /\ \A j \in 1 .. k - 1 : c[i].tables[j].table_name # t
    <2>1. PICK T : c[i].tables \in Seq(T)
        BY <1>7
    <2>2. PICK x : x = c[i]
        OBVIOUS
    <2>3. FindSchema(c, s) = <<x>> /\ Len(x.tables) \in Nat
        BY <1>3, <2>1, <2>2
    <2>4. \E k \in 1 .. Len(x.tables) :
             /\ FindTable(c, s, t) = <<x.tables[k]>>
             /\ x.tables[k].table_name = t
             /\ \A j \in 1 .. k - 1 : x.tables[j].table_name # t
        <3>1. \/ /\ FindTable(c, s, t) = NotFound
                 /\ \A j \in 1 .. Len(x.tables) : x.tables[j].table_name # t
              \/ \E j \in 1 .. Len(x.tables) :
                    /\ FindTable(c, s, t) = <<x.tables[j]>>
                    /\ x.tables[j].table_name = t
                    /\ \A q \in 1 .. j - 1 : x.tables[q].table_name # t
            BY <2>3, FindTableFirst
        <3> QED
            BY <2>3, <3>1, Zenon
    <2> QED
        BY <2>2, <2>4
<1>10. k \in 1 .. Len(d[i].tables) /\ d[i].tables[k] = c[i].tables[k]
    BY <1>8 DEF Grown
<1>11. PICK m \in 1 .. Len(d[i].tables) :
           /\ FindTable(d, s, t) = <<d[i].tables[m]>>
           /\ d[i].tables[m].table_name = t
           /\ \A j \in 1 .. m - 1 : d[i].tables[j].table_name # t
    <2>1. PICK T : d[i].tables \in Seq(T)
        BY <1>7
    <2>2. FindSchema(d, s) = <<d[i]>>
        BY <1>5, <1>6
    <2>3. d[i].tables[k].table_name = t
        BY <1>9, <1>10
    <2>4. PICK x : x = d[i]
        OBVIOUS
    <2>5. FindSchema(d, s) = <<x>> /\ Len(x.tables) \in Nat
        BY <2>1, <2>2, <2>4
    <2>6. \E m \in 1 .. Len(x.tables) : x.tables[m].table_name = t
        BY <1>10, <2>3, <2>4
    <2>7. \E m \in 1 .. Len(x.tables) :
             /\ FindTable(d, s, t) = <<x.tables[m]>>
             /\ x.tables[m].table_name = t
             /\ \A j \in 1 .. m - 1 : x.tables[j].table_name # t
        <3>1. \/ /\ FindTable(d, s, t) = NotFound
                 /\ \A j \in 1 .. Len(x.tables) : x.tables[j].table_name # t
              \/ \E j \in 1 .. Len(x.tables) :
                    /\ FindTable(d, s, t) = <<x.tables[j]>>
                    /\ x.tables[j].table_name = t
                    /\ \A q \in 1 .. j - 1 : x.tables[q].table_name # t
            BY <2>5, FindTableFirst, SMTT(60)
        <3> QED
            BY <2>5, <2>6, <3>1, Zenon
    <2> QED
        BY <2>4, <2>7
<1>12. m = k
    <2>1. ~(k < m)
        <3> SUFFICES ASSUME k < m PROVE FALSE
            OBVIOUS
        <3>1. k \in 1 .. m - 1
            BY <1>8
        <3> QED
            BY <1>9, <1>10, <1>11, <3>1
    <2>2. ~(m < k)
        <3> SUFFICES ASSUME m < k PROVE FALSE
            OBVIOUS
        <3>1. m \in 1 .. k - 1 /\ m \in 1 .. Len(c[i].tables)
            BY <1>8
        <3>2. d[i].tables[m] = c[i].tables[m]
            BY <3>1 DEF Grown
        <3> QED
            BY <1>9, <1>11, <3>1, <3>2
    <2> QED
        BY <1>8, <2>1, <2>2
<1> QED
    BY <1>9, <1>10, <1>11, <1>12

\* CREATE SCHEMA puts an empty schema behind the others.
LEMMA CreateSchemaGrows ==
    ASSUME NEW c, IsCatalog(c), NEW ast
    PROVE  IsCatalog(create_schema(c, ast)) /\ Grown(c, create_schema(c, ast))
<1> DEFINE e == [schema_name |-> ast.schema_name, tables |-> << >>]
           d == Append(c, e)
<1>1. create_schema(c, ast) = d
    BY DEF create_schema
<1>2. PICK S : c \in Seq(S)
    BY DEF IsCatalog
<1>3. c \in Seq(S \cup {e})
    BY <1>2
<1>4. /\ d \in Seq(S \cup {e})
      /\ Len(d) = Len(c) + 1
      /\ \A i \in 1 .. Len(c) : d[i] = c[i]
      /\ d[Len(c) + 1] = e
    BY <1>3
<1>5. /\ Len(c) \in Nat
      /\ DOMAIN c = 1 .. Len(c)
      /\ DOMAIN d = 1 .. Len(d)
    BY <1>2, <1>4
<1>6. e = [schema_name |-> e.schema_name, tables |-> e.tables] /\ e.tables \in Seq({})
    OBVIOUS
<1> HIDE DEF e, d
<1>7. ASSUME NEW i \in DOMAIN d
      PROVE  /\ d[i] = [schema_name |-> d[i].schema_name, tables |-> d[i].tables]
             /\ \E T : d[i].tables \in Seq(T)
    <2>1. CASE i \in 1 .. Len(c)
        BY <1>4, <1>5, <2>1 DEF IsCatalog
    <2>2. CASE i = Len(c) + 1
        BY <1>4, <1>6, <2>2
    <2> QED
        BY <1>4, <1>5, <2>1, <2>2
<1>8. IsCatalog(d)
    BY <1>4, <1>7 DEF IsCatalog
<1>9. ASSUME NEW i \in 1 .. Len(c)
      PROVE  Len(c[i].tables) \in Nat
    <2>1. \E T : c[i].tables \in Seq(T)
        BY <1>5 DEF IsCatalog
    <2> QED
        BY <2>1
<1>10. Grown(c, d)
    BY <1>4, <1>5, <1>9 DEF Grown
<1> QED
    BY <1>1, <1>8, <1>10

\* CREATE TABLE puts a table behind the others of each schema of the name.
LEMMA CreateTableGrows ==
    ASSUME NEW c, IsCatalog(c), NEW s, NEW ast
    PROVE  IsCatalog(schema_create_table(c, s, ast)) /\ Grown(c, schema_create_table(c, s, ast))
<1> DEFINE table == [table_name |-> ast.table_name, columns |-> ast.columns]
           Entry(i) == IF c[i].schema_name = s
                       THEN [c[i] EXCEPT !.tables = Append(@, table)] ELSE c[i]
           d == [i \in DOMAIN c |-> Entry(i)]
<1>1. schema_create_table(c, s, ast) = d
    BY DEF schema_create_table
<1>2. PICK S : c \in Seq(S)
    BY DEF IsCatalog
<1>3. Len(c) \in Nat /\ DOMAIN c = 1 .. Len(c)
    BY <1>2
<1>4. /\ d \in Seq({Entry(i) : i \in 1 .. Len(c)})
      /\ Len(d) = Len(c)
      /\ DOMAIN d = 1 .. Len(c)
    <2> HIDE DEF Entry
    <2>1. \A i \in 1 .. Len(c) : Entry(i) \in {Entry(j) : j \in 1 .. Len(c)}
        OBVIOUS
    <2>2. d \in [1 .. Len(c) -> {Entry(i) : i \in 1 .. Len(c)}]
        BY <1>3, <2>1
    <2> HIDE DEF d
    <2> QED
        BY <1>3, <2>2
<1>5. \A i \in 1 .. Len(c) : d[i] = Entry(i)
    <2> HIDE DEF Entry
    <2> QED
        BY <1>3
<1>6. ASSUME NEW i \in 1 .. Len(c)
      PROVE  /\ d[i] = [schema_name |-> d[i].schema_name, tables |-> d[i].tables]
             /\ \E T : d[i].tables \in Seq(T)
             /\ d[i].schema_name = c[i].schema_name
             /\ Len(c[i].tables) <= Len(d[i].tables)
             /\ \A k \in 1 .. Len(c[i].tables) : d[i].tables[k] = c[i].tables[k]
    <2>1. c[i] = [schema_name |-> c[i].schema_name, tables |-> c[i].tables]
        BY <1>3 DEF IsCatalog
    <2>2. PICK T : c[i].tables \in Seq(T)
        BY <1>3 DEF IsCatalog
    <2> DEFINE longer == Append(c[i].tables, table)
    <2>3. /\ longer \in Seq(T \cup {table})
          /\ Len(c[i].tables) \in Nat
          /\ Len(longer) = Len(c[i].tables) + 1
          /\ \A k \in 1 .. Len(c[i].tables) : longer[k] = c[i].tables[k]
        <3>1. c[i].tables \in Seq(T \cup {table})
            BY <2>2
        <3> QED
            BY <3>1
    <2>4. CASE c[i].schema_name = s
        <3>1. d[i] = [c[i] EXCEPT !.tables = longer]
            BY <1>5, <2>4
        <3>2. d[i] = [schema_name |-> c[i].schema_name, tables |-> longer]
            <4> HIDE DEF longer, d
            <4> QED
                BY <2>1, <3>1
        <3> HIDE DEF longer, d
        <3> QED
            BY <2>3, <3>2
    <2>5. CASE c[i].schema_name # s
        <3>1. d[i] = c[i]
            BY <1>5, <2>5
        <3> HIDE DEF d
        <3> QED
            BY <2>1, <2>2, <2>3, <3>1
    <2> QED
        BY <2>4, <2>5
<1> HIDE DEF d
<1>7. IsCatalog(d)
    BY <1>4, <1>6 DEF IsCatalog
<1>8. Grown(c, d)
    <2>1. Len(c) <= Len(d)
        BY <1>3, <1>4
    <2>2. \A i \in 1 .. Len(c) :
             /\ d[i].schema_name = c[i].schema_name
             /\ Len(c[i].tables) <= Len(d[i].tables)
             /\ \A k \in 1 .. Len(c[i].tables) : d[i].tables[k] = c[i].tables[k]
        BY <1>6, Zenon
    <2> QED
        BY <2>1, <2>2, Zenon DEF Grown
<1> QED
    BY <1>1, <1>7, <1>8

-----------------------------------------------------------------------------
(* The specification.                                                      *)

\* Every step leaves the catalog alone but Create.
LEMMA CatalogStep ==
    ASSUME CatalogInv, [Next]_vars
    PROVE  CatalogInv' /\ Grown(catalog, catalog')
<1>1. CASE UNCHANGED catalog
    <2>1. \A i \in 1 .. Len(catalog) : Len(catalog[i].tables) \in Nat
        <3> SUFFICES ASSUME NEW i \in 1 .. Len(catalog)
                     PROVE  Len(catalog[i].tables) \in Nat
            OBVIOUS
        <3>1. \E T : catalog[i].tables \in Seq(T)
            BY DEF CatalogInv, IsCatalog
        <3> QED
            BY <3>1
    <2>2. Len(catalog) \in Nat
        BY DEF CatalogInv, IsCatalog
    <2>3. Grown(catalog, catalog)
        BY <2>1, <2>2 DEF Grown
    <2> QED
        BY <1>1, <2>3 DEF CatalogInv
<1>2. CASE \E w \in Workers : Create(w)
    <2>1. PICK w \in Workers : Create(w)
        BY <1>2
    <2>2. CASE catalog' = create_schema(catalog, stmt[w].ast)
        BY <2>2, CreateSchemaGrows DEF CatalogInv
    <2>3. CASE catalog' = schema_create_table(catalog, Request(w).schema_name, stmt[w].ast)
        BY <2>3, CreateTableGrows DEF CatalogInv
    <2> QED
        BY <2>1, <2>2, <2>3 DEF Create
<1>3. CASE UNCHANGED vars
    BY <1>1, <1>3 DEF vars
<1>4. CASE Next
    <2>1. PICK w \in Workers : \/ \E r \in DOMAIN Requests : Receive(w, r)
                               \/ Parse(w) \/ Create(w) \/ Reply(w)
                               \/ Insert(w)
                               \/ Select(w)
        BY <1>4 DEF Next
    <2>2. CASE \E r \in DOMAIN Requests : Receive(w, r)
        BY <1>1, <2>2 DEF Receive
    <2>3. CASE Parse(w)
        BY <1>1, <2>3 DEF Parse
    <2>4. CASE Create(w)
        BY <1>2, <2>4
    <2>5. CASE Reply(w)
        BY <1>1, <2>5 DEF Reply
    <2>6. CASE Insert(w)
        BY <1>1, <2>6 DEF Insert, PlanInsert, Throw, NextRow, InsertDone, CountSlot, TakeSpace,
                          PlaceSlot, FillData, Commit
    <2>7. CASE Select(w)
        BY <1>1, <2>7 DEF Select, PlanSelect, Throw, ScanSlot, EndOfPage, ScanRow, LockRow
    <2> QED
        BY <2>1, <2>2, <2>3, <2>4, <2>5, <2>6, <2>7
<1> QED
    BY <1>3, <1>4

\* The catalog is always a sequence of schemas with their tables (schema_catalog).
THEOREM CatalogShape == Spec => []CatalogInv
<1>1. Init => CatalogInv
    BY DEF Init, CatalogInv, IsCatalog
<1>2. CatalogInv /\ [Next]_vars => CatalogInv'
    BY CatalogStep
<1> QED
    BY <1>1, <1>2, PTL DEF Spec

\* LookupsStable: whatever is created, a table that statements have found is found
\* again with the columns it had (entity_find, create_schema, schema_create_table).
THEOREM LookupsAreStable == Spec => LookupsStable
<1> DEFINE Names == {c.table_name : c \in UNION {Range(x.tables) : x \in Range(catalog)}}
                       \cup {x.schema_name : x \in Range(catalog)}
           Keeps == \A s, t \in Names :
                       FindTable(catalog, s, t) # NotFound => FindTable(catalog', s, t) = FindTable(catalog, s, t)
<1>1. CatalogInv /\ [Next]_vars => Keeps
    <2> HIDE DEF Names
    <2> QED
        BY CatalogStep, GrownKeepsTables DEF CatalogInv
<1>2. CatalogInv /\ [Next]_vars => [Keeps]_vars
    BY <1>1
<1>3. Spec => []CatalogInv
    BY CatalogShape
<1>4. LookupsStable <=> [][Keeps]_vars
    BY DEF LookupsStable
<1> HIDE DEF Keeps
<1> QED
    BY <1>2, <1>3, <1>4, PTL DEF Spec

-----------------------------------------------------------------------------
(* Tables.                                                                 *)

\* What CREATE TABLE makes has columns.
IsTable(table) == IsList(table.columns) /\ Len(table.columns) # 0

\* CREATE TABLE is parsed to a table with columns, and nothing else is to one.
LEMMA ParsedTable ==
    ASSUME NEW tokens, NEW c, NEW s,
           grammer_check(tokens, c, s).kind = "table"
    PROVE  IsTable(grammer_check(tokens, c, s))
<1> DEFINE ast == grammer_check(tokens, c, s)
<1>1. \/ ast = parse_select_clause(tokens, c, s)
      \/ ast = parse_insert_clause(tokens, c, s)
      \/ ast = parse_cschema_clause(tokens)
      \/ ast = parse_ctable_clause(tokens)
      \/ ast = Rejected
    BY DEF grammer_check
<1> HIDE DEF ast
<1>2. ast.kind = "table"
    BY DEF ast
<1>3. ast # Rejected
    BY <1>2 DEF Rejected
<1>4. ast # parse_select_clause(tokens, c, s)
    <2>1. \E b, cols, t, p : parse_select_clause(tokens, c, s) =
             IF b THEN [kind |-> "select", cols_name |-> cols, table_name |-> t, predicate |-> p]
             ELSE Rejected
        BY Zenon DEF parse_select_clause
    <2> QED
        BY <1>2, <1>3, <2>1
<1>5. ast # parse_insert_clause(tokens, c, s)
    <2>1. \E b, t, v : parse_insert_clause(tokens, c, s) =
             IF b THEN [kind |-> "insert", table_name |-> t, values |-> v] ELSE Rejected
        BY Zenon DEF parse_insert_clause
    <2> QED
        BY <1>2, <1>3, <2>1
<1>6. ast # parse_cschema_clause(tokens)
    BY <1>2, <1>3 DEF parse_cschema_clause
<1>7. ast = parse_ctable_clause(tokens)
    BY <1>1, <1>3, <1>4, <1>5, <1>6
<1>8. PICK n \in Nat \ {0} : /\ DOMAIN ast.columns = 1 .. n
                             /\ ast.columns = [j \in 1 .. n |-> ast.columns[j]]
    <2> DEFINE At(i) == IF i <= Len(tokens) THEN tokens[i] ELSE [token_type |-> "", token_value |-> ""]
               Column(j) == At(2 + 3 * j)
               Type(j) == At(3 + 3 * j).token_value
               Separator(j) == At(4 + 3 * j).token_value
               IsColumns(n) == /\ Separator(n) = ")"
                               /\ \A j \in 1 .. n : /\ Column(j).token_type = "IDENT"
                                                    /\ Type(j) \in DOMAIN TypeNames
                                                    /\ j < n => Separator(j) = ","
               lengths == {n \in 1 .. Len(tokens) : IsColumns(n)}
               Entry(j) == [column_name |-> Column(j).token_value, column_type |-> TypeNames[Type(j)]]
               columns == [j \in 1 .. (CHOOSE n \in lengths : TRUE) |-> Entry(j)]
    <2>1. ast = IF At(3).token_type = "IDENT" /\ At(4).token_value = "(" /\ lengths # {}
                THEN [kind |-> "table", table_name |-> At(3).token_value, columns |-> columns]
                ELSE Rejected
        BY <1>7, Zenon DEF parse_ctable_clause
    <2> HIDE DEF Entry, IsColumns
    <2>2. lengths # {} => (CHOOSE n \in lengths : TRUE) \in Nat \ {0}
        OBVIOUS
    <2> HIDE DEF At, lengths
    <2>3. lengths # {} /\ ast.columns = columns
        <3> HIDE DEF columns
        <3> QED
            BY <1>3, <2>1
    <2>4. PICK n \in Nat \ {0} : n = (CHOOSE m \in lengths : TRUE)
        BY <2>2, <2>3
    <2>5. columns = [j \in 1 .. n |-> Entry(j)]
        BY <2>4
    <2> HIDE DEF columns
    <2> QED
        BY <2>3, <2>5
<1>9. IsTable(ast)
    <2> DEFINE T == {ast.columns[j] : j \in 1 .. n}
    <2>1. ast.columns \in [1 .. n -> T]
        BY <1>8
    <2> HIDE DEF T
    <2>2. ast.columns \in Seq(T) /\ Len(ast.columns) = n
        BY <1>8, <2>1
    <2> QED
        BY <2>2 DEF IsTable, IsList
<1> QED
    BY <1>9 DEF ast

\* A table that is found has columns.
LEMMA FoundTable ==
    ASSUME NEW c, IsCatalog(c),
           \A i \in DOMAIN c : \A k \in DOMAIN c[i].tables : IsTable(c[i].tables[k]),
           NEW s, NEW t, FindTable(c, s, t) # NotFound
    PROVE  IsTable(FindTable(c, s, t)[1])
<1>1. FindSchema(c, s) # NotFound
    BY DEF FindTable
<1>2. PICK i \in 1 .. Len(c) : FindSchema(c, s) = <<c[i]>>
    BY <1>1, FindSchemaFirst
<1>3. i \in DOMAIN c /\ \E T : c[i].tables \in Seq(T)
    BY DEF IsCatalog
<1>4. PICK x : x = c[i]
    OBVIOUS
<1>5. PICK T : x.tables \in Seq(T)
    BY <1>3, <1>4
<1>6. FindSchema(c, s) = <<x>> /\ Len(x.tables) \in Nat /\ DOMAIN x.tables = 1 .. Len(x.tables)
    BY <1>2, <1>4, <1>5
<1>7. \/ FindTable(c, s, t) = NotFound
      \/ \E k \in 1 .. Len(x.tables) : FindTable(c, s, t) = <<x.tables[k]>>
    <2>1. \/ /\ FindTable(c, s, t) = NotFound
             /\ \A j \in 1 .. Len(x.tables) : x.tables[j].table_name # t
          \/ \E j \in 1 .. Len(x.tables) :
                /\ FindTable(c, s, t) = <<x.tables[j]>>
                /\ x.tables[j].table_name = t
                /\ \A q \in 1 .. j - 1 : x.tables[q].table_name # t
        BY <1>6, FindTableFirst
    <2> QED
        BY <2>1
<1>8. PICK k \in 1 .. Len(x.tables) : FindTable(c, s, t) = <<x.tables[k]>>
    BY <1>7
<1>9. IsTable(x.tables[k])
    BY <1>3, <1>4, <1>6
<1> QED
    BY <1>8, <1>9

-----------------------------------------------------------------------------
(* What the lexer and the parser make of an INSERT.                        *)

\* What is taken for a name or a value is a word of the text.
IsTokens(tokens) ==
    /\ IsList(tokens)
    /\ \A i \in 1 .. Len(tokens) :
          tokens[i].token_type = "IDENT" => tokens[i].token_value \in DOMAIN Literals

Pieces == Separators \cup {Blank} \cup DOMAIN Literals

LEMMA ListsJoin ==
    ASSUME NEW a, NEW b, IsList(a), IsList(b)
    PROVE  /\ IsList(a \o b)
           /\ Len(a) \in Nat /\ Len(b) \in Nat
           /\ Len(a \o b) = Len(a) + Len(b)
           /\ \A k \in 1 .. Len(a) : (a \o b)[k] = a[k]
           /\ \A k \in 1 .. Len(b) : (a \o b)[Len(a) + k] = b[k]
<1>1. PICK T : a \in Seq(T)
    BY DEF IsList
<1>2. PICK U : b \in Seq(U)
    BY DEF IsList
<1>3. PICK V : V = T \cup U
    OBVIOUS
<1>4. a \in Seq(V) /\ b \in Seq(V) /\ Len(a) \in Nat /\ Len(b) \in Nat
    BY <1>1, <1>2, <1>3
<1> QED
    BY <1>4, ConcatIndexed DEF IsList

LEMMA ShortLists == IsList(<< >>) /\ \A t : IsList(<<t>>)
<1>1. << >> \in Seq({})
    OBVIOUS
<1>2. \A t : <<t>> \in Seq({t})
    OBVIOUS
<1> QED
    BY <1>1, <1>2, Zenon DEF IsList

LEMMA NoTokens == IsTokens(<< >>)
<1>1. Len(<< >>) = 0
    OBVIOUS
<1> QED
    BY <1>1, ShortLists DEF IsTokens

LEMMA OneToken ==
    ASSUME NEW t, t.token_type = "IDENT" => t.token_value \in DOMAIN Literals
    PROVE  IsTokens(<<t>>)
<1>1. Len(<<t>>) = 1 /\ <<t>>[1] = t
    OBVIOUS
<1>2. \A i \in 1 .. 1 : i = 1
    OBVIOUS
<1>3. IsList(<<t>>)
    BY ShortLists
<1> QED
    BY <1>1, <1>2, <1>3, Zenon DEF IsTokens

LEMMA TokensJoin ==
    ASSUME NEW a, NEW b, IsTokens(a), IsTokens(b)
    PROVE  IsTokens(a \o b)
<1>1. /\ IsList(a \o b)
      /\ Len(a) \in Nat /\ Len(b) \in Nat
      /\ Len(a \o b) = Len(a) + Len(b)
      /\ \A k \in 1 .. Len(a) : (a \o b)[k] = a[k]
      /\ \A k \in 1 .. Len(b) : (a \o b)[Len(a) + k] = b[k]
    BY ListsJoin DEF IsTokens
<1>2. ASSUME NEW i \in 1 .. Len(a \o b), (a \o b)[i].token_type = "IDENT"
      PROVE  (a \o b)[i].token_value \in DOMAIN Literals
    <2>1. CASE i \in 1 .. Len(a)
        BY <1>1, <1>2, <2>1 DEF IsTokens
    <2>2. CASE i \notin 1 .. Len(a)
        <3>1. PICK k : k = i - Len(a)
            OBVIOUS
        <3>2. k \in 1 .. Len(b) /\ i = Len(a) + k
            BY <1>1, <2>2, <3>1
        <3>3. (a \o b)[i] = b[k]
            BY <1>1, <3>2
        <3> QED
            BY <1>2, <3>2, <3>3 DEF IsTokens
    <2> QED
        BY <2>1, <2>2
<1> QED
    BY <1>1, <1>2 DEF IsTokens

LEMMA WordIsToken ==
    ASSUME NEW word \in {""} \cup DOMAIN Literals, NEW type
    PROVE  IsTokens(WordTokens(word, type))
<1>1. CASE word = ""
    <2>1. WordTokens(word, type) = << >>
        BY <1>1 DEF WordTokens
    <2> QED
        BY <2>1, NoTokens
<1>2. CASE word # ""
    <2>1. PICK t : t = Token(type, word)
        OBVIOUS
    <2>2. t.token_value \in DOMAIN Literals
        BY <1>2, <2>1 DEF Token
    <2>3. WordTokens(word, type) = <<t>>
        BY <1>2, <2>1 DEF WordTokens
    <2> QED
        BY <2>2, <2>3, OneToken
<1> QED
    BY <1>1, <1>2

LEMMA OperatorsAreTokens ==
    ASSUME NEW run, IsList(run)
    PROVE  IsTokens(OperatorTokens(run))
<1>1. \A value : Token("OPERATOR", value).token_type # "IDENT"
    BY DEF Token
<1>2. \A value : IsTokens(<<Token("OPERATOR", value)>>)
    BY <1>1, OneToken
<1>3. IsTokens([i \in DOMAIN run |-> Token("OPERATOR", run[i])])
    <2>1. PICK T : run \in Seq(T)
        BY DEF IsList
    <2>2. PICK n \in Nat : n = Len(run) /\ DOMAIN run = 1 .. n
        BY <2>1
    <2> DEFINE e(i) == Token("OPERATOR", run[i])
    <2>3. PICK tokens : tokens = [i \in 1 .. n |-> e(i)]
        OBVIOUS
    <2> DEFINE U == {e(i) : i \in 1 .. n}
    <2> HIDE DEF e
    <2>4. tokens \in [1 .. n -> U]
        BY <2>3
    <2> HIDE DEF U
    <2>5. tokens \in Seq(U) /\ Len(tokens) = n
        BY <2>4
    <2>6. \A i \in 1 .. n : tokens[i] = e(i)
        BY <2>3
    <2>7. IsTokens(tokens)
        BY <1>1, <2>5, <2>6 DEF IsTokens, IsList, e
    <2> QED
        BY <2>2, <2>3, <2>7 DEF e
<1>4. \/ \E value : OperatorTokens(run) = <<Token("OPERATOR", value)>>
      \/ OperatorTokens(run) = [i \in DOMAIN run |-> Token("OPERATOR", run[i])]
    BY DEF OperatorTokens
<1> QED
    BY <1>2, <1>3, <1>4

\* The lexer's state after some of the text.
LexOK(s) ==
    /\ IsTokens(s.tokens)
    /\ s.curr_word \in {""} \cup DOMAIN Literals
    /\ IsList(s.run)

LEMMA LexStepOK ==
    ASSUME NEW s, LexOK(s), NEW piece \in Pieces
    PROVE  LexOK(LexStep(s, piece))
<1>1. CASE piece \in Separators
    <2>1. PICK tokens : tokens = s.tokens \o WordTokens(s.curr_word, "IDENT")
        OBVIOUS
    <2>2. IsTokens(tokens)
        BY <2>1, TokensJoin, WordIsToken DEF LexOK
    <2>3. PICK run : run = Append(s.run, piece)
        OBVIOUS
    <2>4. IsList(run)
        <3>1. PICK T : s.run \in Seq(T)
            BY DEF LexOK, IsList
        <3>2. PICK V : V = T \cup {piece}
            OBVIOUS
        <3>3. s.run \in Seq(V) /\ piece \in V
            BY <3>1, <3>2
        <3> QED
            BY <2>3, <3>3 DEF IsList
    <2> PICK word : word = ""
        OBVIOUS
    <2>5. LexStep(s, piece) = [tokens |-> tokens, curr_word |-> word, run |-> run]
        BY <1>1, <2>1, <2>3 DEF LexStep
    <2>6. PICK r : r = LexStep(s, piece)
        OBVIOUS
    <2>7. r.tokens = tokens /\ r.curr_word = word /\ r.run = run
        BY ONLY <2>5, <2>6
    <2> QED
        BY <2>2, <2>4, <2>6, <2>7, Zenon DEF LexOK
<1>2. CASE piece \notin Separators
    <2>1. PICK word : word = IF piece = Blank THEN "" ELSE piece
        OBVIOUS
    <2>2. word \in {""} \cup DOMAIN Literals
        BY <1>2, <2>1 DEF Pieces
    <2>3. PICK tokens : tokens = s.tokens \o OperatorTokens(s.run)
                                   \o WordTokens(s.curr_word, TypeOf(s.curr_word))
        OBVIOUS
    <2>4. IsTokens(s.tokens \o OperatorTokens(s.run))
        BY TokensJoin, OperatorsAreTokens DEF LexOK
    <2>5. IsTokens(tokens)
        BY <2>3, <2>4, TokensJoin, WordIsToken DEF LexOK
    <2>6. IsList(<< >>)
        BY ShortLists
    <2>7. LexStep(s, piece) = [tokens |-> tokens, curr_word |-> word, run |-> << >>]
        BY <1>2, <2>1, <2>3 DEF LexStep
    <2>8. PICK r : r = LexStep(s, piece)
        OBVIOUS
    <2>9. r.tokens = tokens /\ r.curr_word = word /\ r.run = << >>
        BY ONLY <2>7, <2>8
    <2> QED
        BY <2>2, <2>5, <2>6, <2>8, <2>9, Zenon DEF LexOK
<1> QED
    BY <1>1, <1>2

LexStart == [tokens |-> << >>, curr_word |-> "", run |-> << >>]
\* g holds the lexer's states after the first pieces.
IsLexed(g, query, m) ==
    g = [n \in 0 .. m |-> IF n = 0 THEN LexStart ELSE LexStep(g[n - 1], query[n])]

LEMMA LexedExist ==
    ASSUME NEW query, NEW m \in Nat
    PROVE  \E g : IsLexed(g, query, m)
<1> DEFINE S == {k \in Nat : \E g : IsLexed(g, query, k)}
<1>1. 0 \in S
    <2>1. PICK g : g = [n \in 0 .. 0 |-> LexStart]
        OBVIOUS
    <2>2. g = [n \in 0 .. 0 |-> IF n = 0 THEN LexStart ELSE LexStep(g[n - 1], query[n])]
        BY <2>1
    <2> QED
        BY <2>2 DEF IsLexed
<1>2. ASSUME NEW k \in Nat, k \in S
      PROVE  k + 1 \in S
    <2>1. PICK g : IsLexed(g, query, k)
        BY <1>2
    <2>2. PICK y : y = LexStep(g[k], query[k + 1])
        OBVIOUS
    <2>3. PICK h : h = [n \in 0 .. k + 1 |-> IF n = k + 1 THEN y ELSE g[n]]
        OBVIOUS
    <2>4. \A n \in 0 .. k : g[n] = IF n = 0 THEN LexStart ELSE LexStep(g[n - 1], query[n])
        <3> DEFINE e(n) == IF n = 0 THEN LexStart ELSE LexStep(g[n - 1], query[n])
        <3>1. g = [n \in 0 .. k |-> e(n)]
            BY <2>1, Zenon DEF IsLexed
        <3> HIDE DEF e
        <3>2. \A n \in 0 .. k : g[n] = e(n)
            BY <3>1
        <3> QED
            BY <3>2 DEF e
    <2>5. ASSUME NEW n \in 0 .. k + 1
          PROVE  h[n] = IF n = 0 THEN LexStart ELSE LexStep(h[n - 1], query[n])
        <3>1. CASE n = k + 1
            <4>1. n # 0 /\ n - 1 = k /\ h[n - 1] = g[k] /\ h[n] = y
                BY <2>3, <3>1
            <4> QED
                BY <2>2, <3>1, <4>1
        <3>2. CASE n # k + 1
            <4>1. n \in 0 .. k /\ h[n] = g[n]
                BY <2>3, <3>2
            <4>2. n # 0 => h[n - 1] = g[n - 1]
                BY <2>3, <3>2
            <4> QED
                BY <2>4, <4>1, <4>2
        <3> QED
            BY <3>1, <3>2
    <2>6. h = [n \in 0 .. k + 1 |-> IF n = 0 THEN LexStart ELSE LexStep(h[n - 1], query[n])]
        <3>1. DOMAIN h = 0 .. k + 1 /\ h = [n \in 0 .. k + 1 |-> h[n]]
            BY <2>3
        <3> QED
            BY <2>5, <3>1
    <2>7. IsLexed(h, query, k + 1)
        BY <2>6 DEF IsLexed
    <2> QED
        BY <2>7
<1> HIDE DEF S
<1>3. m \in S
    BY <1>1, <1>2, SetInduction
<1> QED
    BY <1>3 DEF S

\* The tokens of a text.
LEMMA LexedTokens ==
    ASSUME NEW query \in Seq(Pieces)
    PROVE  IsTokens(lexer(query))
<1>1. PICK m \in Nat : m = Len(query)
    OBVIOUS
<1>2. PICK g : /\ IsLexed(g, query, m)
               /\ lexer(query) = g[m].tokens \o OperatorTokens(g[m].run)
                                   \o WordTokens(g[m].curr_word, TypeOf(g[m].curr_word))
    BY <1>1, LexedExist DEF lexer, IsLexed, LexStart
<1>3. \A n \in 0 .. m : g[n] = IF n = 0 THEN LexStart ELSE LexStep(g[n - 1], query[n])
    <2> DEFINE e(n) == IF n = 0 THEN LexStart ELSE LexStep(g[n - 1], query[n])
    <2>1. g = [n \in 0 .. m |-> e(n)]
        BY <1>2, Zenon DEF IsLexed
    <2> HIDE DEF e
    <2>2. \A n \in 0 .. m : g[n] = e(n)
        BY <2>1
    <2> QED
        BY <2>2 DEF e
<1> DEFINE S == {n \in Nat : n <= m => LexOK(g[n])}
<1>4. 0 \in S
    <2>1. g[0] = LexStart
        BY <1>3
    <2> PICK word : word = ""
        OBVIOUS
    <2>2. g[0] = [tokens |-> << >>, curr_word |-> word, run |-> << >>]
        BY <2>1 DEF LexStart
    <2>4. g[0].tokens = << >> /\ g[0].curr_word = word /\ g[0].run = << >>
        BY ONLY <2>2
    <2>3. LexOK(g[0])
        BY <2>4, NoTokens, ShortLists DEF LexOK
    <2> QED
        BY <2>3
<1>5. ASSUME NEW n \in Nat, n \in S
      PROVE  n + 1 \in S
    <2>1. CASE n + 1 <= m
        <3>1. n + 1 \in 1 .. m /\ (n + 1) - 1 = n /\ n + 1 # 0 /\ n + 1 \in 0 .. m
            BY <2>1
        <3>2. g[n + 1] = LexStep(g[n], query[n + 1])
            BY <1>3, <3>1
        <3>3. query[n + 1] \in Pieces
            BY <1>1, <3>1
        <3>4. LexOK(g[n])
            BY <1>5, <2>1
        <3> QED
            BY <3>2, <3>3, <3>4, LexStepOK
    <2> QED
        BY <2>1
<1>6. LexOK(g[m])
    <2>1. \A n \in Nat : n \in S
        <3> HIDE DEF S
        <3> QED
            BY <1>4, <1>5, SetInduction
    <2> QED
        BY <2>1
<1>7. IsTokens(g[m].tokens \o OperatorTokens(g[m].run))
    BY <1>6, TokensJoin, OperatorsAreTokens DEF LexOK
<1> QED
    BY <1>2, <1>6, <1>7, TokensJoin, WordIsToken DEF LexOK

\* A row whose values have codes, however wide they are, and rows of them.
IsValues(row) == \E n \in Nat : DOMAIN row = 1 .. n /\ \A i \in 1 .. n : row[i].val \in Nat
AreRows(values) == IsList(values) /\ \A n \in 1 .. Len(values) : IsValues(values[n])

\* The parser's state within an INSERT.
IsParse(s) ==
    s = [ok |-> s.ok, need |-> s.need, table_name |-> s.table_name, cols_name |-> s.cols_name,
         values |-> s.values, row |-> s.row, next |-> s.next]
ParseOK(s) ==
    /\ IsParse(s)
    /\ s.need \in {"clause", "table", "after_table", "columns", "row", "values", "rows"}
    /\ AreRows(s.values)
    /\ IsValues(s.row)

\* A change of the state that adds no value to a row.
LEMMA ParseMoves ==
    ASSUME NEW s, ParseOK(s), NEW ok, NEW table, NEW cols, NEW next,
           NEW need \in {"clause", "table", "after_table", "columns", "row", "values", "rows"},
           NEW t, t = [ok |-> ok, need |-> need, table_name |-> table, cols_name |-> cols,
                       values |-> s.values, row |-> s.row, next |-> next]
    PROVE  ParseOK(t)
<1>1. /\ IsParse(t) /\ t.need = need /\ t.values = s.values /\ t.row = s.row
    BY DEF IsParse
<1> QED
    BY <1>1 DEF ParseOK

LEMMA RowAdded ==
    ASSUME NEW values, AreRows(values), NEW row, IsValues(row)
    PROVE  AreRows(Append(values, row))
<1>1. PICK T : values \in Seq(T)
    BY DEF AreRows, IsList
<1>2. PICK V : V = T \cup {row}
    OBVIOUS
<1>3. values \in Seq(V) /\ row \in V
    BY <1>1, <1>2
<1>4. PICK more : more = Append(values, row)
    OBVIOUS
<1>5. /\ more \in Seq(V) /\ Len(values) \in Nat /\ Len(more) = Len(values) + 1
      /\ more[Len(values) + 1] = row
      /\ \A n \in 1 .. Len(values) : more[n] = values[n]
    BY <1>3, <1>4
<1>6. ASSUME NEW n \in 1 .. Len(more)
      PROVE  IsValues(more[n])
    <2>1. CASE n = Len(values) + 1
        BY <1>5, <2>1
    <2>2. CASE n # Len(values) + 1
        <3>1. n \in 1 .. Len(values)
            BY <1>5, <2>2
        <3> QED
            BY <1>5, <3>1 DEF AreRows
    <2> QED
        BY <2>1, <2>2
<1> QED
    BY <1>4, <1>5, <1>6 DEF AreRows, IsList

\* What the catalog keeps of a table's columns is a sequence.
HasTables(c) ==
    IsCatalog(c) /\ \A i \in DOMAIN c : \A k \in DOMAIN c[i].tables : IsTable(c[i].tables[k])

LEMMA ColumnsListed ==
    ASSUME NEW c, HasTables(c), NEW schema_name, NEW s
    PROVE  \E n \in Nat : DOMAIN TableColumns(s, c, schema_name) = 1 .. n
<1>1. PICK found : found = FindTable(c, schema_name, s.table_name)
    OBVIOUS
<1>2. CASE found = NotFound
    <2>1. TableColumns(s, c, schema_name) = << >>
        BY <1>1, <1>2 DEF TableColumns, FindColumns, NotFound
    <2>2. DOMAIN << >> = 1 .. 0
        OBVIOUS
    <2> QED
        BY <2>1, <2>2
<1>3. CASE found # NotFound
    <2>1. TableColumns(s, c, schema_name) = found[1].columns
        BY <1>1, <1>3 DEF TableColumns, FindColumns
    <2>2. IsTable(found[1])
        BY <1>1, <1>3, FoundTable DEF HasTables
    <2>3. PICK T : found[1].columns \in Seq(T)
        BY <2>2 DEF IsTable, IsList
    <2>4. DOMAIN found[1].columns = 1 .. Len(found[1].columns) /\ Len(found[1].columns) \in Nat
        BY <2>3
    <2> QED
        BY <2>1, <2>4
<1> QED
    BY <1>2, <1>3

\* A value of a literal takes its place, in as many columns as have the name.
LEMMA ValuePlaced ==
    ASSUME NEW s, IsValues(s.row), NEW text \in DOMAIN Literals, NEW columns, NEW column
    PROVE  IsValues(PlacedValue(s, text, columns, column))
<1>1. PICK n \in Nat : DOMAIN s.row = 1 .. n /\ \A i \in 1 .. n : s.row[i].val \in Nat
    BY DEF IsValues
<1>2. PICK v : v = convert_correct_type(text, column.column_type)
    OBVIOUS
<1>3. v.val \in Nat
    BY <1>2, ParserAssumption DEF convert_correct_type
<1>4. PICK row : row = PlacedValue(s, text, columns, column)
    OBVIOUS
<1>5. row = [k \in 1 .. n |-> IF columns[k].column_name = column.column_name THEN v ELSE s.row[k]]
    BY <1>1, <1>2, <1>4 DEF PlacedValue
<1>6. DOMAIN row = 1 .. n /\ \A i \in 1 .. n : row[i] = v \/ row[i] = s.row[i]
    BY <1>5
<1>7. \A i \in 1 .. n : row[i].val \in Nat
    BY <1>1, <1>3, <1>6
<1> QED
    BY <1>4, <1>6, <1>7 DEF IsValues

\* The tokens between two clauses, and those of the table's name and columns.
LEMMA ClauseParsed ==
    ASSUME NEW s, ParseOK(s), NEW tok
    PROVE  ParseOK(BetweenClauses(s, tok))
<1>1. PICK t : t = BetweenClauses(s, tok)
    OBVIOUS
<1>2. \/ t = [s EXCEPT !.need = "table"] \/ t = [s EXCEPT !.need = "values"]
      \/ t = [s EXCEPT !.need = "clause"] \/ t = [s EXCEPT !.ok = FALSE]
    BY <1>1 DEF BetweenClauses, Failed
<1>3. \E ok : \E need \in {"clause", "table", "after_table", "columns", "row", "values", "rows"} :
         t = [ok |-> ok, need |-> need, table_name |-> s.table_name, cols_name |-> s.cols_name,
              values |-> s.values, row |-> s.row, next |-> s.next]
    BY <1>2 DEF ParseOK, IsParse
<1> QED
    BY <1>1, <1>3, ParseMoves

LEMMA TableParsed ==
    ASSUME NEW s, ParseOK(s), NEW tok, NEW c, NEW schema_name
    PROVE  ParseOK(AfterTable(s, tok, c, schema_name))
<1>1. PICK cols : cols = s.cols_name \o [i \in DOMAIN TableColumns(s, c, schema_name) |->
                                            TableColumns(s, c, schema_name)[i].column_name]
    OBVIOUS
<1>2. PICK t : t = [s EXCEPT !.cols_name = cols]
    OBVIOUS
<1>3. t = [ok |-> s.ok, need |-> s.need, table_name |-> s.table_name, cols_name |-> cols,
           values |-> s.values, row |-> s.row, next |-> s.next]
    BY <1>2 DEF ParseOK, IsParse
<1>4. ParseOK(t)
    BY <1>3, ParseMoves DEF ParseOK
<1>5. PICK u : u = [s EXCEPT !.need = "columns"]
    OBVIOUS
<1>6. u = [ok |-> s.ok, need |-> "columns", table_name |-> s.table_name, cols_name |-> s.cols_name,
           values |-> s.values, row |-> s.row, next |-> s.next]
    BY <1>5 DEF ParseOK, IsParse
<1>7. ParseOK(u)
    BY <1>6, ParseMoves
<1>8. AfterTable(s, tok, c, schema_name) = u \/ AfterTable(s, tok, c, schema_name) = BetweenClauses(t, tok)
    BY <1>1, <1>2, <1>5 DEF AfterTable
<1> QED
    BY <1>4, <1>7, <1>8, ClauseParsed

LEMMA ColumnParsed ==
    ASSUME NEW s, ParseOK(s), NEW tok, NEW c, NEW schema_name
    PROVE  ParseOK(ListedColumn(s, tok, c, schema_name))
<1>1. PICK t : t = ListedColumn(s, tok, c, schema_name)
    OBVIOUS
<1>2. \/ t = [s EXCEPT !.need = "clause"] \/ t = s \/ t = [s EXCEPT !.ok = FALSE]
      \/ t = [s EXCEPT !.cols_name = Append(s.cols_name, tok.token_value)]
    BY <1>1 DEF ListedColumn, Failed
<1>3. \E ok, cols : \E need \in {"clause", "table", "after_table", "columns", "row", "values", "rows"} :
         t = [ok |-> ok, need |-> need, table_name |-> s.table_name, cols_name |-> cols,
              values |-> s.values, row |-> s.row, next |-> s.next]
    BY <1>2 DEF ParseOK, IsParse
<1> QED
    BY <1>1, <1>3, ParseMoves

\* A token of a row: its end keeps the row, a value goes to its column.
LEMMA RowParsed ==
    ASSUME NEW s, ParseOK(s), NEW tok, NEW c, NEW schema_name,
           tok.token_type = "IDENT" => tok.token_value \in DOMAIN Literals
    PROVE  ParseOK(RowToken(s, tok, c, schema_name))
<1>1. PICK t : t = RowToken(s, tok, c, schema_name)
    OBVIOUS
<1>2. PICK column : column = FindColumns(c, schema_name, s.table_name, s.cols_name[s.next])
    OBVIOUS
<1>3. PICK row : row = PlacedValue(s, tok.token_value, TableColumns(s, c, schema_name), column[1])
    OBVIOUS
<1>4. \/ t = [s EXCEPT !.need = "rows", !.values = Append(s.values, s.row)]
      \/ t = s
      \/ t = [s EXCEPT !.next = s.next + 1]
      \/ t = [s EXCEPT !.ok = FALSE]
      \/ tok.token_type = "IDENT" /\ t = [s EXCEPT !.next = s.next + 1, !.row = row]
    BY <1>1, <1>2, <1>3 DEF RowToken, Failed
<1>5. CASE t = [s EXCEPT !.need = "rows", !.values = Append(s.values, s.row)]
    <2>1. PICK values : values = Append(s.values, s.row)
        OBVIOUS
    <2>2. AreRows(values)
        BY <2>1, RowAdded DEF ParseOK
    <2>3. t = [ok |-> s.ok, need |-> "rows", table_name |-> s.table_name, cols_name |-> s.cols_name,
               values |-> values, row |-> s.row, next |-> s.next]
        BY <1>5, <2>1 DEF ParseOK, IsParse
    <2>4. IsParse(t) /\ t.need = "rows" /\ t.values = values /\ t.row = s.row
        BY ONLY <2>3 DEF IsParse
    <2> QED
        BY <1>1, <2>2, <2>4 DEF ParseOK
<1>6. CASE tok.token_type = "IDENT" /\ t = [s EXCEPT !.next = s.next + 1, !.row = row]
    <2>1. IsValues(row)
        BY <1>3, <1>6, ValuePlaced DEF ParseOK
    <2>2. PICK next : next = s.next + 1
        OBVIOUS
    <2>3. t = [ok |-> s.ok, need |-> s.need, table_name |-> s.table_name, cols_name |-> s.cols_name,
               values |-> s.values, row |-> row, next |-> next]
        BY <1>6, <2>2 DEF ParseOK, IsParse
    <2>4. IsParse(t) /\ t.need = s.need /\ t.values = s.values /\ t.row = row
        BY ONLY <2>3 DEF IsParse
    <2> QED
        BY <1>1, <2>1, <2>4 DEF ParseOK
<1>7. CASE t = s \/ t = [s EXCEPT !.next = s.next + 1] \/ t = [s EXCEPT !.ok = FALSE]
    <2>1. \E ok, next :
             t = [ok |-> ok, need |-> s.need, table_name |-> s.table_name, cols_name |-> s.cols_name,
                  values |-> s.values, row |-> s.row, next |-> next]
        BY <1>7 DEF ParseOK, IsParse
    <2> QED
        BY <1>1, <2>1, ParseMoves DEF ParseOK
<1> QED
    BY <1>4, <1>5, <1>6, <1>7

LEMMA RowBegun ==
    ASSUME NEW s, ParseOK(s), NEW tok, NEW c, HasTables(c), NEW schema_name
    PROVE  ParseOK(BetweenRows(s, tok, c, schema_name))
<1>1. PICK t : t = BetweenRows(s, tok, c, schema_name)
    OBVIOUS
<1>2. PICK n \in Nat : DOMAIN TableColumns(s, c, schema_name) = 1 .. n
    BY ColumnsListed
<1>3. PICK row : row = [k \in 1 .. n |-> DefaultValue]
    OBVIOUS
<1>4. \/ t = [s EXCEPT !.need = "row", !.next = 1, !.row = row]
      \/ t = [s EXCEPT !.need = "rows"]
    BY <1>1, <1>2, <1>3 DEF BetweenRows
<1>5. IsValues(row)
    <2>1. DefaultValue.val = 0
        BY DEF DefaultValue
    <2>2. DOMAIN row = 1 .. n /\ \A i \in 1 .. n : row[i] = DefaultValue
        BY <1>3
    <2> QED
        BY <2>1, <2>2 DEF IsValues
<1>6. CASE t = [s EXCEPT !.need = "row", !.next = 1, !.row = row]
    <2>1. t = [ok |-> s.ok, need |-> "row", table_name |-> s.table_name, cols_name |-> s.cols_name,
               values |-> s.values, row |-> row, next |-> 1]
        BY <1>6 DEF ParseOK, IsParse
    <2>2. IsParse(t) /\ t.need = "row" /\ t.values = s.values /\ t.row = row
        BY ONLY <2>1 DEF IsParse
    <2> QED
        BY <1>1, <1>5, <2>2 DEF ParseOK
<1>7. CASE t = [s EXCEPT !.need = "rows"]
    <2>1. t = [ok |-> s.ok, need |-> "rows", table_name |-> s.table_name, cols_name |-> s.cols_name,
               values |-> s.values, row |-> s.row, next |-> s.next]
        BY <1>7 DEF ParseOK, IsParse
    <2> QED
        BY <1>1, <2>1, ParseMoves
<1> QED
    BY <1>4, <1>6, <1>7

LEMMA InsertStepOK ==
    ASSUME NEW s, ParseOK(s), NEW tok, NEW c, HasTables(c), NEW schema_name,
           tok.token_type = "IDENT" => tok.token_value \in DOMAIN Literals
    PROVE  ParseOK(InsertStep(s, tok, c, schema_name))
<1>1. PICK t : t = InsertStep(s, tok, c, schema_name)
    OBVIOUS
<1>2. PICK u : u = IF /\ tok.token_type = "IDENT"
                     /\ FindTable(c, schema_name, tok.token_value) # NotFound
                  THEN [s EXCEPT !.table_name = tok.token_value, !.need = "after_table"]
                  ELSE [s EXCEPT !.ok = FALSE]
    OBVIOUS
<1>3. \/ t = s
      \/ s.need = "table" /\ t = u
      \/ t = BetweenClauses(s, tok)
      \/ t = AfterTable(s, tok, c, schema_name)
      \/ t = ListedColumn(s, tok, c, schema_name)
      \/ t = RowToken(s, tok, c, schema_name)
      \/ t = BetweenRows(s, tok, c, schema_name)
    BY <1>1, <1>2 DEF InsertStep, Failed, ParseOK
<1>4. ASSUME s.need = "table", t = u
      PROVE  ParseOK(t)
    <2>1. PICK name : name = tok.token_value
        OBVIOUS
    <2>2. \/ t = [s EXCEPT !.table_name = name, !.need = "after_table"]
          \/ t = [s EXCEPT !.ok = FALSE]
        BY <1>2, <1>4, <2>1
    <2>3. \E ok, table : \E need \in {"after_table", "table"} :
             t = [ok |-> ok, need |-> need, table_name |-> table, cols_name |-> s.cols_name,
                  values |-> s.values, row |-> s.row, next |-> s.next]
        BY <1>4, <2>2 DEF ParseOK, IsParse
    <2> QED
        BY <2>3, ParseMoves
<1>5. ParseOK(BetweenClauses(s, tok))
    BY ClauseParsed
<1>6. ParseOK(AfterTable(s, tok, c, schema_name))
    BY TableParsed
<1>7. ParseOK(ListedColumn(s, tok, c, schema_name))
    BY ColumnParsed
<1>8. ParseOK(RowToken(s, tok, c, schema_name))
    BY RowParsed
<1>9. ParseOK(BetweenRows(s, tok, c, schema_name))
    BY RowBegun
<1> QED
    BY <1>1, <1>3, <1>4, <1>5, <1>6, <1>7, <1>8, <1>9

ParseStart == [ok |-> TRUE, need |-> "clause", table_name |-> "", cols_name |-> << >>,
               values |-> << >>, row |-> << >>, next |-> 1]
\* g holds the parser's states after the first tokens.
IsParsed(g, tokens, c, schema_name, m) ==
    g = [i \in 1 .. m |-> IF i = 1 THEN ParseStart ELSE InsertStep(g[i - 1], tokens[i], c, schema_name)]

LEMMA ParsedExist ==
    ASSUME NEW tokens, NEW c, NEW schema_name, NEW m \in Nat
    PROVE  \E g : IsParsed(g, tokens, c, schema_name, m)
<1> DEFINE S == {k \in Nat : \E g : IsParsed(g, tokens, c, schema_name, k)}
<1>1. 0 \in S
    <2>1. PICK g : g = [n \in 1 .. 0 |-> 0]
        OBVIOUS
    <2>2. g = [i \in 1 .. 0 |-> IF i = 1 THEN ParseStart ELSE InsertStep(g[i - 1], tokens[i], c, schema_name)]
        BY <2>1
    <2> QED
        BY <2>2 DEF IsParsed
<1>2. ASSUME NEW k \in Nat, k \in S
      PROVE  k + 1 \in S
    <2>1. PICK g : IsParsed(g, tokens, c, schema_name, k)
        BY <1>2
    <2>2. PICK y : y = IF k = 0 THEN ParseStart ELSE InsertStep(g[k], tokens[k + 1], c, schema_name)
        OBVIOUS
    <2>3. PICK h : h = [n \in 1 .. k + 1 |-> IF n = k + 1 THEN y ELSE g[n]]
        OBVIOUS
    <2>4. \A i \in 1 .. k :
             g[i] = IF i = 1 THEN ParseStart ELSE InsertStep(g[i - 1], tokens[i], c, schema_name)
        <3> DEFINE e(i) == IF i = 1 THEN ParseStart ELSE InsertStep(g[i - 1], tokens[i], c, schema_name)
        <3>1. g = [i \in 1 .. k |-> e(i)]
            BY <2>1, Zenon DEF IsParsed
        <3> HIDE DEF e
        <3>2. \A i \in 1 .. k : g[i] = e(i)
            BY <3>1
        <3> QED
            BY <3>2 DEF e
    <2>5. ASSUME NEW i \in 1 .. k + 1
          PROVE  h[i] = IF i = 1 THEN ParseStart ELSE InsertStep(h[i - 1], tokens[i], c, schema_name)
        <3>1. CASE i = k + 1
            <4>1. i - 1 = k /\ h[i] = y
                BY <2>3, <3>1
            <4>2. k # 0 => h[k] = g[k] /\ i # 1
                BY <2>3, <3>1
            <4> QED
                BY <2>2, <3>1, <4>1, <4>2
        <3>2. CASE i # k + 1
            <4>1. i \in 1 .. k /\ h[i] = g[i]
                BY <2>3, <3>2
            <4>2. i # 1 => h[i - 1] = g[i - 1]
                BY <2>3, <3>2
            <4> QED
                BY <2>4, <4>1, <4>2
        <3> QED
            BY <3>1, <3>2
    <2>6. h = [i \in 1 .. k + 1 |->
                  IF i = 1 THEN ParseStart ELSE InsertStep(h[i - 1], tokens[i], c, schema_name)]
        <3>1. h = [i \in 1 .. k + 1 |-> h[i]]
            BY <2>3
        <3> QED
            BY <2>5, <3>1
    <2>7. IsParsed(h, tokens, c, schema_name, k + 1)
        BY <2>6 DEF IsParsed
    <2> QED
        BY <2>7
<1> HIDE DEF S
<1>3. m \in S
    BY <1>1, <1>2, SetInduction
<1> QED
    BY <1>3 DEF S

\* The rows of an INSERT, if the parser accepts it.
LEMMA InsertParsed ==
    ASSUME NEW tokens, IsTokens(tokens), Len(tokens) # 0,
           NEW c, HasTables(c), NEW schema_name
    PROVE  LET ast == parse_insert_clause(tokens, c, schema_name) IN
           ast = Rejected \/ (ast.kind = "insert" /\ AreRows(ast.values))
<1>1. PICK m : m = Len(tokens)
    OBVIOUS
<1>2. m \in Nat /\ m \in 1 .. m
    <2>1. PICK T : tokens \in Seq(T)
        BY DEF IsTokens, IsList
    <2> QED
        BY <1>1, <2>1
<1>3. PICK g : /\ IsParsed(g, tokens, c, schema_name, m)
               /\ parse_insert_clause(tokens, c, schema_name) =
                     IF g[m].ok /\ g[m].need \in {"clause", "rows"}
                     THEN [kind |-> "insert", table_name |-> g[m].table_name, values |-> g[m].values]
                     ELSE Rejected
    <2> DEFINE after == CHOOSE g : g = [i \in 1 .. Len(tokens) |->
                           IF i = 1 THEN ParseStart ELSE InsertStep(g[i - 1], tokens[i], c, schema_name)]
    <2>1. IsParsed(after, tokens, c, schema_name, m)
        <3>1. PICK g : IsParsed(g, tokens, c, schema_name, m)
            BY <1>2, ParsedExist
        <3>2. g = [i \in 1 .. Len(tokens) |->
                      IF i = 1 THEN ParseStart ELSE InsertStep(g[i - 1], tokens[i], c, schema_name)]
            BY <1>1, <3>1, Zenon DEF IsParsed
        <3>3. after = [i \in 1 .. Len(tokens) |->
                  IF i = 1 THEN ParseStart ELSE InsertStep(after[i - 1], tokens[i], c, schema_name)]
            BY <3>2, Zenon
        <3> QED
            BY <1>1, <3>3, Zenon DEF IsParsed
    <2>2. parse_insert_clause(tokens, c, schema_name) =
             IF after[Len(tokens)].ok /\ after[Len(tokens)].need \in {"clause", "rows"}
             THEN [kind |-> "insert", table_name |-> after[Len(tokens)].table_name,
                   values |-> after[Len(tokens)].values]
             ELSE Rejected
        BY Zenon DEF parse_insert_clause, ParseStart
    <2> HIDE DEF after
    <2> QED
        BY <1>1, <2>1, <2>2, Zenon
<1>4. \A i \in 1 .. m :
         g[i] = IF i = 1 THEN ParseStart ELSE InsertStep(g[i - 1], tokens[i], c, schema_name)
    <2> DEFINE e(i) == IF i = 1 THEN ParseStart ELSE InsertStep(g[i - 1], tokens[i], c, schema_name)
    <2>1. g = [i \in 1 .. m |-> e(i)]
        BY <1>3, Zenon DEF IsParsed
    <2> HIDE DEF e
    <2>2. \A i \in 1 .. m : g[i] = e(i)
        BY <2>1
    <2> QED
        BY <2>2 DEF e
<1> DEFINE S == {i \in Nat : i + 1 <= m => ParseOK(g[i + 1])}
<1>5. 0 \in S
    <2>1. g[1] = ParseStart
        BY <1>2, <1>4
    <2>2. AreRows(<< >>)
        <3>1. Len(<< >>) = 0
            OBVIOUS
        <3> QED
            BY <3>1, ShortLists DEF AreRows
    <2>3. IsValues(<< >>)
        <3>1. DOMAIN << >> = 1 .. 0
            OBVIOUS
        <3> QED
            BY <3>1 DEF IsValues
    <2>4. PICK name : name = ""
        OBVIOUS
    <2>5. g[1] = [ok |-> TRUE, need |-> "clause", table_name |-> name, cols_name |-> << >>,
                  values |-> << >>, row |-> << >>, next |-> 1]
        BY <2>1, <2>4 DEF ParseStart
    <2>6. IsParse(g[1]) /\ g[1].need = "clause" /\ g[1].values = << >> /\ g[1].row = << >>
        BY ONLY <2>5 DEF IsParse
    <2>7. ParseOK(g[1])
        BY <2>2, <2>3, <2>6 DEF ParseOK
    <2>8. 0 + 1 = 1
        OBVIOUS
    <2>9. ParseOK(g[0 + 1])
        BY <2>7, <2>8, Zenon
    <2> QED
        BY <2>9, Zenon
<1>6. ASSUME NEW i \in Nat, i \in S
      PROVE  i + 1 \in S
    <2>1. CASE (i + 1) + 1 <= m
        <3>1. PICK j : j = (i + 1) + 1
            OBVIOUS
        <3>2. j \in 1 .. m /\ j # 1 /\ j - 1 = i + 1 /\ i + 1 <= m
            BY <1>2, <2>1, <3>1
        <3>3. g[j] = InsertStep(g[i + 1], tokens[j], c, schema_name)
            BY <1>4, <3>2
        <3>4. tokens[j].token_type = "IDENT" => tokens[j].token_value \in DOMAIN Literals
            BY <1>1, <3>2 DEF IsTokens
        <3>5. ParseOK(g[i + 1])
            BY <1>6, <3>2
        <3> QED
            BY <3>1, <3>3, <3>4, <3>5, InsertStepOK
    <2> QED
        BY <2>1
<1>7. ParseOK(g[m])
    <2>1. \A i \in Nat : i \in S
        <3> HIDE DEF S
        <3> QED
            BY <1>5, <1>6, SetInduction
    <2>2. m - 1 \in Nat /\ (m - 1) + 1 = m /\ m <= m
        BY <1>2
    <2>3. m - 1 \in S
        BY <2>1, <2>2
    <2> QED
        BY <2>2, <2>3
<1> HIDE DEF S
<1>8. PICK ast : ast = parse_insert_clause(tokens, c, schema_name)
    OBVIOUS
<1>9. AreRows(g[m].values)
    BY <1>7 DEF ParseOK
<1>10. \/ ast = Rejected
       \/ ast = [kind |-> "insert", table_name |-> g[m].table_name, values |-> g[m].values]
    BY <1>3, <1>8
<1>11. PICK values : values = g[m].values
    OBVIOUS
<1>12. ast = Rejected \/ (ast.kind = "insert" /\ ast.values = values)
    BY <1>10, <1>11
<1>13. AreRows(values)
    BY <1>9, <1>11
<1> QED
    BY <1>8, <1>12, <1>13, Zenon

\* Whatever the text of a statement is and whatever the catalog has become, the rows it is
\* parsed to are sequences of values that have codes (lexer, parse_insert_clause).
THEOREM ParsedRows ==
    ASSUME NEW query \in Seq(Pieces), NEW c, HasTables(c), NEW schema_name,
           NEW ast, ast = grammer_check(lexer(query), c, schema_name), ast.kind = "insert"
    PROVE  AreRows(ast.values)
<1>1. PICK tokens : tokens = lexer(query)
    OBVIOUS
<1>2. IsTokens(tokens)
    BY <1>1, LexedTokens
<1>3. \/ ast = parse_select_clause(tokens, c, schema_name)
      \/ Len(tokens) # 0 /\ ast = parse_insert_clause(tokens, c, schema_name)
      \/ ast = parse_cschema_clause(tokens)
      \/ ast = parse_ctable_clause(tokens)
      \/ ast = Rejected
    <2>1. PICK T : tokens \in Seq(T)
        BY <1>2 DEF IsTokens, IsList
    <2>2. Len(tokens) \in Nat /\ (Len(tokens) = 0 => ~(1 <= Len(tokens)))
        BY <2>1
    <2>3. "" # "INSERT"
        OBVIOUS
    <2> QED
        BY <1>1, <2>2, <2>3 DEF grammer_check
<1>4. ast # Rejected
    BY DEF Rejected
<1>5. ast # parse_select_clause(tokens, c, schema_name)
    <2>1. \E b, cols, t, p : parse_select_clause(tokens, c, schema_name) =
             IF b THEN [kind |-> "select", cols_name |-> cols, table_name |-> t, predicate |-> p]
             ELSE Rejected
        BY Zenon DEF parse_select_clause
    <2> QED
        BY <1>4, <2>1
<1>6. ast # parse_cschema_clause(tokens)
    BY <1>4 DEF parse_cschema_clause
<1>7. ast # parse_ctable_clause(tokens)
    <2>1. \E b, t, columns : parse_ctable_clause(tokens) =
             IF b THEN [kind |-> "table", table_name |-> t, columns |-> columns] ELSE Rejected
        BY Zenon DEF parse_ctable_clause
    <2> QED
        BY <1>4, <2>1
<1>8. Len(tokens) # 0 /\ ast = parse_insert_clause(tokens, c, schema_name)
    BY <1>3, <1>4, <1>5, <1>6, <1>7
<1> QED
    BY <1>2, <1>4, <1>8, InsertParsed
=============================================================================
