------------------------------ MODULE Catalog ------------------------------
(***************************************************************************)
(* schema_manager of src/src/catalog_manager: the catalog as a sequence of *)
(* schemas (schema_catalog), each with its tables and their columns.  The  *)
(* operations are operators on that sequence; nothing in them looks for an *)
(* entry of the same name, so names repeat, and a lookup takes the first.  *)
(***************************************************************************)
EXTENDS Sequences, SequencesExt

\* std::nullopt of entity_find, whose result is otherwise a vector of entities.
NotFound == << >>

\* What a loop of entity_find returns, which stopped at entry i, or at none: 0.
EntryAt(entries, i) == IF i = 0 THEN NotFound ELSE <<entries[i]>>

-----------------------------------------------------------------------------
(* entity_find, one operator for each FIND_TYPE.                           *)

FindSchema(catalog, schema_name) ==
    EntryAt(catalog, SelectInSeq(catalog, LAMBDA s : s.schema_name = schema_name))

\* mutant: the table created last under the name
FindTable_last(catalog, schema_name, table_name) ==
    LET schema == FindSchema(catalog, schema_name) IN
    IF schema = NotFound THEN NotFound
    ELSE EntryAt(schema[1].tables, SelectLastInSeq(schema[1].tables, LAMBDA t : t.table_name = table_name))
\* Only the first schema of the name is searched.
FindTable(catalog, schema_name, table_name) ==
    LET schema == FindSchema(catalog, schema_name) IN
    IF schema = NotFound THEN NotFound
    ELSE EntryAt(schema[1].tables, SelectInSeq(schema[1].tables, LAMBDA t : t.table_name = table_name))

\* "*" stands for all the columns.
FindColumns(catalog, schema_name, table_name, column_name) ==
    LET table == FindTable(catalog, schema_name, table_name) IN
    IF table = NotFound THEN NotFound
    ELSE IF column_name = "*" THEN table[1].columns
    ELSE EntryAt(table[1].columns, SelectInSeq(table[1].columns, LAMBDA c : c.column_name = column_name))

-----------------------------------------------------------------------------
(* Changes.                                                                *)

create_schema(catalog, ast) ==
    Append(catalog, [schema_name |-> ast.schema_name, tables |-> << >>])

\* Every schema of the name gets the table; with none there is nothing to do, and
\* nobody is told.
schema_create_table(catalog, schema_name, ast) ==
    LET table == [table_name |-> ast.table_name, columns |-> ast.columns] IN
    [i \in DOMAIN catalog |->
        IF catalog[i].schema_name = schema_name
        THEN [catalog[i] EXCEPT !.tables = Append(@, table)]
        ELSE catalog[i]]
=============================================================================
