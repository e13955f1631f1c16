------------------------------- MODULE Parser -------------------------------
(***************************************************************************)
(* parser::Parser of src/src/query_manager/parser.cpp: from the tokens of  *)
(* a request to a syntax tree, with the catalog lookups it makes on the    *)
(* way.  A statement the code answers by throwing is Rejected.             *)
(*                                                                         *)
(* The loops over the token_iterator become what is known after each       *)
(* token; `need' is what the iterator is about to read.                    *)
(***************************************************************************)
EXTENDS Integers, Catalog

CONSTANTS
    Literals    \* for each word of a request: its code as a value, and the column
                \* types all of the word is a value of

ColumnTypes == {"STRING", "INTEGER", "FLOATING"}

ASSUME ParserAssumption ==
    \A text \in DOMAIN Literals :
        /\ Literals[text].code \in Nat \ {0}
        /\ "STRING" \in Literals[text].types
        /\ Literals[text].types \subseteq ColumnTypes

Rejected == [kind |-> "rejected"]

\* std::variant holds a std::string until something else is assigned.
DefaultValue == [type |-> "STRING", val |-> 0]

col_type_match(col_type, text) == col_type \in Literals[text].types

\* stoi and stof throw unless the text begins with a number.  (They take one that only
\* begins with it; Literals has no such text.)
Convertible(text, col_type) == col_type \in Literals[text].types
convert_correct_type(text, col_type) == [type |-> col_type, val |-> Literals[text].code]

-----------------------------------------------------------------------------
(* SELECT                                                                  *)

\* parse_from_clause, and the columns that have been waiting for their table.
FromTable(s, table_name, catalog, schema_name) ==
    LET found == [i \in DOMAIN s.raw |-> FindColumns(catalog, schema_name, table_name, s.raw[i])]
    IN  [s EXCEPT !.need = "item",
                  !.table_name = table_name,
                  !.raw = << >>,
                  !.ok = /\ FindTable(catalog, schema_name, table_name) # NotFound
                         /\ \A i \in DOMAIN found : found[i] # NotFound,
                  !.cols_name = @ \o [i \in DOMAIN FlattenSeq(found) |->
                                        FlattenSeq(found)[i].column_name]]

\* The words of parse_where_clause: column, operator, value, whatever they are.
WhereWord(s, word) ==
    [s EXCEPT !.predicate = Append(@, word),
              !.need = IF Len(s.predicate) = 2 THEN "item" ELSE "where"]

SelectStep(s, tokens, i, catalog, schema_name) ==
    LET tok == tokens[i]
        IsColumn(t) == t.token_type = "IDENT" \/ t.token_value = "*"
    IN
    CASE ~s.ok -> s
      [] s.need = "table" -> FromTable(s, tok.token_value, catalog, schema_name)
      [] s.need = "where" -> WhereWord(s, tok.token_value)
      [] tok.token_value = "WHERE" -> [s EXCEPT !.need = "where", !.predicate = << >>]
      [] tok.token_value = "FROM" -> [s EXCEPT !.need = "table"]
      [] IsColumn(tok) -> [s EXCEPT !.raw = Append(@, tok.token_value)]
      [] tok.token_value = "," /\ tok.token_type = "OPERATOR" ->
            [s EXCEPT !.ok = i < Len(tokens) /\ IsColumn(tokens[i + 1])]
      [] OTHER -> s

parse_select_clause(tokens, catalog, schema_name) ==
    LET start == [ok |-> TRUE, need |-> "item", raw |-> << >>, cols_name |-> << >>,
                  table_name |-> "", predicate |-> << >>]
        after[i \in 1 .. Len(tokens)] ==
            IF i = 1 THEN start ELSE SelectStep(after[i - 1], tokens, i, catalog, schema_name)
        s == after[Len(tokens)]
    IN  IF s.ok /\ s.need = "item"
        THEN [kind |-> "select", cols_name |-> s.cols_name, table_name |-> s.table_name,
              predicate |-> s.predicate]
        ELSE Rejected

-----------------------------------------------------------------------------
(* INSERT                                                                  *)

TableColumns(s, catalog, schema_name) ==
    FindColumns(catalog, schema_name, s.table_name, "*")

Failed(s) == [s EXCEPT !.ok = FALSE]

\* Between the clauses.  The test meant for the token before looks at the token
\* itself: a second INSERT or the table's name stops the statement here, a missing
\* INTO or VALUES does not.
BetweenClauses(s, tok) ==
    CASE tok.token_type = "CLAUSE" /\ tok.token_value = "INTO" -> [s EXCEPT !.need = "table"]
      [] tok.token_value = "INSERT" -> Failed(s)
      [] tok.token_type = "CLAUSE" /\ tok.token_value = "VALUES" -> [s EXCEPT !.need = "values"]
      [] tok.token_value = s.table_name -> Failed(s)
      [] OTHER -> [s EXCEPT !.need = "clause"]

\* parse_into_clause, the token behind the table's name: a list of columns, or all
\* of them and the next clause.
AfterTable(s, tok, catalog, schema_name) ==
    LET all == TableColumns(s, catalog, schema_name) IN
    IF tok.token_type = "OPERATOR" /\ tok.token_value = "("
    THEN [s EXCEPT !.need = "columns"]
    ELSE BetweenClauses([s EXCEPT !.cols_name = @ \o [i \in DOMAIN all |-> all[i].column_name]], tok)

ListedColumn(s, tok, catalog, schema_name) ==
    CASE tok.token_value = ")" -> [s EXCEPT !.need = "clause"]
      [] tok.token_type # "IDENT" -> s
      [] FindColumns(catalog, schema_name, s.table_name, tok.token_value) = NotFound -> Failed(s)
      [] OTHER -> [s EXCEPT !.cols_name = Append(@, tok.token_value)]

\* mutant: the value goes to the column at its own position, not to the one named
PlacedValue_by_position(s, text, columns, column) ==
    [s.row EXCEPT ![s.next] = convert_correct_type(text, column.column_type)]
\* Every column of the name gets the value, wherever it stands in the list.
PlacedValue(s, text, columns, column) ==
    [k \in DOMAIN s.row |->
        IF columns[k].column_name = column.column_name
        THEN convert_correct_type(text, column.column_type)
        ELSE s.row[k]]

\* A token of a parenthesised row.  (More values than columns read past the end of
\* cols_name in the code; such statements are left out.)
RowToken(s, tok, catalog, schema_name) ==
    LET column == FindColumns(catalog, schema_name, s.table_name, s.cols_name[s.next])
    IN
    CASE tok.token_value = ")" -> [s EXCEPT !.need = "rows", !.values = Append(@, s.row)]
      [] tok.token_type # "IDENT" -> s
      [] column = NotFound -> [s EXCEPT !.next = @ + 1]
      [] ~col_type_match(column[1].column_type, tok.token_value) -> Failed(s)
      [] OTHER -> [s EXCEPT !.next = @ + 1,
                            !.row = PlacedValue(s, tok.token_value,
                                                TableColumns(s, catalog, schema_name), column[1])]

\* parse_value_clause between two rows, where it skips everything but "(".
BetweenRows(s, tok, catalog, schema_name) ==
    IF tok.token_value = "("
    THEN [s EXCEPT !.need = "row", !.next = 1,
                   !.row = [k \in DOMAIN TableColumns(s, catalog, schema_name) |-> DefaultValue]]
    ELSE [s EXCEPT !.need = "rows"]

InsertStep(s, tok, catalog, schema_name) ==
    CASE ~s.ok -> s
      [] s.need = "clause" -> BetweenClauses(s, tok)
      [] s.need = "table" ->
            IF /\ tok.token_type = "IDENT"
               /\ FindTable(catalog, schema_name, tok.token_value) # NotFound
            THEN [s EXCEPT !.table_name = tok.token_value, !.need = "after_table"]
            ELSE Failed(s)
      [] s.need = "after_table" -> AfterTable(s, tok, catalog, schema_name)
      [] s.need = "columns" -> ListedColumn(s, tok, catalog, schema_name)
      [] s.need = "row" -> RowToken(s, tok, catalog, schema_name)
      [] s.need \in {"values", "rows"} -> BetweenRows(s, tok, catalog, schema_name)

parse_insert_clause(tokens, catalog, schema_name) ==
    LET start == [ok |-> TRUE, need |-> "clause", table_name |-> "", cols_name |-> << >>,
                  values |-> << >>, row |-> << >>, next |-> 1]
        after[i \in 1 .. Len(tokens)] ==
            IF i = 1 THEN start ELSE InsertStep(after[i - 1], tokens[i], catalog, schema_name)
        s == after[Len(tokens)]
    IN  IF s.ok /\ s.need \in {"clause", "rows"}
        THEN [kind |-> "insert", table_name |-> s.table_name, values |-> s.values]
        ELSE Rejected

-----------------------------------------------------------------------------
(* CREATE                                                                  *)

parse_cschema_clause(tokens) ==
    IF Len(tokens) >= 3
    THEN [kind |-> "schema", schema_name |-> tokens[3].token_value]
    ELSE Rejected

TypeNames == [STRING |-> "STRING", string |-> "STRING", INT |-> "INTEGER", int |-> "INTEGER",
              FLOAT |-> "FLOATING", float |-> "FLOATING"]

\* CREATE TABLE name ( column type , ... ) and anything behind it.
parse_ctable_clause(tokens) ==
    LET At(i) == IF i <= Len(tokens) THEN tokens[i] ELSE [token_type |-> "", token_value |-> ""]
        Column(j) == At(2 + 3 * j)
        Type(j) == At(3 + 3 * j).token_value
        Separator(j) == At(4 + 3 * j).token_value
        IsList(n) ==
            /\ Separator(n) = ")"
            /\ \A j \in 1 .. n : /\ Column(j).token_type = "IDENT"
                                 /\ Type(j) \in DOMAIN TypeNames
                                 /\ j < n => Separator(j) = ","
        lengths == {n \in 1 .. Len(tokens) : IsList(n)}
    IN
    IF At(3).token_type = "IDENT" /\ At(4).token_value = "(" /\ lengths # {}
    THEN [kind |-> "table", table_name |-> At(3).token_value,
          columns |-> [j \in 1 .. (CHOOSE n \in lengths : TRUE) |->
                        [column_name |-> Column(j).token_value,
                         column_type |-> TypeNames[Type(j)]]]]
    ELSE Rejected

grammer_check(tokens, catalog, schema_name) ==
    LET Word(i) == IF i <= Len(tokens) THEN tokens[i].token_value ELSE "" IN
    CASE Word(1) = "SELECT" -> parse_select_clause(tokens, catalog, schema_name)
      [] Word(1) = "INSERT" -> parse_insert_clause(tokens, catalog, schema_name)
      [] Word(1) = "CREATE" /\ Word(2) = "SCHEMA" -> parse_cschema_clause(tokens)
      [] Word(1) = "CREATE" /\ Word(2) = "TABLE" -> parse_ctable_clause(tokens)
      [] OTHER -> Rejected
=============================================================================
