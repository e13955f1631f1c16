---------------------------- MODULE MCStatements ----------------------------
(***************************************************************************)
(* Statements for TLC: a scaled-down page, on which two rows fit, three    *)
(* have slots and one byte is left over, as 4015 bytes leave some over for *)
(* any rows; and the statements the clients send.                          *)
(***************************************************************************)
EXTENDS Statements, TLC

MCLiterals ==
    [text \in {"1", "2", "3"} |->
        [code |-> CASE text = "1" -> 1 [] text = "2" -> 2 [] text = "3" -> 3, types |-> ColumnTypes]]
    @@ [text \in {"x", "y"} |-> [code |-> IF text = "x" THEN 4 ELSE 5, types |-> {"STRING"}]]
    @@ [text \in {"long"} |-> [code |-> 7, types |-> {"STRING"}]]
    \* The words that no statement here uses as a value.
    @@ [text \in Clauses \cup {"s", "t", "u", "a", "b", "INT", "STRING"} |->
           [code |-> 6, types |-> {"STRING"}]]

\* The text of a statement: groups of pieces, with a blank between two groups.
Spaced(groups) ==
    FlattenSeq([i \in DOMAIN groups |-> IF i = 1 THEN groups[i] ELSE <<Blank>> \o groups[i]])

Statement(groups, means) == [schema_name |-> "s", input |-> Spaced(groups), means |-> means]
Other == [kind |-> "other"]
Inserts(table_name, rows) == [kind |-> "insert", table_name |-> table_name, rows |-> rows]
Selects(table_name, cols, where) ==
    [kind |-> "select", table_name |-> table_name, cols |-> cols, where |-> where]
AB(a, b) == [a |-> a, b |-> b]

CreateSchema == Statement(<<<<"CREATE">>, <<"SCHEMA">>, <<"s">>>>, Other)
AgainSchema == Statement(<<<<"CREATE">>, <<"SCHEMA">>, <<"s", ";">>>>, Other)
CreateT == Statement(<<<<"CREATE">>, <<"TABLE">>, <<"t", "(", "a">>, <<"INT", ",", "b">>, <<"STRING", ")">>>>, Other)
AgainT == Statement(<<<<"CREATE">>, <<"TABLE">>, <<"t", "(", "b">>, <<"STRING", ",", "a">>, <<"INT", ")">>>>, Other)
CreateU == Statement(<<<<"CREATE">>, <<"TABLE">>, <<"u", "(", "b">>, <<"STRING", ",", "a">>, <<"INT", ")">>>>, Other)
InsertTwo == Statement(<<<<"INSERT">>, <<"INTO">>, <<"t">>, <<"VALUES">>,
                         <<"(", "1", ",", "x", ")", ",", "(", "2", ",", "long", ")">>>>,
                       Inserts("t", <<AB("1", "x"), AB("2", "long")>>))
InsertListed == Statement(<<<<"INSERT">>, <<"INTO">>, <<"t", "(", "b", ",", "a", ")">>, <<"VALUES">>,
                            <<"(", "3", ",", "2", ")">>>>,
                          Inserts("t", <<AB("2", "3")>>))
InsertWrong == Statement(<<<<"INSERT">>, <<"INTO">>, <<"t", "(", "a", ",", "b", ")">>, <<"VALUES">>,
                           <<"(", "1", ",", "x", ")", ",", "(", "x", ",", "y", ")">>>>,
                         Inserts("t", <<AB("1", "x"), AB("x", "y")>>))
\* VALUES is no keyword here.
InsertGlued == Statement(<<<<"INSERT">>, <<"INTO">>, <<"t">>, <<"VALUES", "(", "1", ",", "x", ")">>>>,
                         Inserts("t", <<AB("1", "x")>>))
InsertU == Statement(<<<<"INSERT">>, <<"INTO">>, <<"u", "(", "a", ")">>, <<"VALUES">>, <<"(", "2", ")">>>>,
                     Inserts("u", <<[a |-> "2"]>>))
SelectAll == Statement(<<<<"SELECT">>, <<"*">>, <<"FROM">>, <<"t">>>>, Selects("t", <<"*">>, << >>))
SelectSome == Statement(<<<<"SELECT">>, <<"b", ",", "a">>, <<"FROM">>, <<"t">>, <<"WHERE">>, <<"a", ">", "=", "2">>>>,
                        Selects("t", <<"b", "a">>, <<"a", ">=", "2">>))

MCRequests ==
    [CreateSchema |-> CreateSchema, AgainSchema |-> AgainSchema,
     CreateT |-> CreateT, AgainT |-> AgainT, CreateU |-> CreateU,
     InsertTwo |-> InsertTwo, InsertListed |-> InsertListed,
     InsertWrong |-> InsertWrong, InsertGlued |-> InsertGlued, InsertU |-> InsertU,
     SelectAll |-> SelectAll, SelectSome |-> SelectSome]
=============================================================================
