------------------------------- MODULE Lexer -------------------------------
(***************************************************************************)
(* lexer::lexer of src/src/query_manager/lexer.cpp.  The text of a query   *)
(* is a sequence of words, separator characters and blanks; quotes are     *)
(* dropped and a word never stands next to another.  What a word is taken  *)
(* for depends on what follows it: lexer_table is asked only when that is  *)
(* a blank or the end, so a keyword right before a separator is an IDENT.  *)
(***************************************************************************)
EXTENDS Integers, Sequences

Blank      == " "
Separators == {",", ">", "=", "<", "*", ";", "(", ")"}
Clauses    == {"SELECT", "INSERT", "INTO", "VALUES", "FROM", "WHERE", "CREATE", "TABLE", "SCHEMA"}

Token(token_type, token_value) == [token_type |-> token_type, token_value |-> token_value]

\* No word, or one, of the type it gets.
WordTokens(word, token_type) == IF word = "" THEN << >> ELSE <<Token(token_type, word)>>

TypeOf(word) == IF word \in Clauses THEN "CLAUSE" ELSE "IDENT"

\* Adjacent separators are one operator when together they are one, else one each.
OperatorTokens(run) ==
    CASE run = <<">", "=">> -> <<Token("OPERATOR", ">=")>>
      [] run = <<"<", "=">> -> <<Token("OPERATOR", "<=")>>
      [] run = <<"=", "=">> -> <<Token("OPERATOR", "==")>>
      [] OTHER -> [i \in DOMAIN run |-> Token("OPERATOR", run[i])]

\* curr_word is the word being read, run the separators.
LexStep(s, piece) ==
    IF piece \in Separators
    THEN [tokens |-> s.tokens \o WordTokens(s.curr_word, "IDENT"),
          curr_word |-> "", run |-> Append(s.run, piece)]
    ELSE [tokens |-> s.tokens \o OperatorTokens(s.run) \o WordTokens(s.curr_word, TypeOf(s.curr_word)),
          curr_word |-> IF piece = Blank THEN "" ELSE piece, run |-> << >>]

lexer(query) ==
    LET start == [tokens |-> << >>, curr_word |-> "", run |-> << >>]
        after[n \in 0 .. Len(query)] == IF n = 0 THEN start ELSE LexStep(after[n - 1], query[n])
        s == after[Len(query)]
    IN  s.tokens \o OperatorTokens(s.run) \o WordTokens(s.curr_word, TypeOf(s.curr_word))
=============================================================================
