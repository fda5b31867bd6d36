-------------------------------- MODULE Parser --------------------------------
(***************************************************************************)
(* The parser: SQL text, as the tokens the tokenizer cuts it into, becomes *)
(* the statement the planners work on; and a query becomes text again when *)
(* it is stored as a view.                                                 *)
(*                                                                         *)
(* A token is [type, val]; lexer keeps the ones yet to be read, of which   *)
(* the first is the current one.  A method of parser takes them and gives  *)
(* its value and those it leaves, or throws.                               *)
(***************************************************************************)
EXTENDS Integers, SequencesExt

Token(type, val) == [type |-> type, val |-> val]
Word(w) == Token("word", w)
Delim(c) == Token("delim", c)

Parsed(val, toks) == [ok |-> TRUE, val |-> val, toks |-> toks]
bad_syntax == [ok |-> FALSE]

(* One method after the other.  TLC computes r once.                       *)
Then(r, F(_, _)) ==
  CHOOSE y \in {IF p.ok THEN F(p.val, p.toks) ELSE bad_syntax : p \in {r}} : TRUE

-----------------------------------------------------------------------------
(* lexer.                                                                  *)

mKeywords ==
  {"select", "from", "where", "and", "insert", "into", "values", "delete", "update",
   "set", "create", "table", "varchar", "int", "view", "as", "index", "on"}

match(toks, type) == toks # <<>> /\ Head(toks).type = type
match_delim(toks, c) == match(toks, "delim") /\ Head(toks).val = c
match_keyword(toks, w) == match(toks, "word") /\ Head(toks).val = w
match_id(toks) == match(toks, "word") /\ Head(toks).val \notin mKeywords

eat(toks) == Parsed(Head(toks).val, Tail(toks))
eat_delim(toks, c) == IF match_delim(toks, c) THEN eat(toks) ELSE bad_syntax
eat_keyword(toks, w) == IF match_keyword(toks, w) THEN eat(toks) ELSE bad_syntax
eat_int_constant(toks) == IF match(toks, "number") THEN eat(toks) ELSE bad_syntax
eat_string_constant(toks) == IF match(toks, "string") THEN eat(toks) ELSE bad_syntax
eat_id(toks) == IF match_id(toks) THEN eat(toks) ELSE bad_syntax

-----------------------------------------------------------------------------
(* Expressions, terms and predicates.                                      *)

Expression(kind, of) == [kind |-> kind, of |-> of]

new_constant(toks) ==
  IF match(toks, "string")
  THEN Then(eat_string_constant(toks), LAMBDA s, t : Parsed(Expression("string", s), t))
  ELSE Then(eat_int_constant(toks), LAMBDA i, t : Parsed(Expression("int", i), t))

new_expression(toks) ==
  IF match_id(toks) THEN Then(eat_id(toks), LAMBDA f, t : Parsed(Expression("field", f), t))
  ELSE new_constant(toks)

new_term(toks) ==
  Then(new_expression(toks), LAMBDA lhs, t1 :
  Then(eat_delim(t1, "="), LAMBDA eq, t2 :
  Then(new_expression(t2), LAMBDA rhs, t3 :
    Parsed([lhs |-> lhs, rhs |-> rhs], t3))))

(* What is parsed by Item, once or more, with a separator in between.      *)
list(toks, Item(_), sep) ==
  LET last[n \in Nat] ==   \* of the last n tokens
        Then(Item(SubSeq(toks, Len(toks) - n + 1, Len(toks))), LAMBDA x, t :
          IF ~(match(t, sep.type) /\ Head(t).val = sep.val) THEN Parsed(<<x>>, t)
          ELSE Then(last[Len(t) - 1], LAMBDA xs, u : Parsed(<<x>> \o xs, u)))
  IN last[Len(toks)]

new_predicate(toks) == list(toks, new_term, Word("and"))
select_list(toks) == list(toks, eat_id, Delim(","))
table_list(toks) ==
  Then(list(toks, eat_id, Delim(",")), LAMBDA ts, t : Parsed(ToSet(ts), t))
const_list(toks) == list(toks, new_constant, Delim(","))

where(toks) ==
  IF match_keyword(toks, "where") THEN new_predicate(Tail(toks)) ELSE Parsed(<<>>, toks)

-----------------------------------------------------------------------------
(* Statements.  What follows one is not looked at.                         *)

parser_query(toks) ==
  Then(eat_keyword(toks, "select"), LAMBDA k1, t1 :
  Then(select_list(t1), LAMBDA fields, t2 :
  Then(eat_keyword(t2, "from"), LAMBDA k2, t3 :
  Then(table_list(t3), LAMBDA tables, t4 :
  Then(where(t4), LAMBDA pred, t5 :
    Parsed([op |-> "query", fields |-> fields, tables |-> tables, pred |-> pred], t5))))))

parser_remove(toks) ==
  Then(eat_keyword(toks, "delete"), LAMBDA k1, t1 :
  Then(eat_keyword(t1, "from"), LAMBDA k2, t2 :
  Then(eat_id(t2), LAMBDA tbl, t3 :
  Then(where(t3), LAMBDA pred, t4 :
    Parsed([op |-> "delete", tbl |-> tbl, pred |-> pred], t4)))))

(* The fields and the values need not be as many.                          *)
parser_insert(toks) ==
  Then(eat_keyword(toks, "insert"), LAMBDA k1, t1 :
  Then(eat_keyword(t1, "into"), LAMBDA k2, t2 :
  Then(eat_id(t2), LAMBDA tbl, t3 :
  Then(eat_delim(t3, "("), LAMBDA d1, t4 :
  Then(select_list(t4), LAMBDA fields, t5 :
  Then(eat_delim(t5, ")"), LAMBDA d2, t6 :
  Then(eat_keyword(t6, "values"), LAMBDA k3, t7 :
  Then(eat_delim(t7, "("), LAMBDA d3, t8 :
  Then(const_list(t8), LAMBDA vals, t9 :
  Then(eat_delim(t9, ")"), LAMBDA d4, t :
    Parsed([op |-> "insert", tbl |-> tbl, fields |-> fields, vals |-> vals], t)))))))))))

parser_modify(toks) ==
  Then(eat_keyword(toks, "update"), LAMBDA k1, t1 :
  Then(eat_id(t1), LAMBDA tbl, t2 :
  Then(eat_keyword(t2, "set"), LAMBDA k2, t3 :
  Then(eat_id(t3), LAMBDA fld, t4 :
  Then(eat_delim(t4, "="), LAMBDA d1, t5 :
  Then(new_expression(t5), LAMBDA val, t6 :
  Then(where(t6), LAMBDA pred, t :
    Parsed([op |-> "modify", tbl |-> tbl, fld |-> fld, val |-> val, pred |-> pred], t))))))))

field_def(toks) ==
  Then(eat_id(toks), LAMBDA fld, t1 :
    IF match_keyword(t1, "int") THEN Parsed([fld |-> fld, type |-> "int"], Tail(t1))
    ELSE Then(eat_keyword(t1, "varchar"), LAMBDA k1, t2 :
         Then(eat_delim(t2, "("), LAMBDA d1, t3 :
         Then(eat_int_constant(t3), LAMBDA len, t4 :
         Then(eat_delim(t4, ")"), LAMBDA d2, t5 :
           Parsed([fld |-> fld, type |-> "varchar", length |-> len], t5))))))

create_table_cmd(toks) ==
  Then(eat_keyword(toks, "table"), LAMBDA k1, t1 :
  Then(eat_id(t1), LAMBDA tbl, t2 :
  Then(eat_delim(t2, "("), LAMBDA d1, t3 :
  Then(list(t3, field_def, Delim(",")), LAMBDA sch, t4 :
  Then(eat_delim(t4, ")"), LAMBDA d2, t :
    Parsed([op |-> "create_table", tbl |-> tbl, sch |-> sch], t))))))

create_view_cmd(toks) ==
  Then(eat_keyword(toks, "view"), LAMBDA k1, t1 :
  Then(eat_id(t1), LAMBDA name, t2 :
  Then(eat_keyword(t2, "as"), LAMBDA k2, t3 :
  Then(parser_query(t3), LAMBDA query, t :
    Parsed([op |-> "create_view", name |-> name, query |-> query], t)))))

create_index_cmd(toks) ==
  Then(eat_keyword(toks, "index"), LAMBDA k1, t1 :
  Then(eat_id(t1), LAMBDA name, t2 :
  Then(eat_keyword(t2, "on"), LAMBDA k2, t3 :
  Then(eat_id(t3), LAMBDA tbl, t4 :
  Then(eat_delim(t4, "("), LAMBDA d1, t5 :
  Then(eat_id(t5), LAMBDA fld, t6 :
  Then(eat_delim(t6, ")"), LAMBDA d2, t :
    Parsed([op |-> "create_index", name |-> name, tbl |-> tbl, fld |-> fld], t))))))))

parser_create(toks) ==
  Then(eat_keyword(toks, "create"), LAMBDA k, t :
    IF match_keyword(t, "table") THEN create_table_cmd(t)
    ELSE IF match_keyword(t, "view") THEN create_view_cmd(t)
    ELSE create_index_cmd(t))

update_cmd(toks) ==
  IF match_keyword(toks, "insert") THEN parser_insert(toks)
  ELSE IF match_keyword(toks, "delete") THEN parser_remove(toks)
  ELSE IF match_keyword(toks, "update") THEN parser_modify(toks)
  ELSE parser_create(toks)

-----------------------------------------------------------------------------
(* query_data::to_string, which view_def returns: the text, as it will be  *)
(* cut into tokens again.  tables are those of the query, in the order of   *)
(* their names.                                                            *)
Separated(items, sep) ==
  FlattenSeq([i \in 1 .. Len(items) |-> (IF i = 1 THEN <<>> ELSE <<sep>>) \o items[i]])

(* A string is printed without its quotes.                                 *)
printed(e) == IF e.kind = "int" THEN <<Token("number", e.of)>> ELSE <<Word(e.of)>>

view_def(query, tables) ==
  LET Names(ns) == Separated([i \in 1 .. Len(ns) |-> <<Word(ns[i])>>], Delim(","))
      terms == [i \in 1 .. Len(query.pred) |->
                  printed(query.pred[i].lhs) \o <<Delim("=")>> \o printed(query.pred[i].rhs)]
  IN <<Word("select")>> \o Names(query.fields)
     \o <<Word("from")>> \o Names(tables)
     \o (IF query.pred = <<>> THEN <<>>
         ELSE <<Word("where")>> \o Separated(terms, Word("and")))
=============================================================================
