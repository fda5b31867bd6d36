------------------------------- MODULE MCEngine -------------------------------
(* A small instance of Engine for TLC: a table with an int and a string,   *)
(* an index on each, and one on a field it does not have.  A block holds   *)
(* three records of the leaf of the string index.                          *)
EXTENDS Engine

MCIntMin == -1
MCSchema == [t |-> <<"a", "b">>]
MCKeySize == [a |-> 4, b |-> 24]
MCIndexes ==
  [ia |-> [tbl |-> "t", fld |-> "a"], ib |-> [tbl |-> "t", fld |-> "b"],
   iz |-> [tbl |-> "t", fld |-> "z"]]

(* Each statement as text, and what it means.  A string is named by a      *)
(* number.                                                                 *)
W(w) == <<Word(w)>>
Num(i) == <<Token("number", i)>>
Str(s) == <<Token("string", s)>>
Opt(S, F(_)) == IF S = {} THEN <<>> ELSE F(CHOOSE x \in S : TRUE)
Of(fld, i) == IF fld = "a" THEN Num(i) ELSE Str(i)
List(items) == <<Delim("(")>> \o Separated(items, Delim(",")) \o <<Delim(")")>>
Where(pred) ==
  Opt(DOMAIN pred, LAMBDA f : W("where") \o W(f) \o <<Delim("=")>> \o Of(f, pred[f]))

CreateTable(t) ==
  [means |-> [op |-> "create_table", tbl |-> t],
   text |-> W("create") \o W("table") \o W(t)
            \o List(<<W("a") \o W("int"), W("b") \o W("varchar") \o List(<<Num(20)>>)>>)]
CreateIndex(i) ==
  [means |-> [op |-> "create_index", name |-> i],
   text |-> W("create") \o W("index") \o W(i) \o W("on") \o W(MCIndexes[i].tbl)
            \o List(<<W(MCIndexes[i].fld)>>)]
CreateView ==
  [means |-> [op |-> "create_view"],
   text |-> W("create") \o W("view") \o W("w") \o W("as")
            \o W("select") \o W("a") \o W("from") \o W("t")]
Insert(row) ==
  LET flds == SelectSeq(<<"b", "a">>, LAMBDA f : f \in DOMAIN row)
  IN [means |-> [op |-> "insert", tbl |-> "t", row |-> row],
      text |-> W("insert") \o W("into") \o W("t") \o List([i \in DOMAIN flds |-> W(flds[i])])
               \o W("values") \o List([i \in DOMAIN flds |-> Of(flds[i], row[flds[i]])])]
Delete(pred) ==
  [means |-> [op |-> "delete", tbl |-> "t", pred |-> pred],
   text |-> W("delete") \o W("from") \o W("t") \o Where(pred)]
Modify(fld, val, pred) ==
  [means |-> [op |-> "modify", tbl |-> "t", fld |-> fld, val |-> val, pred |-> pred],
   text |-> W("update") \o W("t") \o W("set") \o W(fld) \o <<Delim("=")>> \o Of(fld, val)
            \o Where(pred)]
Select(fld, key) ==
  [means |-> [op |-> "select", tbl |-> "t", fld |-> fld, key |-> key],
   text |-> W("select") \o W(fld) \o W("from") \o W("t") \o Where(fld :> key)]
NoSQL ==
  [means |-> [op |-> "none"],
   text |-> W("update") \o W("t") \o W("set") \o W("a") \o Num(1)]

MCStatements ==
  {CreateTable("t"), CreateIndex("ia"), CreateIndex("ib"), CreateIndex("iz"), CreateView,
   Insert([a |-> 1, b |-> 1]), Insert([a |-> 2, b |-> 1]), Insert([b |-> 2]),
   Delete([b |-> 1]), Delete([a |-> 1]), 
   Modify("b", 2, [a |-> 1]), Modify("a", 2, [b |-> 1]),
   Select("a", 1), Select("b", 1), NoSQL}

MCDatabases ==
  {<<CreateTable("t"), CreateIndex("ia"), CreateIndex("ib")>>}
=============================================================================
