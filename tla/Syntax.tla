------------------------------- MODULE Syntax -------------------------------
(***************************************************************************)
(* What programs look like and what they mean (Doc.md, AI_CONTEXT.md): the *)
(* reference that the parser is compared with.                             *)
(*                                                                         *)
(* A program is a tree in the form it is written in: `x += y`, `x++` and   *)
(* `for` are nodes of their own.  Its text has no more parentheses than    *)
(* the precedences of Doc.md:308 ask for.  Meaning is the tree without     *)
(* what is rewritten "at parse time" (Doc.md:305, AI_CONTEXT.md:177).      *)
(***************************************************************************)
EXTENDS Naturals, Sequences, SequencesExt

Node(tag, kids) == [tag |-> tag, at |-> 0, kids |-> kids]
Null == Node("null", <<>>)

(* The table of Doc.md, from the operators that bind least, and above them *)
(* the unary ones and what is written behind an operand.                   *)
Table == << {"=", "+=", "-="}, {"||"}, {"&&"}, {"|"}, {"&"}, {"==", "!="},
            {"<", "<=", ">", ">="}, {"+", "-"}, {"*", "/"}, {"not", "neg", "addr"},
            {"call", "index", ".", "as", "bitcast", "init", "++", "--"} >>
Binds(tag) ==
  IF \E l \in DOMAIN Table : tag \in Table[l] THEN CHOOSE l \in DOMAIN Table : tag \in Table[l]
  ELSE Len(Table) + 1
Unary == 10
Behind == 11

Sign(tag) == CASE tag = "not" -> "!" [] tag = "neg" -> "-" [] tag = "addr" -> "&"
               [] tag = "pointer" -> "*" [] tag = "reference" -> "&"

-----------------------------------------------------------------------------
(* The text of an expression, where operators below level need parentheses. *)
RECURSIVE Text(_, _)

Commas(list) ==
  FlattenSeq([i \in DOMAIN list.kids |->
                (IF i = 1 THEN <<>> ELSE <<",">>) \o Text(list.kids[i], 1)])
In(open, toks, close) == <<open>> \o toks \o <<close>>

Bare(t) ==
  LET l == t.kids[1]
      r == t.kids[2]
      b == Binds(t.tag)
  IN  CASE t.tag \in {"id", "num", "str", "type"} -> <<t.tag>>
        [] t.tag = "void" -> <<>>
        [] t.tag \in Table[1] -> Text(l, Behind) \o <<t.tag>> \o Text(r, b)
        [] t.tag \in UNION {Table[i] : i \in 2..9} -> Text(l, b) \o <<t.tag>> \o Text(r, b + 1)
        [] t.tag \in {"not", "neg", "addr", "pointer", "reference"} ->
             <<Sign(t.tag)>> \o Text(l, Unary)
        [] t.tag = "call" -> Text(l, Behind) \o In("(", Commas(r), ")")
        [] t.tag = "init" -> (IF l = Null THEN <<>> ELSE Text(l, Behind)) \o In("{", Commas(r), "}")
        [] t.tag = "index" -> Text(l, Behind) \o In("[", Text(r, 1), "]")
        [] t.tag \in {".", "::", "as"} -> Text(l, Behind) \o <<t.tag>> \o Text(r, Behind)
        [] t.tag = "bitcast" -> Text(l, Behind) \o <<"as", "!">> \o Text(r, Behind)
        [] t.tag \in {"++", "--"} -> Text(l, Behind) \o <<t.tag>>
        [] t.tag = "generic" -> Text(l, Behind) \o In("<", Commas(r), ">")
        [] t.tag = "sizeof" -> <<"sizeof">> \o In("(", Text(l, 1), ")")

Text(t, level) == IF Binds(t.tag) < level THEN In("(", Bare(t), ")") ELSE Bare(t)

-----------------------------------------------------------------------------
(* The text of a statement. *)
RECURSIVE StatementText(_)

StatementsText(list) == FlattenSeq([i \in DOMAIN list |-> StatementText(list[i])])

Optional(toks, kids, i) == IF i \in DOMAIN kids THEN toks \o Text(kids[i], 1) ELSE <<>>

(* A declaration without its end; a body, in braces when it is a list. *)
Declared(t) ==
  (IF t.tag = "mut" THEN <<"mut">> ELSE <<>>) \o Text(t.kids[1], 1) \o Text(t.kids[2], 1)
BodyText(t) == IF t.tag = "list" THEN In("{", StatementsText(t.kids), "}") ELSE StatementText(t)
NamesText(list) == IF list.kids = <<>> THEN <<>> ELSE In("<", Commas(list), ">")
ClauseText(t) == IF t = Null THEN <<>> ELSE Text(t, 1)

ParamsText(list) ==
  FlattenSeq([i \in DOMAIN list.kids |-> (IF i = 1 THEN <<>> ELSE <<",">>) \o Declared(list.kids[i])])
ValuesText(list) == FlattenSeq([i \in DOMAIN list.kids |-> <<"case">> \o Text(list.kids[i], 1) \o <<":">>])
AttributeText(t) ==
  <<"@">> \o Text(t.kids[1], 1) \o
  (IF t.kids[2].kids = <<>> THEN <<>> ELSE In("(", Commas(t.kids[2]), ")"))

StatementText(t) ==
  LET k == t.kids
      x == k[1]
      y == k[2]
  IN  CASE t.tag = "do" -> Text(x, 1) \o <<";">>
        [] t.tag \in {"var", "mut"} -> Declared(t) \o Optional(<<"=">>, k, 3) \o <<";">>
        [] t.tag = "return" -> <<"return">> \o Optional(<<>>, k, 1) \o <<";">>
        [] t.tag \in {"break", "continue"} -> <<t.tag, ";">>
        [] t.tag \in {"module", "load", "using"} -> <<t.tag>> \o Text(x, 1) \o <<";">>
        [] t.tag \in {"namespace", "region"} -> <<t.tag>> \o Text(x, 1) \o BodyText(y)
        [] t.tag = "while" -> <<"while">> \o In("(", Text(x, 1), ")") \o BodyText(y)
        [] t.tag = "for" ->
             <<"for", "(">> \o (IF x = Null THEN <<";">> ELSE StatementText(x)) \o
             ClauseText(y) \o <<";">> \o ClauseText(k[3]) \o <<")">> \o BodyText(k[4])
        [] t.tag = "if" ->
             <<"if">> \o In("(", Text(x, 1), ")") \o BodyText(y) \o
             (IF Len(k) = 3 THEN <<"else">> \o BodyText(k[3]) ELSE <<>>)
        [] t.tag = "switch" ->
             <<"switch">> \o In("(", Text(x, 1), ")") \o In("{", StatementsText(y.kids), "}")
        [] t.tag = "case" -> ValuesText(x) \o BodyText(y)
        [] t.tag = "default" -> <<"default", ":">> \o BodyText(x)
        [] t.tag = "func" ->
             Declared(t) \o NamesText(k[3]) \o In("(", ParamsText(k[4]), ")") \o
             (IF Len(k) = 5 THEN BodyText(k[5]) ELSE <<";">>)
        [] t.tag = "extern" -> <<"extern">> \o StatementText(x)
        [] t.tag = "struct" ->
             <<"struct">> \o Text(x, 1) \o NamesText(y) \o BodyText(k[3]) \o <<";">>
        [] t.tag = "enum" -> <<"enum">> \o Text(x, 1) \o In("{", Commas(y), "}") \o <<";">>
        [] t.tag = "with" -> FlattenSeq([i \in DOMAIN x.kids |-> AttributeText(x.kids[i])]) \o StatementText(y)

-----------------------------------------------------------------------------
(* What a statement or an expression means. *)
RECURSIVE Meaning(_)

AsList(t) == IF t.tag = "list" THEN t ELSE Node("list", <<t>>)
Combined(tag) == CASE tag \in {"+=", "++"} -> "+" [] tag \in {"-=", "--"} -> "-"

Meaning(t) ==
  LET k == [i \in DOMAIN t.kids |-> Meaning(t.kids[i])]
      body(i) == Meaning(AsList(t.kids[i]))
      given(i) == IF t.kids[i] = Null THEN <<>> ELSE <<k[i]>>
      set(v) == Node("=", <<k[1], Node(Combined(t.tag), <<k[1], v>>)>>)
  IN  CASE t.tag \in {"+=", "-="} -> set(k[2])
        [] t.tag \in {"++", "--"} -> set(Node("num", <<>>))
        [] t.tag \in {"while", "case"} -> Node(t.tag, <<k[1], body(2)>>)
        [] t.tag = "default" -> Node(t.tag, <<body(1)>>)
        [] t.tag = "if" ->
             Node("if", IF Len(k) = 2 THEN <<k[1], body(2)>>
                        ELSE <<k[1], body(2), IF t.kids[3].tag = "if" THEN k[3] ELSE body(3)>>)
        [] t.tag = "for" ->
             LET test == IF t.kids[2] = Null THEN Node("num", <<>>) ELSE k[2]
             IN  Node("block", given(1) \o <<Node("while", <<test, body(4)>> \o given(3))>>)
        [] OTHER -> Node(t.tag, k)

(* The tree without positions. *)
RECURSIVE Same(_, _)
Same(t, u) ==
  /\ t.tag = u.tag
  /\ Len(t.kids) = Len(u.kids)
  /\ \A i \in DOMAIN t.kids : Same(t.kids[i], u.kids[i])

(* The positions of the leaves. *)
RECURSIVE Leaves(_)
Leaves(t) == (IF t.at = 0 THEN {} ELSE {t.at}) \cup UNION {Leaves(t.kids[i]) : i \in DOMAIN t.kids}
=============================================================================
