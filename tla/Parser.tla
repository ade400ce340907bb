------------------------------- MODULE Parser -------------------------------
(***************************************************************************)
(* The parser (src/frontend/parser.cpp): recursive descent over the tokens *)
(* of a file, with recovery behind an error.                               *)
(*                                                                         *)
(* A token is its kind: "id" for every name, "type" for every built-in     *)
(* type, "num" for every literal but a string.  Generic parameters are     *)
(* therefore not told from other names.  The state of the parser is the    *)
(* position of `current`, whether an error was noted, and the node that    *)
(* the last function returned; `buffer` is what a lookahead has read of    *)
(* the text already, and the text itself takes its place.                  *)
(*                                                                         *)
(* A node has a tag, the position of its token when it is a leaf, and      *)
(* children.  A round of a loop that consumes nothing would be repeated    *)
(* for ever, as it depends on the position alone: it is noted as stuck.    *)
(***************************************************************************)
EXTENDS Naturals, Sequences, FiniteSets, FiniteSetsExt, Syntax

CONSTANTS Sources,   \* sequences of statements whose text is parsed
          Texts      \* further texts, well formed or not

VARIABLES source,    \* what the text stands for, or <<>> when it is not known
          text,      \* the tokens
          parser,    \* the state of the parser
          out        \* the statements returned to parse() so far

vars == <<source, text, parser, out>>

-----------------------------------------------------------------------------
(* Tokens.  Beyond the end the lexer returns TOKEN_EOF again and again. *)

Tok(i) == IF i \in DOMAIN text THEN text[i] ELSE "eof"
Cur(p) == Tok(p.at)

TypeTokens == {"type", "*", "&"}

(* The binary operators by precedence, and the operator of an assignment   *)
(* that combines.                                                          *)
Levels == << {"=", "+=", "-=", "*=", "/=", "&=", "|="}, {"||"}, {"&&"}, {"|"}, {"&"},
             {"==", "!="}, {"<", "<=", ">", ">="}, {"+", "-"}, {"*", "/"} >>
Precedence(t) == LET at == {l \in DOMAIN Levels : t \in Levels[l]}
                 IN  IF at = {} THEN 0 ELSE Max(at)
Combines == [t \in Levels[1] \ {"="} |->
               CASE t = "+=" -> "+" [] t = "-=" -> "-" [] t = "*=" -> "*"
                 [] t = "/=" -> "/" [] t = "&=" -> "&" [] t = "|=" -> "|"]

(* How many more of one bracket than of the other are in the text from i   *)
(* to j (at most what is opened).                                          *)
Nesting(open, close, i, j) ==
  Cardinality({k \in i..j : Tok(k) = open}) - Cardinality({k \in i..j : Tok(k) = close})

-----------------------------------------------------------------------------
(* Moving through the text. *)

Took(p, tree) == [p EXCEPT !.tree = tree]
Wrong(p) == [p EXCEPT !.bad = TRUE]
Advance(p) == IF Cur(p) = "eof" THEN p ELSE [p EXCEPT !.at = @ + 1]
Match(p, t) == IF Cur(p) = t THEN Advance(p) ELSE p

(* sync: to the end of the statement or the block, or to a keyword that    *)
(* starts a statement, whatever is nested being passed over.               *)
Starters == {"struct", "if", "while", "for", "switch", "return", "namespace", "break",
             "continue", "module", "load", "using", "@", "extern", "region", "enum"}
SyncPoint(i) ==
  Min({j \in i..Len(text) + 1 :
         \/ Tok(j) = "eof"
         \/ /\ Tok(j) \in {";", "}"} \cup Starters
            /\ Nesting("{", "}", i, j - 1) = 0})

PassOver(t, p) == IF t \in {";", ")"} /\ Cur(p) = "}" THEN p ELSE Advance(p)

(* Faults of expect: it stays in front of the token it did not expect, and *)
(* it does not note the error.                                             *)
ExpectStays(p, t) ==
  IF Cur(p) = t THEN Advance(p)
  ELSE Wrong([p EXCEPT !.at = IF t \in {"{", "}", ";", ")"} THEN SyncPoint(@) ELSE @])
ExpectSilent(p, t) ==
  IF Cur(p) = t THEN Advance(p)
  ELSE Advance([p EXCEPT !.at = IF t \in {"{", "}", ";", ")"} THEN SyncPoint(@) ELSE @])

(* expect: a token that is missing is an error; the one found instead is   *)
(* consumed, except a closing brace that was looked for.                   *)
Expect(p, t) ==
  IF Cur(p) = t THEN Advance(p)
  ELSE PassOver(t, Wrong([p EXCEPT !.at = IF t \in {"{", "}", ";", ")"} THEN SyncPoint(@) ELSE @]))

Leaf(i) == [tag |-> Tok(i), at |-> i, kids |-> <<>>]

(* expect(TOKEN_IDENT) and expect(TOKEN_STRING), the text of the token      *)
(* being used even when it is another one.                                 *)
Word(p, t) == Took(Expect(p, t), Leaf(p.at))

-----------------------------------------------------------------------------
(* Lookahead.  A position that a lookahead does not reach is 0. *)

(* looks_like_generic_args at the `<` at i. *)
LooksGeneric(i) ==
  \E j \in i + 1..Len(text) :
    /\ Nesting("<", ">", i, j) = 0
    /\ \A k \in i + 1..j - 1 : Nesting("<", ">", i, k) > 0
    /\ \A k \in i + 1..j : Tok(k) \in {"id", "::", "<", ">", ","} \cup TypeTokens
    /\ Tok(j + 1) \in {"(", "{"}

(* Behind the angle brackets that open at i, if any do. *)
SkipAngles(i) ==
  LET ends == {k \in i..Len(text) : Nesting("<", ">", i, k) = 0}
  IN  CASE Tok(i) # "<" -> i
        [] Tok(i) = "<" /\ (ends = {} \/ \E k \in i..Min(ends) : Tok(k) = ";") -> 0
        [] OTHER -> Min(ends) + 1

(* Behind the type that starts at i. *)
SkipType(i) ==
  LET name == Min({k \in i..Len(text) + 1 : Tok(k) \notin {"*", "&"}})
      end  == Min({k \in name + 1..Len(text) + 2 : (k - name) % 2 = 1 /\ Tok(k) # "::"})
  IN  CASE Tok(name) = "type" -> name + 1
        [] Tok(name) = "id" /\ \A k \in name..end - 1 : (k - name) % 2 = 0 => Tok(k) = "id" ->
             SkipAngles(end)
        [] OTHER -> 0

(* declaration_kind: what a statement at i declares. *)
DeclarationKind(i) ==
  LET name == SkipType(IF Tok(i) = "mut" THEN i + 1 ELSE i)
      end  == SkipAngles(name + 1)
  IN  CASE Tok(name) # "id" \/ end = 0 -> "none"
        [] Tok(name) = "id" /\ end # 0 /\ Tok(end) = "(" -> "func"
        [] OTHER -> "var"

-----------------------------------------------------------------------------
(* The functions that call one another.  what is the function or the loop, *)
(* arg its parameter or what the loop has collected.                       *)
RECURSIVE Parse(_, _, _)

(* `do item while match(TOKEN_COMMA)`, and such a list up to a bracket. *)
List(what, p) == Parse(what, p, <<>>)
ListUpTo(what, close, p) ==
  Expect(IF Cur(p) = close THEN Took(p, Node("list", <<>>)) ELSE List(what, p), close)

(* parse_type.  A name may have a path and arguments; nothing is consumed  *)
(* when there is no type.                                                  *)
RECURSIVE Path(_)
Path(p) ==
  IF Cur(p) # "::" THEN p
  ELSE LET q == Word(Advance(p), "id") IN Path(Took(q, Node("::", <<p.tree, q.tree>>)))

Type(p, implicit) ==
  CASE Cur(p) \in {"*", "&"} ->
         LET q == Parse("type", Advance(p), implicit)
         IN  IF q.tree = Null THEN q
             ELSE Took(q, Node(IF Cur(p) = "*" THEN "pointer" ELSE "reference", <<q.tree>>))
    [] Cur(p) = "type" -> Took(Advance(p), Leaf(p.at))
    [] Cur(p) = "id" ->
         LET q == Path(Took(Advance(p), Leaf(p.at)))
             a == Expect(List("types", Advance(q)), ">")
         IN  IF Cur(q) = "<" THEN Took(a, Node("generic", <<q.tree, a.tree>>)) ELSE q
    [] OTHER -> IF implicit THEN Took(p, Node("void", <<>>)) ELSE Took(Wrong(p), Null)

Targets == {"id", ".", "index"}

(* parse_prefix.  A type that is none is followed up as any other token. *)
Unexpected(p) ==
  LET i == ListUpTo("exprs", "}", Advance(p))
  IN  IF Cur(p) = "{" THEN Took(i, Node("init", <<Null, i.tree>>))
      ELSE Took(Advance(Wrong(p)), Null)
Prefix(p) ==
  LET q == Advance(p)
      t == Parse("type", p, FALSE)
      s == Parse("type", Expect(q, "("), FALSE)
      e == Parse("expr", q, 10)
  IN  CASE Cur(p) \in {"num", "str"} -> Took(q, Leaf(p.at))
        [] Cur(p) = "sizeof" -> Took(Expect(s, ")"), Node("sizeof", <<s.tree>>))
        [] Cur(p) = "!" -> Took(e, Node("not", <<e.tree>>))
        [] Cur(p) = "-" -> Took(e, Node("neg", <<e.tree>>))
        [] Cur(p) = "&" -> Took(e, Node("addr", <<e.tree>>))
        [] Cur(p) = "id" -> Path(Took(q, Leaf(p.at)))
        [] Cur(p) = "(" -> Expect(Parse("expr", q, 0), ")")
        [] Cur(p) \in {"type", "*"} -> IF t.tree = Null THEN Unexpected(t) ELSE t
        [] OTHER -> Unexpected(p)

(* The rest of parse_postfix and of the loop of parse_expr, p.tree being   *)
(* what is on the left.                                                    *)
Applied(p, tag, what, close) ==
  LET q == ListUpTo(what, close, Advance(p)) IN Took(q, Node(tag, <<p.tree, q.tree>>))

GenericApplied(p) ==
  LET a == Expect(List("types", Advance(p)), ">")
      r == ListUpTo("exprs", IF Cur(a) = "{" THEN "}" ELSE ")", Expect(a, IF Cur(a) = "{" THEN "{" ELSE "("))
  IN  Took(r, Node(IF Cur(a) = "{" THEN "init" ELSE "call",
                   <<Node("generic", <<p.tree, a.tree>>), r.tree>>))

One == Node("num", <<>>)
Increment(p) ==
  LET sum == Node(IF Cur(p) = "++" THEN "+" ELSE "-", <<p.tree, One>>)
  IN  Took(Advance(p), Node("=", <<p.tree, sum>>))

Cast(p) ==
  LET q == Match(Advance(p), "!")
      t == Parse("type", q, FALSE)
  IN  Took(t, Node(IF Cur(Advance(p)) = "!" THEN "bitcast" ELSE "as", <<p.tree, t.tree>>))

(* parse_postfix, one turn of its loop after the other. *)
Postfix(p) ==
  LET more(q) == Parse("postfix", q, 0)
  IN  CASE Cur(p) = "<" /\ Tok(p.at + 1) \in {"id"} \cup TypeTokens /\ LooksGeneric(p.at) ->
             more(GenericApplied(p))
        [] Cur(p) = "(" -> more(Applied(p, "call", "exprs", ")"))
        [] Cur(p) = "{" -> more(Applied(p, "init", "exprs", "}"))
        [] Cur(p) = "[" ->
             LET q == Parse("expr", Advance(p), 0)
             IN  more(Took(Expect(q, "]"), Node("index", <<p.tree, q.tree>>)))
        [] Cur(p) = "." ->
             LET q == Word(Advance(p), "id") IN more(Took(q, Node(".", <<p.tree, q.tree>>)))
        [] Cur(p) \in {"++", "--"} ->
             IF p.tree.tag \in Targets THEN more(Increment(p)) ELSE Wrong(Advance(p))
        [] Cur(p) = "as" ->
             LET c == Cast(p)
             IN  IF c.tree.kids[2] = Null THEN Took(Wrong(c), p.tree) ELSE more(c)
        [] OTHER -> p

(* The loop of parse_expr, whose right operands hold operators that bind   *)
(* at least as tight as right says.  An assignment ends it.                *)
InfixWith(p, min, right) ==
  LET prec == Precedence(Cur(p))
      q    == Parse("expr", Advance(p), IF prec = 1 THEN prec ELSE right)
      both == <<p.tree, q.tree>>
  IN  CASE prec < min \/ prec = 0 -> p
        [] prec >= min /\ Cur(p) = "=" ->
             IF p.tree.tag \in Targets THEN Took(q, Node("=", both)) ELSE Took(Wrong(q), p.tree)
        [] prec >= min /\ prec # 0 /\ Cur(p) \in DOMAIN Combines ->
             Took(q, Node("=", <<p.tree, Node(Combines[Cur(p)], both)>>))
        [] OTHER -> Parse("infix", Took(q, Node(Cur(p), both)), min)

(* Fault: operators of one level are grouped from the right. *)
InfixFromRight(p, min) == InfixWith(p, min, Precedence(Cur(p)))
Infix(p, min) == InfixWith(p, min, Precedence(Cur(p)) + 1)

(* parse_expr *)
Expr(p, min) ==
  LET q == Prefix(p) IN IF q.tree = Null THEN q ELSE Infix(Postfix(q), min)

-----------------------------------------------------------------------------
(* Statements.  A handler starts behind the keyword of its statement. *)

Ended(p, tag, kids) == Expect(Took(p, Node(tag, kids)), ";")

Attribute(p) ==
  LET name == Word(Advance(p), "id")
      args == Expect(Parse("arguments", Advance(name), <<>>), ")")
  IN  IF Cur(name) = "(" THEN Took(args, Node("@", <<name.tree, args.tree>>))
      ELSE Took(name, Node("@", <<name.tree, Node("list", <<>>)>>))
Argument(p) ==
  LET e == Parse("expr", p, 0) IN IF Cur(e) = ")" THEN e ELSE Expect(e, ",")

(* parse_statement_body and parse_block.  The latter consumes nothing when *)
(* there is no brace, and stays where its own is missing.                  *)
Body(p) ==
  LET s == Parse("statement", p, 0)
  IN  IF Cur(p) = "{" THEN Expect(Parse("statements", Advance(p), <<>>), "}")
      ELSE Took(s, Node("list", <<s.tree>>))
Block(p) ==
  LET b == Parse("statements", Advance(p), <<>>)
  IN  IF Cur(p) = "{" THEN (IF Cur(b) = "}" THEN Advance(b) ELSE Wrong(b))
      ELSE Took(Wrong(p), Node("list", <<>>))

VarDecl(p) ==
  LET type == Parse("type", Match(p, "mut"), FALSE)
      name == Word(type, "id")
      init == Parse("expr", Advance(name), 0)
      tag  == IF Cur(p) = "mut" THEN "mut" ELSE "var"
  IN  IF Cur(name) = "=" THEN Ended(init, tag, <<type.tree, name.tree, init.tree>>)
      ELSE Ended(name, tag, <<type.tree, name.tree>>)

(* The names in angle brackets behind a declared name. *)
TypeParams(p) ==
  IF Cur(p) = "<" THEN Expect(List("names", Advance(p)), ">") ELSE Took(p, Node("list", <<>>))

Param(p) ==
  LET type == Parse("type", Match(p, "mut"), TRUE)
      name == Word(type, "id")
  IN  Took(name, Node(IF Cur(p) = "mut" THEN "mut" ELSE "var", <<type.tree, name.tree>>))

Func(p) ==
  LET type   == Parse("type", p, FALSE)
      name   == Word(type, "id")
      params == TypeParams(name)
      args   == ListUpTo("params", ")", Expect(params, "("))
      head   == <<type.tree, name.tree, params.tree, args.tree>>
      body   == Parse("block", args, 0)
  IN  IF Cur(args) = "{" THEN Took(body, Node("func", Append(head, body.tree)))
      ELSE Ended(args, "func", head)

(* A declaration with the attributes in front of it. *)
With(attributes, p) ==
  IF attributes.kids = <<>> THEN p ELSE Took(p, Node("with", <<attributes, p.tree>>))

Member(p) ==
  LET q    == Parse("attributes", p, <<>>)
      kind == DeclarationKind(q.at)
  IN  CASE kind = "var"  -> With(q.tree, Parse("var", q, 0))
        [] kind = "func" -> With(q.tree, Parse("func", q, 0))
        [] OTHER         -> Took(Advance(Wrong(q)), Null)

(* The body of a struct or an enum, with the semicolon. *)
Braced(what, p) == Expect(Expect(Parse(what, Expect(p, "{"), <<>>), "}"), ";")
Struct(p) ==
  LET name   == Word(p, "id")
      params == TypeParams(name)
      body   == Braced("members", params)
  IN  Took(body, Node("struct", <<name.tree, params.tree, body.tree>>))
Enum(p) ==
  LET name == Word(p, "id")
      body == Braced("variants", name)
  IN  Took(body, Node("enum", <<name.tree, body.tree>>))
Variant(p) ==
  LET q == Word(p, "id") IN IF Cur(q) = "}" THEN q ELSE Expect(q, ",")

Condition(p) == Expect(Parse("expr", Expect(p, "("), 0), ")")

(* parse_if and parse_else_if, which differ in the node they make. *)
If(p) ==
  LET test == Parse("condition", p, 0)
      then == Parse("body", test, 0)
      else == IF Cur(Advance(then)) = "if" THEN Parse("if", Advance(Advance(then)), 0)
              ELSE Parse("body", Advance(then), 0)
  IN  IF Cur(then) = "else" THEN Took(else, Node("if", <<test.tree, then.tree, else.tree>>))
      ELSE Took(then, Node("if", <<test.tree, then.tree>>))

While(p) ==
  LET test == Parse("condition", p, 0)
      body == Parse("body", test, 0)
  IN  Took(body, Node("while", <<test.tree, body.tree>>))

(* parse_for: a block of the first clause and a while with the third.  The *)
(* fault runs the third clause as the last statement of the body.          *)
ForWith(p, loop(_, _, _)) ==
  LET start == Expect(p, "(")
      expr  == Parse("expr", start, 0)
      init  == CASE Cur(start) = ";" -> Took(Advance(start), Node("list", <<>>))
                 [] Cur(start) # ";" /\ DeclarationKind(start.at) = "var" -> Parse("var", start, 0)
                 [] OTHER -> Ended(expr, "do", <<expr.tree>>)
      first == IF Cur(start) = ";" THEN <<>> ELSE <<init.tree>>
      test  == Expect(IF Cur(init) = ";" THEN Took(init, Null) ELSE Parse("expr", init, 0), ";")
      step  == Expect(IF Cur(test) = ")" THEN Took(test, Null) ELSE Parse("expr", test, 0), ")")
      body  == Parse("body", step, 0)
      while == loop(IF test.tree = Null THEN Node("num", <<>>) ELSE test.tree, body.tree, step.tree)
  IN  Took(body, Node("block", Append(first, while)))
StepAside(test, body, step) ==
  Node("while", <<test, body>> \o (IF step = Null THEN <<>> ELSE <<step>>))
StepInside(test, body, step) ==
  Node("while", <<test, Node("list", body.kids \o (IF step = Null THEN <<>> ELSE <<step>>))>>)

(* The fault and the function. *)
ForStepInside(p) == ForWith(p, StepInside)
For(p) == ForWith(p, StepAside)

(* The values that share a body, each behind its own `case`. *)
Values(p, done) ==
  LET value  == Parse("expr", p, 0)
      q      == Expect(value, ":")
      values == Append(done, value.tree)
  IN  IF Cur(q) = "case" THEN Parse("values", Advance(q), values)
      ELSE Took(q, Node("list", values))

(* One round of parse_switch, done being the arms so far. *)
Arm(p, done) ==
  LET values  == Parse("values", Advance(p), <<>>)
      body    == Parse("body", values, 0)
      other   == Parse("body", Expect(Advance(p), ":"), 0)
      again   == \E i \in DOMAIN done : done[i].tag = "default"
      resume  == Min({i \in p.at..Len(text) + 1 : Tok(i) \in {"eof", "case", "default", "}"}})
  IN  CASE Cur(p) = "case" -> Took(body, Node("case", <<values.tree, body.tree>>))
        [] Cur(p) = "default" ->
             Took(IF again THEN Wrong(other) ELSE other, Node("default", <<other.tree>>))
        [] OTHER -> Took([Wrong(p) EXCEPT !.at = resume], Null)
Switch(p) ==
  LET test == Parse("condition", p, 0)
      arms == Expect(Parse("arms", Expect(test, "{"), <<>>), "}")
  IN  Took(arms, Node("switch", <<test.tree, arms.tree>>))

Return(p) ==
  LET e == Parse("expr", p, 0)
  IN  IF Cur(p) = ";" THEN Ended(p, "return", <<>>) ELSE Ended(e, "return", <<e.tree>>)

(* region and namespace: a name and a block. *)
Named(p, tag) ==
  LET name == Word(p, "id")
      body == Parse("block", name, 0)
  IN  Took(body, Node(tag, <<name.tree, body.tree>>))

(* module and load. *)
Quoted(p, tag) == LET q == Word(p, "str") IN Ended(q, tag, <<q.tree>>)

(* using, and a statement that is an expression. *)
Expression(p, tag) == LET e == Parse("expr", p, 0) IN Ended(e, tag, <<e.tree>>)

(* parse_statement: attributes, and what is behind them.  Attributes in    *)
(* front of what takes none are dropped.                                   *)
Statement(p) ==
  LET q    == Parse("attributes", p, <<>>)
      k    == Cur(q)
      r    == Advance(q)
      kind == DeclarationKind(q.at)
  IN  CASE k = "return"    -> Return(r)
        [] k \in {"break", "continue"} -> Ended(r, k, <<>>)
        [] k = "if"        -> Parse("if", r, 0)
        [] k = "switch"    -> Switch(r)
        [] k = "while"     -> While(r)
        [] k = "for"       -> For(r)
        [] k = "extern"    -> LET f == Parse("func", r, 0) IN With(q.tree, Took(f, Node(k, <<f.tree>>)))
        [] k = "struct"    -> With(q.tree, Struct(r))
        [] k = "enum"      -> With(q.tree, Enum(r))
        [] k = "module"    -> With(q.tree, Quoted(r, k))
        [] k = "load"      -> Quoted(r, k)
        [] k = "using"     -> Expression(r, k)
        [] k \in {"namespace", "region"} -> Named(r, k)
        [] k \notin Starters /\ kind = "func" -> With(q.tree, Parse("func", q, 0))
        [] k \notin Starters /\ kind = "var"  -> With(q.tree, Parse("var", q, 0))
        [] OTHER -> Expression(q, "do")

-----------------------------------------------------------------------------
(* Loops: until a closing token, or while attributes follow. *)

Closed(what, p) ==
  CASE what = "attributes" -> Cur(p) # "@"
    [] what = "arguments"  -> Cur(p) \in {")", "eof"}
    [] OTHER               -> Cur(p) \in {"}", "eof"}

Round(what, p, done) ==
  CASE what = "attributes" -> Attribute(p)
    [] what = "arguments"  -> Argument(p)
    [] what = "statements" -> Statement(p)
    [] what = "members"    -> Member(p)
    [] what = "variants"   -> Variant(p)
    [] what = "arms"       -> Arm(p, done)

Resume(what, p, q, done) ==
  IF q.at = p.at THEN [q EXCEPT !.stuck = TRUE] ELSE Parse(what, q, Append(done, q.tree))

Loop(what, p, done) ==
  IF Closed(what, p) THEN Took(p, Node("list", done)) ELSE Resume(what, p, Round(what, p, done), done)

Item(what, p) ==
  CASE what = "exprs"  -> Parse("expr", p, 0)
    [] what = "types"  -> Parse("type", p, FALSE)
    [] what = "names"  -> Word(p, "id")
    [] what = "params" -> Param(p)

CommaList(what, p, done) ==
  LET q     == Item(what, p)
      items == Append(done, q.tree)
  IN  IF Cur(q) = "," THEN Parse(what, Advance(q), items) ELSE Took(q, Node("list", items))

Parse(what, p, arg) ==
  CASE what = "expr"      -> Expr(p, arg)
    [] what = "infix"     -> Infix(p, arg)
    [] what = "postfix"   -> Postfix(p)
    [] what = "type"      -> Type(p, arg)
    [] what = "statement" -> Statement(p)
    [] what = "body"      -> Body(p)
    [] what = "block"     -> Block(p)
    [] what = "var"       -> VarDecl(p)
    [] what = "func"      -> Func(p)
    [] what = "condition" -> Condition(p)
    [] what = "if"        -> If(p)
    [] what = "values"    -> Values(p, arg)
    [] what \in {"exprs", "types", "names", "params"} -> CommaList(what, p, arg)
    [] OTHER -> Loop(what, p, arg)

-----------------------------------------------------------------------------
(* parse(): statement by statement to the end of the text. *)

Start == [at |-> 1, bad |-> FALSE, stuck |-> FALSE, tree |-> Null]

Init ==
  /\ \/ /\ source \in Sources
        /\ text = StatementsText(source)
     \/ /\ source = <<>>
        /\ text \in Texts
  /\ parser = Start
  /\ out = <<>>

Done == Cur(parser) = "eof"

Push(q) ==
  /\ parser' = [q EXCEPT !.tree = Null, !.stuck = @ \/ q.at = parser.at]
  /\ out' = Append(out, q.tree)

ParseStatement ==
  /\ ~Done
  /\ ~parser.stuck
  /\ Push(Parse("statement", parser, 0))
  /\ UNCHANGED <<source, text>>

Next == ParseStatement

Spec == Init /\ [][Next]_vars

-----------------------------------------------------------------------------
(* The text of a program is parsed without an error into what the program  *)
(* means: operators group by the table of Doc.md, an assignment that       *)
(* combines reads its target, `for` runs its third clause behind the body. *)
TextMeansItsSource ==
  Done /\ source # <<>> =>
    /\ ~parser.bad
    /\ Len(out) = Len(source)
    /\ \A i \in DOMAIN out : Same(out[i], Meaning(source[i]))

(* What recovery, lookahead and the lists pass over is never part of a     *)
(* text without errors: every name and literal of it is in the tree, and   *)
(* its brackets nest.  (Attributes are left out: parse_statement drops     *)
(* those in front of a statement that takes none.)                         *)
AcceptedAsWritten ==
  Done /\ ~parser.bad /\ "@" \notin {text[i] : i \in DOMAIN text} =>
    /\ UNION {Leaves(out[i]) : i \in DOMAIN out} =
         {i \in DOMAIN text : text[i] \in {"id", "type", "num", "str"}}
    /\ \A b \in {<<"(", ")">>, <<"{", "}">>, <<"[", "]">>} :
         /\ Nesting(b[1], b[2], 1, Len(text)) = 0
         /\ \A i \in DOMAIN text : Nesting(b[1], b[2], 1, i) >= 0

(* Whatever the text, every round of every loop of the parser, that of      *)
(* parse() included, consumes something: the parser ends.                  *)
EveryRoundConsumes == ~parser.stuck
=============================================================================
