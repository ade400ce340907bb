------------------------------ MODULE MCParser ------------------------------
(* Model checking Parser over all expressions of two operators, statements *)
(* of all kinds inside one another, texts with one token changed, and all  *)
(* short sequences of tokens.                                              *)
EXTENDS Parser

L(list) == Node("list", list)
Id == Node("id", <<>>)
Num == Node("num", <<>>)
Str == Node("str", <<>>)
T == Node("type", <<>>)
Qualified == Node("::", <<Id, Id>>)
Binary == {"||", "&&", "|", "&", "==", "<", "+", "-", "*"}

(* What one more operator makes of the operands E and F. *)
Assigned(E, F) ==
  {Node(op, <<t, e>>) : op \in {"=", "+="}, t \in {x \in E : x.tag \in Targets}, e \in F}
Grown(E, F) ==
  {Node(op, <<e, f>>) : op \in Binary, e \in E, f \in F} \cup Assigned(E, F) \cup
  {Node(op, <<e>>) : op \in {"not", "neg", "addr"}, e \in E} \cup
  {Node("call", <<e, L(<<f>>)>>) : e \in E, f \in F} \cup
  {Node("index", <<e, f>>) : e \in E, f \in F} \cup
  {Node("init", <<e, L(<<f, Id>>)>>) : e \in E, f \in F} \cup
  {Node(tag, <<e, T>>) : tag \in {"as", "bitcast"}, e \in E} \cup
  {Node(".", <<e, Id>>) : e \in E} \cup
  {Node("++", <<e>>) : e \in {x \in E : x.tag \in Targets}}

Atoms == {Id}
Single == Grown(Atoms, Atoms) \cup
  {Num, Qualified, Node("sizeof", <<Node("pointer", <<T>>)>>), Node("init", <<Null, L(<<Id, Num>>)>>),
   Node("call", <<Node("generic", <<Id, L(<<T, Id>>)>>), L(<<Id>>)>>),
   Node("init", <<Node("generic", <<Id, L(<<Node("generic", <<Id, L(<<T>>)>>)>>)>>), L(<<>>)>>)}
Expressions == Single \cup Grown(Single, Atoms) \cup Grown(Atoms, Single)
               \cup {Node(op, <<e, f>>) : op \in Binary, e \in Single, f \in Single}

Do(e) == Node("do", <<e>>)
Var == Node("mut", <<T, Id, Num>>)
Function(body) == Node("func", <<T, Id, L(<<>>), L(<<Node("var", <<T, Id>>), Node("mut", <<Id, Id>>)>>), L(body)>>)
Extern == Node("extern", <<Node("func", <<Node("pointer", <<T>>), Id, L(<<Id, Id>>), L(<<>>)>>)>>)
Marked(s) == Node("with", <<L(<<Node("@", <<Id, L(<<>>)>>), Node("@", <<Id, L(<<Id, Num>>)>>)>>), s>>)
Break == Node("break", <<>>)

Simple ==
  {Do(Node("=", <<Id, Node("+", <<Id, Num>>)>>)), Var, Node("var", <<Node("reference", <<Qualified>>), Id>>),
   Node("return", <<>>), Node("return", <<Id>>), Break, Node("continue", <<>>)}

(* A body without braces must not be an if when an else may follow. *)
Around(s) ==
  {Node("if", <<Id, L(<<s>>)>>), Node("if", <<Id, L(<<s>>), s>>),
   Node("if", <<Id, L(<<>>), Node("if", <<Id, L(<<s>>), L(<<s, s>>)>>)>>),
   Node("while", <<Id, s>>), Node("while", <<Id, L(<<s, s>>)>>),
   Node("for", <<Var, Node("<", <<Id, Num>>), Node("++", <<Id>>), L(<<s>>)>>),
   Node("for", <<Do(Node("=", <<Id, Num>>)), Null, Null, s>>), Node("for", <<Null, Id, Null, L(<<>>)>>),
   Node("for", <<Null, Null, Node("+=", <<Id, Num>>), s>>),
   Node("switch", <<Id, L(<<Node("case", <<L(<<Num, Id>>), s>>), Node("case", <<L(<<Num>>), L(<<s, Break>>)>>),
                            Node("default", <<L(<<s>>)>>)>>)>>),
   Node("region", <<Id, L(<<s>>)>>), Node("namespace", <<Id, L(<<s, s>>)>>), Function(<<s>>)}

Declarations ==
  {Function(<<>>), Extern, Marked(Extern), Node("module", <<Str>>), Node("load", <<Str>>), Node("using", <<Qualified>>),
   Node("enum", <<Id, L(<<Id, Id>>)>>), Marked(Node("enum", <<Id, L(<<>>)>>)), Marked(Function(<<Var>>)), Marked(Var),
   Node("struct", <<Id, L(<<Id>>), L(<<Marked(Node("var", <<Node("generic", <<Id, L(<<T>>)>>), Id>>)),
                                       Function(<<Node("return", <<Id>>)>>), Var>>)>>)}

Inner == Simple \cup UNION {Around(s) : s \in Simple}
Statements == Inner \cup Declarations \cup UNION {Around(s) : s \in {x \in Inner : x.tag # "if"}}

MCSources == {<<Do(e)>> : e \in Expressions} \cup {<<Node("return", <<e>>), Var>> : e \in Single} \cup
             {<<s, Do(Id)>> : s \in Statements}

-----------------------------------------------------------------------------
(* Texts that may be wrong: one token left out or put in, or the end cut   *)
(* off; and all short texts over some tokens.                              *)
Samples ==
  {StatementsText(<<s, Do(Id)>>) :
     s \in Declarations \cup UNION {Around(x) : x \in {Do(Node("call", <<Id, L(<<Id>>)>>)), Break}}}
Inserted == {"id", "type", "(", ")", "{", "}", ";", "=", "return", ",", "<", ">"}
Edited(s) ==
  {RemoveAt(s, i) : i \in DOMAIN s} \cup {SubSeq(s, 1, i) : i \in DOMAIN s} \cup
  {InsertAt(s, i, t) : i \in DOMAIN s, t \in Inserted}

Short(S, n) == UNION {[1..k -> S] : k \in 1..n}
MCTexts ==
  UNION {Edited(s) : s \in Samples} \cup
  Short({"id", "type", "<", ">", "(", ")", ";", "*", "=", "as", "{"}, 5) \cup
  Short({"if", "else", "(", "id", ")", "{", "}", ";", "return"}, 5) \cup
  {<<"struct", "id", "{">> \o s : s \in Short({"id", "type", "(", ")", ";", "}", "@", "if"}, 5)} \cup
  {<<"switch", "(", "id", ")", "{">> \o s : s \in Short({"id", "case", ":", "default", ";", "}", "if", "{"}, 5)} \cup
  {<<"enum", "id", "{">> \o s : s \in Short({"id", ",", "}", ";", "if", "{"}, 4)}
=============================================================================
