-------------------------------- MODULE Names --------------------------------
(***************************************************************************)
(* Which declaration a name stands for: the symbol table                   *)
(* (semantic/symbol_table.cpp), what SemanticAnalyzer does with it module  *)
(* by module (semantic.cpp), and what the IR generator makes of the same   *)
(* names afterwards (ir/ir_gen.cpp).                                       *)
(*                                                                         *)
(* A program is the sequence of its modules, dependencies first and the    *)
(* entry file last; a file that names no module has the namespace of its   *)
(* path (modules.cpp:220). A declaration is                                *)
(*   func      name, attrs, defined, uses (what the body calls or reads),  *)
(*             imports (the using statements at the top of the body);      *)
(*             struct is the struct it is a method of, or ""               *)
(*   struct    name, attrs, methods                                        *)
(*   enum      name, attrs, variants                                       *)
(*   global    name, attrs, mut (its initial value is a literal)           *)
(*   using     path                                                        *)
(*   module    attrs (the module declaration)                              *)
(*   enter name, and exit, around the declarations of a namespace          *)
(* and a use is [call |-> BOOLEAN, path |-> the name as it is written].    *)
(* Signatures are equal, arguments fit, and generics are left out.         *)
(*                                                                         *)
(* A symbol lives at a key <<space, local>>: the path of its namespace and *)
(* its name there, which for a method is <<struct, name>>. home is not in  *)
(* the code: the full name of the declaration the symbol was made for,     *)
(* which a copy made by using keeps.                                       *)
(***************************************************************************)
EXTENDS Integers, Sequences, SequencesExt, FiniteSetsExt

CONSTANT Programs

VARIABLES
  program,   \* the modules of one compilation
  phase,     \* what main.cpp is doing
  module,    \* the module it does it for
  at,        \* the next item of the module
  private,   \* items of the module that @hide or @private made private
  current,   \* SymbolTable::current_namespace
  spaces,    \* the namespaces that exist
  symbols,   \* the symbols of all namespaces
  scopes,    \* SymbolTable::scopes, outside of function bodies
  nested,    \* IRGenerator::namespace_stack
  functions, \* IRGenerator::function_ids
  globals,   \* IRGenerator::global_ids
  errors,    \* ctx.errors
  bound,     \* what analysis found for each use
  generated  \* what the code generated for each use refers to

table == <<current, spaces, symbols, scopes>>
code  == <<nested, functions, globals, generated>>
vars  == <<program, phase, module, at, private, table, code, errors, bound>>

Nothing == [kind |-> "none"]

(* The entries of f, and those of g for what f has none for. *)
Extend(f, g) == [x \in DOMAIN f \cup DOMAIN g |-> IF x \in DOMAIN f THEN f[x] ELSE g[x]]

-----------------------------------------------------------------------------
Here == program[module]
Item == Here.body[at]

(* How many namespaces are open at item i of a module. *)
Depth(items, i) ==
  Cardinality({j \in 1 .. i : items[j].kind = "enter"})
    - Cardinality({j \in 1 .. i : items[j].kind = "exit"})

IsList(s) == s \in Seq(Range(s))

(* The names and the imports in the body of a function. *)
IsBody(f) ==
  /\ f.name \in STRING /\ IsList(f.imports)
  /\ \A u \in DOMAIN f.uses : f.uses[u].path \in Seq(STRING) /\ f.uses[u].path # <<>>

(* What the parser makes of a declaration: names are not empty, methods    *)
(* know their struct.                                                      *)
IsDeclaration(d) ==
  /\ d.kind \in {"enter", "struct", "enum", "global"} => d.name \in STRING
  /\ d.kind = "func" => IsBody(d) /\ d.struct = ""
  /\ d.kind = "enum" => Range(d.variants) \subseteq STRING
  /\ d.kind = "struct" =>
       /\ IsList(d.methods) /\ d.name # ""
       /\ \A f \in Range(d.methods) : IsBody(f) /\ f.defined /\ f.struct = d.name

(* Modules have paths, and braces that match. (An empty file does nothing: *)
(* it is taken as one with a module declaration alone.)                    *)
IsModule(mod) ==
  /\ mod.path \in Seq(STRING) /\ mod.path # <<>>
  /\ IsList(mod.body) /\ mod.body # <<>>
  /\ \A i \in 1 .. Len(mod.body) : Depth(mod.body, i) >= 0 /\ IsDeclaration(mod.body[i])
  /\ Depth(mod.body, Len(mod.body)) = 0

ASSUME ProgramsAssumption ==
  \A p \in Programs : IsList(p) /\ p # <<>> /\ \A m \in 1 .. Len(p) : IsModule(p[m])

(* The namespaces open at item i. *)
SpaceOf(items, i) ==
  LET open == {j \in 1 .. i : items[j].kind = "enter"
                 /\ \A k \in j .. i : Depth(items, k) >= Depth(items, j)}
  IN  [n \in 1 .. Cardinality(open) |->
         items[CHOOSE j \in open : Cardinality({k \in open : k <= j}) = n].name]

(* What carries attributes, in order: declaration m = 0 of an item, and    *)
(* method m of a struct.                                                   *)
Carriers(items) ==
  LET Of(i) == LET d == items[i]
               IN  CASE d.kind = "struct" ->
                          << <<i, 0, d.attrs>> >> \o [m \in DOMAIN d.methods |-> <<i, m, d.methods[m].attrs>>]
                     [] d.kind \in {"func", "enum", "global", "module"} -> << <<i, 0, d.attrs>> >>
                     [] OTHER -> << >>
  IN  FlattenSeq([i \in 1 .. Len(items) |-> Of(i)])

(* The loop over the top-level declarations: @hide makes the ones that     *)
(* follow private unless they say what they are, until @unhide.            *)
HidePass(items) ==
  LET cs == Carriers(items)
      Top(k) == Depth(items, cs[k][1]) = 0
      hidden[k \in 0 .. Len(cs)] ==
        k > 0 /\ IF Top(k) THEN ("hide" \in cs[k][3] \/ hidden[k - 1]) /\ "unhide" \notin cs[k][3]
                          ELSE hidden[k - 1]
      byMode(k) == Top(k) /\ {"public", "private"} \cap cs[k][3] = {} /\ hidden[k]
  IN  {<<cs[k][1], cs[k][2]>> : k \in {j \in DOMAIN cs : "private" \in cs[j][3] \/ byMode(j)}}

-----------------------------------------------------------------------------
(* The enclosing namespaces of p, the innermost first, down to the global  *)
(* one: the first in which a symbol found(ns) lives, or Nothing.           *)
Climb(table_, p, key(_)) ==
  LET found == {n \in 0 .. Len(p) : key(SubSeq(p, 1, n)) \in DOMAIN table_}
  IN  IF found = {} THEN Nothing ELSE table_[key(SubSeq(p, 1, Max(found)))]

(* lookup: the open scopes from the last one back, then the namespaces     *)
(* outwards.                                                               *)
Lookup(table_, open, p, local) ==
  LET found == {n \in DOMAIN open : local \in DOMAIN open[n]}
  IN  IF found # {} THEN open[Max(found)][local]
      ELSE Climb(table_, p, LAMBDA ns : <<ns, local>>)

(* resolve_qualified, with the variants of an enumeration and the names    *)
(* that hold a "::" themselves as last resorts.                            *)
Resolve(table_, open, p, path) ==
  LET inner == Climb(table_, p, LAMBDA ns : <<ns \o Front(path), <<Last(path)>>>>)
  IN  IF Len(path) = 1 THEN Lookup(table_, open, p, path)
      ELSE IF inner # Nothing THEN inner
      ELSE IF Lookup(table_, open, p, <<Head(path)>>).kind = "enum"
           THEN Lookup(table_, open, p, <<Last(path)>>)
      ELSE Lookup(table_, open, p, path)

Symbol(kind, local, d, i) ==
  [kind |-> kind, private |-> i \in private, owner |-> Here.path,
   home |-> current \o local, defined |-> d]

(* declare_symbol where no scope is open, as in collect_declarations: the  *)
(* first of a name stays.                                                  *)
Free(local) == <<current, local>> \notin DOMAIN symbols
With(key, symbol) == Extend([k \in {key} |-> symbol], symbols)

(* declare_symbol for every entry: in the last scope, which ends with its  *)
(* block, or else in the current namespace.                                *)
Declare(entries) ==
  IF scopes = <<>>
  THEN /\ symbols' = Extend(symbols, [key \in {current} \X DOMAIN entries |-> entries[key[2]]])
       /\ UNCHANGED scopes
  ELSE /\ scopes' = Append(Front(scopes), Extend(Last(scopes), entries))
       /\ UNCHANGED symbols

Error(what) == [what |-> what, in |-> Here.path]
-----------------------------------------------------------------------------
Init ==
  /\ program \in Programs
  /\ phase = "hide" /\ module = 1 /\ at = 1 /\ private = {}
  /\ current = <<>> /\ spaces = {<<>>} /\ symbols = << >> /\ scopes = <<>>
  /\ nested = <<>> /\ functions = {} /\ globals = {}
  /\ errors = {} /\ bound = {} /\ generated = {}

(* The item is done: the next one, or the next phase once all are done. *)
Advance(then) ==
  IF at < Len(Here.body) THEN at' = at + 1 /\ UNCHANGED phase
                         ELSE at' = 1 /\ phase' = then

(* enter_namespace, once for every name of the path: a namespace is made   *)
(* when it is not there yet.                                               *)
EnterFrom(space, path) ==
  /\ current' = space \o path
  /\ spaces' = spaces \cup {space \o SubSeq(path, 1, n) : n \in 0 .. Len(path)}

(* The start of SemanticAnalyzer::analyze. *)
Hide ==
  /\ phase = "hide"
  /\ private' = HidePass(Here.body)
  /\ EnterFrom(current, Here.path)
  /\ phase' = "import"
  /\ UNCHANGED <<program, module, at, symbols, scopes, code, errors, bound>>

Copies(path) == {key[2] : key \in {k \in DOMAIN symbols : k[1] = path}}

(* Faulty: the importing module becomes the owner of its copies. *)
ImportedOwned(path) ==
  [local \in Copies(path) |-> [symbols[<<path, local>>] EXCEPT !.owner = Here.path]]

(* analyze_using: every symbol of the namespace, the private ones too, is  *)
(* copied with its owner; a name that is taken stays what it is.           *)
Imported(path) == [local \in Copies(path) |-> symbols[<<path, local>>]]

Using(path) ==
  IF path \in spaces
  THEN Declare(Imported(path)) /\ UNCHANGED errors
  ELSE errors' = errors \cup {Error("namespace not found")} /\ UNCHANGED <<symbols, scopes>>

(* The using statements at the top of the module come first. *)
Import ==
  /\ phase = "import"
  /\ IF Item.kind = "using" /\ Depth(Here.body, at) = 0
     THEN Using(Item.path)
     ELSE UNCHANGED <<symbols, scopes, errors>>
  /\ Advance("collect")
  /\ UNCHANGED <<program, module, private, current, spaces, code, bound>>

-----------------------------------------------------------------------------
(* collect_declarations. *)

(* Faulty: a second body is taken for the definition of a declaration. *)
CollectFunctionTwice(f) ==
  LET existing == Lookup(symbols, << >>, current, <<f.name>>)
  IN  IF existing = Nothing
      THEN /\ symbols' = With(<<current, <<f.name>>>>,
                              Symbol("func", <<f.name>>, f.defined, <<at, 0>>))
           /\ UNCHANGED errors
      ELSE IF existing.kind # "func"
      THEN errors' = errors \cup {Error("redeclaration")} /\ UNCHANGED symbols
      ELSE UNCHANGED <<symbols, errors>>

(* declare(FuncStmt): what lookup finds of the name, in whatever namespace *)
(* around, is taken for an earlier declaration of this function.           *)
CollectFunction(f) ==
  LET existing == Lookup(symbols, << >>, current, <<f.name>>)
      keys == {n \in 0 .. Len(current) : <<SubSeq(current, 1, n), <<f.name>>>> \in DOMAIN symbols}
      key == <<SubSeq(current, 1, Max(keys)), <<f.name>>>>
  IN  IF existing = Nothing
      THEN /\ symbols' = With(<<current, <<f.name>>>>,
                              Symbol("func", <<f.name>>, f.defined, <<at, 0>>))
           /\ UNCHANGED errors
      ELSE IF existing.kind # "func" \/ (existing.defined /\ f.defined)
      THEN errors' = errors \cup {Error("redeclaration")} /\ UNCHANGED symbols
      ELSE /\ symbols' = IF f.defined
                         THEN [symbols EXCEPT ![key].defined = TRUE, ![key].private = <<at, 0>> \in private]
                         ELSE symbols
           /\ UNCHANGED errors

(* declare(StructDecl) and declare_method. *)
CollectStruct(s) ==
  LET Method(m) == Symbol("func", <<s.name, s.methods[m].name>>, TRUE, <<at, m>>)
      First(name) == CHOOSE m \in DOMAIN s.methods :
                       s.methods[m].name = name /\ \A l \in 1 .. m - 1 : s.methods[l].name # name
      names == {s.methods[m].name : m \in DOMAIN s.methods}
      struct == Extend([methods |-> names], Symbol("struct", <<s.name>>, TRUE, <<at, 0>>))
  IN  IF Free(<<s.name>>)
      THEN /\ symbols' = Extend(With(<<current, <<s.name>>>>, struct),
                              [key \in {<<current, <<s.name, m>>>> : m \in names} |-> Method(First(key[2][2]))])
           /\ errors' = IF Cardinality(names) < Len(s.methods)
                        THEN errors \cup {Error("method redeclaration")} ELSE errors
      ELSE errors' = errors \cup {Error("redeclaration")} /\ UNCHANGED symbols

(* The variants are constants of the namespace, without the attributes of  *)
(* their enumeration.                                                      *)
CollectEnum(e) ==
  LET Variant(v) == Symbol("const", <<v>>, TRUE, << >>)
  IN  IF Free(<<e.name>>)
      THEN /\ symbols' = Extend(With(<<current, <<e.name>>>>, Symbol("enum", <<e.name>>, TRUE, <<at, 0>>)),
                              [key \in {<<current, <<v>>>> : v \in Range(e.variants)} |-> Variant(key[2][1])])
           /\ UNCHANGED errors
      ELSE errors' = errors \cup {Error("redeclaration")} /\ UNCHANGED symbols

Collect ==
  /\ phase = "collect"
  /\ Advance("analyze")
  /\ CASE Item.kind = "enter" -> EnterFrom(current, <<Item.name>>) /\ UNCHANGED <<symbols, errors>>
       [] Item.kind = "exit" -> current' = Front(current) /\ UNCHANGED <<spaces, symbols, errors>>
       [] Item.kind = "func" -> CollectFunction(Item) /\ UNCHANGED <<current, spaces>>
       [] Item.kind = "struct" -> CollectStruct(Item) /\ UNCHANGED <<current, spaces>>
       [] Item.kind = "enum" -> CollectEnum(Item) /\ UNCHANGED <<current, spaces>>
       [] OTHER -> UNCHANGED <<table, errors>>
  /\ UNCHANGED <<program, module, private, scopes, code, bound>>

-----------------------------------------------------------------------------
(* The bodies: analyze_func and the names in them. *)

(* The scope of a body holds what its using statements copy. *)
Scope(f) ==
  LET scope[i \in 0 .. Len(f.imports)] ==
        IF i = 0 THEN << >> ELSE Extend(scope[i - 1], Imported(f.imports[i]))
  IN  scope[Len(f.imports)]

(* The struct of a method, as the method's own name finds it: it need not  *)
(* be the one around it, when a scope holds another of the name.           *)
StructOf(f) == Lookup(symbols, scopes, current, <<f.struct>>)

(* A bare call in a method whose name is no symbol is one of a sibling. *)
Target(f, use) ==
  LET open == Append(scopes, Scope(f))
      symbol == Resolve(symbols, open, current, use.path)
  IN  IF use.call /\ symbol = Nothing /\ f.struct # "" /\ use.path \in {<<m>> : m \in StructOf(f).methods}
      THEN Lookup(symbols, open, current, <<f.struct>> \o use.path)
      ELSE symbol

CheckVisibility(symbol) == ~(symbol.private /\ symbol.owner # Here.path)

(* What analyze_call, analyze_var and analyze_namespace accept: a struct   *)
(* of a qualified name has no type, but that is no error by itself.        *)
Fits(use, symbol) ==
  IF use.call THEN symbol.kind = "func"
  ELSE symbol.kind \in {"global", "const"} \cup (IF Len(use.path) = 1 THEN {} ELSE {"func", "struct"})

Wrong(f, use) ==
  LET symbol == Target(f, use)
  IN  IF symbol = Nothing THEN {Error("undefined")}
      ELSE (IF CheckVisibility(symbol) THEN {} ELSE {Error("private")})
             \cup (IF Fits(use, symbol) THEN {} ELSE {Error("not of the kind")})

(* The place of a use: module, namespaces in it, function and number. *)
Site(space, f, u) == [module |-> Here.path, space |-> space, struct |-> f.struct,
                      func |-> f.name, use |-> f.uses[u], imports |-> f.imports, number |-> u]

Missing(f) == {i \in DOMAIN f.imports : f.imports[i] \notin spaces}

AnalyzeFunction(f) ==
  LET uses == IF f.defined THEN DOMAIN f.uses ELSE {}
  IN  /\ errors' = errors \cup {Error("namespace not found") : i \in Missing(f)}
                     \cup UNION {Wrong(f, f.uses[u]) : u \in uses}
      /\ bound' = bound \cup {[site |-> Site(current, f, u), symbol |-> Target(f, f.uses[u])] : u \in uses}

(* A method that its struct's name does not lead back to is not looked at. *)
IsMethod(f) == StructOf(f).kind = "struct" /\ f.name \in StructOf(f).methods

AnalyzeStruct(s) ==
  LET met == {m \in DOMAIN s.methods : IsMethod(s.methods[m])}
  IN  /\ errors' = errors \cup {Error("no method of the struct") : m \in DOMAIN s.methods \ met}
                     \cup (UNION {{Error("namespace not found") : i \in Missing(s.methods[m])} : m \in met})
                     \cup UNION {UNION {Wrong(s.methods[m], s.methods[m].uses[u]) :
                                          u \in DOMAIN s.methods[m].uses} : m \in met}
      /\ bound' = bound \cup UNION {{[site |-> Site(current, s.methods[m], u),
                                      symbol |-> Target(s.methods[m], s.methods[m].uses[u])] :
                                       u \in DOMAIN s.methods[m].uses} : m \in met}

(* analyze_var_decl: a global is declared where it stands, and one in a    *)
(* namespace is gone with the scope of its block.                          *)
AnalyzeGlobal(g) ==
  IF <<g.name>> \notin (IF scopes = <<>> THEN Copies(current) ELSE DOMAIN Last(scopes))
  THEN /\ Declare([local \in {<<g.name>>} |->
                     Symbol(IF g.mut THEN "global" ELSE "const", local, TRUE, <<at, 0>>)])
       /\ UNCHANGED errors
  ELSE errors' = errors \cup {Error("redeclaration")} /\ UNCHANGED <<symbols, scopes>>

Analyze ==
  /\ phase = "analyze"
  /\ Advance("leave")
  /\ CASE Item.kind = "enter" ->
            /\ EnterFrom(current, <<Item.name>>) /\ scopes' = Append(scopes, << >>)
            /\ UNCHANGED <<symbols, errors, bound>>
       [] Item.kind = "exit" ->
            /\ current' = Front(current) /\ scopes' = Front(scopes)
            /\ UNCHANGED <<spaces, symbols, errors, bound>>
       [] Item.kind = "func" -> AnalyzeFunction(Item) /\ UNCHANGED table
       [] Item.kind = "struct" -> AnalyzeStruct(Item) /\ UNCHANGED table
       [] Item.kind = "global" -> AnalyzeGlobal(Item) /\ UNCHANGED <<current, spaces, bound>>
       [] Item.kind = "using" -> Using(Item.path) /\ UNCHANGED <<current, spaces, bound>>
       [] OTHER -> UNCHANGED <<table, errors, bound>>
  /\ UNCHANGED <<program, module, private, code>>

(* Faulty: the namespaces of the module stay open. *)
LeaveOpen ==
  /\ phase = "leave"
  /\ IF errors # {} THEN phase' = "failed" /\ UNCHANGED module
     ELSE IF module < Len(program) THEN phase' = "hide" /\ module' = module + 1
     ELSE phase' = "register" /\ module' = 1
  /\ UNCHANGED <<program, at, private, table, code, errors, bound>>

(* The end of analyze, and the loop of main.cpp. *)
Leave ==
  /\ phase = "leave"
  /\ current' = <<>>
  /\ IF errors # {} THEN phase' = "failed" /\ UNCHANGED module
     ELSE IF module < Len(program) THEN phase' = "hide" /\ module' = module + 1
     ELSE phase' = "register" /\ module' = 1
  /\ UNCHANGED <<program, at, private, spaces, symbols, scopes, code, errors, bound>>

-----------------------------------------------------------------------------
(* gen_program registers every function of every module under its full     *)
(* name, then every global under its owner's.                              *)
Register ==
  /\ phase = "register"
  /\ LET Full(m, i) == program[m].path \o SpaceOf(program[m].body, i)
         Of(m, i) ==
           LET d == program[m].body[i]
           IN  CASE d.kind = "func" -> {Append(Full(m, i), d.name)}
                 [] d.kind = "struct" -> {Full(m, i) \o <<d.name, d.methods[k].name>> : k \in DOMAIN d.methods}
                 [] OTHER -> {}
         Global(m, i) ==
           LET d == program[m].body[i]
               symbol == IF d.kind = "global"
                         THEN Lookup(symbols, << >>, program[m].path, <<d.name>>) ELSE Nothing
           IN  IF symbol.kind \in {"global", "const"} THEN {Append(symbol.owner, d.name)} ELSE {}
     IN  /\ functions' = UNION {UNION {Of(m, i) : i \in 1 .. Len(program[m].body)} : m \in 1 .. Len(program)}
         /\ globals' = UNION {UNION {Global(m, i) : i \in 1 .. Len(program[m].body)} : m \in 1 .. Len(program)}
  /\ phase' = "generate"
  /\ EnterFrom(current, Here.path)
  /\ UNCHANGED <<program, module, at, private, symbols, scopes, nested, errors, bound, generated>>

(* Faulty: without the namespaces inside of the module. *)
FunctionIdOfModule(path, symbol) ==
  LET candidates == << path, current \o path >>
                      \o (IF symbol.kind = "func" THEN << symbol.owner \o path >> ELSE << >>)
      known == {i \in DOMAIN candidates : candidates[i] \in functions}
  IN  IF known = {} THEN Nothing ELSE [kind |-> "func", home |-> candidates[Min(known)]]

(* resolve_function_id. The symbol table stays in the module's namespace:  *)
(* namespace_stack alone follows the namespaces inside.                    *)
FunctionId(path, symbol) ==
  LET candidates == << path, current \o nested \o path, current \o path >>
                      \o (IF symbol.kind = "func" THEN << symbol.owner \o path >> ELSE << >>)
      known == {i \in DOMAIN candidates : candidates[i] \in functions}
  IN  IF known = {} THEN Nothing ELSE [kind |-> "func", home |-> candidates[Min(known)]]

(* A bare call in a method is one of a sibling, unless the name is a       *)
(* function by now.                                                        *)
CallId(f, path) ==
  LET symbol == Resolve(symbols, << >>, current, path)
      struct == Lookup(symbols, << >>, current, <<f.struct>>)
      method == <<f.struct>> \o path
  IN  IF /\ f.struct # "" /\ Len(path) = 1 /\ symbol.kind # "func"
         /\ struct.kind = "struct" /\ Last(path) \in struct.methods
      THEN FunctionId(method, Lookup(symbols, << >>, current, method))
      ELSE FunctionId(path, symbol)

(* A constant is written out, and so is what a qualified name stands for   *)
(* when its initial value is known; a global is read by its owner's name.  *)
ValueId(path) ==
  LET symbol == Resolve(symbols, << >>, current, path)
  IN  IF symbol.kind = "const" \/ (symbol.kind = "global" /\ Len(path) > 1) THEN [kind |-> "const", home |-> symbol.home]
      ELSE IF symbol.kind = "global" /\ Len(path) = 1 /\ symbol.owner \o path \in globals
      THEN [kind |-> "global", home |-> symbol.owner \o path]
      ELSE Nothing

Reference(f, use) == IF use.call THEN CallId(f, use.path) ELSE ValueId(use.path)

(* gen_function for one function, or for the methods of a struct. *)
Generated(fs) ==
  UNION {{[site |-> Site(current \o nested, f, u), symbol |-> Reference(f, f.uses[u])] :
            u \in DOMAIN f.uses} : f \in {g \in fs : g.defined}}

GenerateBodies(fs) ==
  /\ generated' = generated \cup Generated(fs)
  /\ errors' = errors \cup {Error("undefined") : x \in {y \in Generated(fs) : y.symbol = Nothing}}
  /\ UNCHANGED nested

Generate ==
  /\ phase = "generate"
  /\ CASE Item.kind = "enter" -> nested' = Append(nested, Item.name) /\ UNCHANGED <<generated, errors>>
       [] Item.kind = "exit" -> nested' = Front(nested) /\ UNCHANGED <<generated, errors>>
       [] Item.kind = "func" -> GenerateBodies({Item})
       [] Item.kind = "struct" -> GenerateBodies(Range(Item.methods))
       [] OTHER -> UNCHANGED <<nested, generated, errors>>
  /\ IF at < Len(Here.body)
     THEN at' = at + 1 /\ UNCHANGED <<phase, module, current, spaces>>
     ELSE IF module < Len(program)
     THEN /\ at' = 1 /\ module' = module + 1 /\ UNCHANGED phase
          /\ EnterFrom(<<>>, program[module + 1].path)
     ELSE /\ at' = 1 /\ phase' = IF errors' = {} THEN "compiled" ELSE "failed"
          /\ current' = <<>> /\ UNCHANGED <<module, spaces>>
  /\ UNCHANGED <<program, private, symbols, scopes, functions, globals, bound>>

Next == Hide \/ Import \/ Collect \/ Analyze \/ Leave \/ Register \/ Generate

Spec == Init /\ [][Next]_vars /\ WF_vars(Next)

-----------------------------------------------------------------------------
(* The program as its author reads it. *)

(* The functions, structs, enumerations and globals of the program: where  *)
(* each is, and whether the documentation has it private.                  *)
Declarations ==
  UNION {
    LET items == program[m].body
        cs == Carriers(items)
        Name(c) == IF c[2] = 0 THEN <<items[c[1]].name>>
                   ELSE <<items[c[1]].name, items[c[1]].methods[c[2]].name>>
        Top(k) == Depth(items, cs[k][1]) = 0
        Hidden(k) == \E j \in 1 .. k : /\ Top(j) /\ "hide" \in cs[j][3]
                                       /\ \A l \in j + 1 .. k : Top(l) => "unhide" \notin cs[l][3]
    IN  {[module |-> program[m].path, kind |-> items[cs[k][1]].kind, method |-> cs[k][2] > 0,
          home |-> program[m].path \o SpaceOf(items, cs[k][1]) \o Name(cs[k]), place |-> <<m, k>>,
          defined |-> items[cs[k][1]].kind # "func" \/ items[cs[k][1]].defined,
          private |-> "private" \in cs[k][3] \/ (Top(k) /\ Hidden(k) /\ "public" \notin cs[k][3])] :
           k \in {j \in DOMAIN cs : items[cs[j][1]].kind # "module"}}
    : m \in DOMAIN program}

(* A use that both passes read the same way: not in a body or a namespace  *)
(* with imports of its own; its name is no function's full name but the    *)
(* one it stands for, and it is that name or leads to it from the caller's *)
(* namespace, its module or the owner's. A value is read outside of        *)
(* namespaces, and a variable by its plain name.                           *)
ImportsInside == \E m \in DOMAIN program : \E i \in 1 .. Len(program[m].body) :
                   program[m].body[i].kind = "using" /\ Depth(program[m].body, i) > 0

Plain(site, symbol) ==
  LET path == site.use.path
  IN  /\ site.imports = <<>> /\ ~ImportsInside
      /\ path \in functions => path = symbol.home
      /\ IF site.use.call
         THEN symbol.home \in {path, site.space \o path, site.module \o path, symbol.owner \o path}
         ELSE /\ site.space = site.module
              /\ symbol.kind = "const" \/ (Len(path) = 1 /\ symbol.home = symbol.owner \o path)

-----------------------------------------------------------------------------
(* Each symbol lives in a namespace, and the passes are in the namespace of *)
(* the text.                                                                *)
SpacesFollow ==
  /\ phase \in {"hide", "import", "collect", "analyze", "leave", "register", "generate", "compiled", "failed"}
  /\ current \in spaces
  /\ \A key \in DOMAIN symbols : key[1] \in spaces
  /\ phase = "import" => current = Here.path
  /\ phase \in {"collect", "analyze"} =>
       current = Here.path \o SpaceOf(Here.body, IF at = 1 THEN 0 ELSE at - 1)
  /\ phase = "generate" => current = Here.path /\ at <= Len(Here.body)

(* Analysis has a scope for each namespace inside of the module, and none  *)
(* outlives it.                                                            *)
ScopesFollow ==
  IsList(scopes) /\ Len(scopes) = IF phase = "analyze" THEN Depth(Here.body, at - 1) ELSE 0

(* The table and the scopes agree with the place of the work. *)
TypeOK == SpacesFollow /\ ScopesFollow

(* Doc.md 567: visibility is enforced at the use by the module a symbol    *)
(* comes from. A program without errors uses no private declaration of     *)
(* another module, by whichever name, import or switch of @hide.           *)
PrivateStaysHome ==
  errors = {} =>
    \A b \in bound : \A d \in Declarations :
      (d.home = b.symbol.home /\ d.defined /\ d.private) => d.module = b.site.module

(* The two passes agree on every plain use: what analysis found is what    *)
(* the code refers to, and code generation finds it.                       *)
PlainUsesAgree ==
  \A b \in bound : \A g \in generated :
    (b.site = g.site /\ b.symbol # Nothing /\ Plain(b.site, b.symbol)) =>
      /\ g.symbol # Nothing
      /\ g.symbol.kind = b.symbol.kind /\ g.symbol.home = b.symbol.home

(* No two functions of a compiled program are one to the code generator,   *)
(* whose table would keep one body for both. (In programs that import a    *)
(* function that is declared and nowhere defined two may be: README.md.)   *)
DefinitionsApart ==
  phase = "compiled" =>
    \A d, e \in {x \in Declarations : x.kind = "func" /\ x.defined} :
      d.home = e.home => d = e

(* Doc.md 670: "Access from another module produces: Cannot access private *)
(* symbol". What the code of a compiled program refers to is no private    *)
(* declaration of another module.                                          *)
CodeRespectsPrivate ==
  phase = "compiled" =>
    \A g \in generated : \A d \in Declarations :
      (d.home = g.symbol.home /\ d.defined /\ d.private) => d.module = g.site.module
=============================================================================
