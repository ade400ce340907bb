------------------------------- MODULE MCNames -------------------------------
(* Model checking Names over every way to spread a function over a small   *)
(* program, and over a few programs with the other declarations.           *)
EXTENDS Names

Call(path) == [call |-> TRUE, path |-> path]
Read(path) == [call |-> FALSE, path |-> path]
Func(name, attrs, uses, imports) ==
  [kind |-> "func", name |-> name, attrs |-> attrs, defined |-> TRUE, struct |-> "",
   uses |-> uses, imports |-> imports]
Forward(name, attrs) == [Func(name, attrs, <<>>, <<>>) EXCEPT !.defined = FALSE]
Method(struct, name, attrs, uses) == [Func(name, attrs, uses, <<>>) EXCEPT !.struct = struct]
Struct(name, attrs, methods) == [kind |-> "struct", name |-> name, attrs |-> attrs, methods |-> methods]
Enum(name, attrs, variants) == [kind |-> "enum", name |-> name, attrs |-> attrs, variants |-> variants]
Global(name, attrs, mut) == [kind |-> "global", name |-> name, attrs |-> attrs, mut |-> mut]
UsingOf(path) == [kind |-> "using", path |-> path]
ModuleOf(attrs) == [kind |-> "module", attrs |-> attrs]
Space(name, body) == <<[kind |-> "enter", name |-> name]>> \o body \o <<[kind |-> "exit"]>>
Mod(path, body) == [path |-> path, body |-> body]

If(c, s) == IF c THEN s ELSE <<>>

(* f in any of the modules b, a and the entry file and in the namespace n  *)
(* of a, private or hidden in one of them, and one caller.                 *)
Places == {"b", "a", "n", "entry"}
Spread ==
  { LET F(place) == If(place \in where, <<Func("f", IF place = "a" THEN hide ELSE {}, <<>>, <<>>)>>)
        G(place) == If(place = caller,
                       <<Func("g", {}, <<Call(path)>>, If(import = "body", <<<<"b">>>>))>>)
        U(place) == If(place = caller, CASE import = "b" -> <<UsingOf(<<"b">>)>>
                                         [] import = "n" -> <<UsingOf(<<"a", "n">>)>>
                                         [] OTHER -> <<>>)
    IN  << Mod(<<"b">>, <<ModuleOf(IF hide = {} THEN {"hide"} ELSE {})>> \o F("b")),
           Mod(<<"a">>, <<ModuleOf({})>> \o U("a") \o F("a") \o G("a")
                          \o Space("n", U("n") \o F("n") \o G("n"))),
           Mod(<<"main">>, U("entry") \o F("entry") \o G("entry") \o <<ModuleOf({})>>) >>
    : where \in SUBSET Places, caller \in Places \ {"b"}, hide \in {{}, {"private"}, {"public"}},
      path \in {<<"f">>, <<"a", "f">>, <<"n", "f">>, <<"a", "n", "f">>, <<"b", "f">>},
      import \in {"none", "b", "body", "n"} }

(* Attributes and switches, used from outside by plain and full names. *)
Switched ==
  { << Mod(<<"a">>, << ModuleOf(m), Struct("S", s, <<Method("S", "m", t, <<>>)>>),
                       Enum("E", e, <<"V", "W">>), Func("f", f, <<Call(<<"m">>), Read(<<"V">>)>>, <<>>),
                       Global("x", {}, mut) >>),
       Mod(<<"main">>, << UsingOf(<<"a">>), Func("g", {}, <<use>>, <<>>) >>) >>
    : m \in {{}, {"hide"}}, s \in {{}, {"hide"}, {"unhide"}, {"private"}}, t \in {{}, {"public"}},
      e \in {{}, {"unhide"}}, f \in {{}, {"public"}}, mut \in BOOLEAN,
      use \in {Call(<<"f">>), Call(<<"a", "S", "m">>), Call(<<"S", "m">>), Read(<<"x">>), Read(<<"a", "x">>),
               Read(<<"V">>), Read(<<"a", "V">>), Read(<<"E", "V">>), Read(<<"E">>)} }

(* Methods that call each other and free functions; declarations ahead of  *)
(* definitions; names declared twice; a module inside of another.          *)
Others ==
  { << Mod(<<"a">>, first), Mod(<<"a", "b">>, second), Mod(<<"main">>, third) >>
    : first \in { <<Forward("f", {}), Func("f", {"private"}, <<>>, <<>>), Func("h", {}, <<Call(<<"f">>)>>, <<>>)>>,
                  <<Func("f", {}, <<>>, <<>>), Func("f", {}, <<>>, <<>>)>>,
                  <<Forward("f", {})>>,
                  <<Struct("S", {}, <<Method("S", "f", {}, <<Call(<<"k">>)>>), Method("S", "k", {}, <<>>)>>)>>,
                  <<Struct("S", {}, <<Method("S", "f", {}, <<>>), Method("S", "f", {}, <<>>)>>), Enum("S", {}, <<>>)>>,
                  <<Enum("f", {}, <<"k">>), Struct("f", {}, <<>>), Global("k", {}, TRUE)>>,
                  Space("n", <<Enum("E", {}, <<"V">>), Global("x", {}, TRUE), Func("f", {}, <<Read(<<"V">>)>>, <<>>)>>
                             \o Space("o", <<Func("h", {}, <<Call(<<"f">>)>>, <<>>)>>)),
                  Space("n", <<Global("x", {}, TRUE), Func("f", {}, <<Read(<<"x">>), Call(<<"x">>)>>, <<>>)>>
                             \o Space("o", <<Func("h", {}, <<Call(<<"f">>)>>, <<>>)>>)) },
      second \in { <<Func("f", {}, <<>>, <<>>)>>, <<Func("k", {}, <<Call(<<"f">>)>>, <<>>)>>,
                   <<UsingOf(<<"c">>), Func("k", {}, <<>>, <<>>)>> },
      third \in { <<Func("main", {}, <<>>, <<>>)>>,
                  <<Func("g", {}, <<Call(<<"a", "f">>), Call(<<"a", "b", "k">>)>>, <<>>)>>,
                  <<Func("k", {}, <<>>, <<>>), Func("g", {}, <<Call(<<"k">>)>>, <<<<"a", "c">>>>)>>,
                  <<Func("g", {}, <<Call(<<"a", "b", "f">>)>>, <<>>), Global("g", {}, FALSE)>> } }

(* A namespace in a module with the path of another module.                *)
Inner ==
  { << Mod(<<"n">>, <<ModuleOf({}), Func("f", attrs, <<>>, <<>>), Global("x", {}, TRUE)>>),
       Mod(<<"a">>, Space("n", If(own, <<Func("f", {}, <<>>, <<>>)>>))
                      \o <<Func("g", {}, <<Call(<<"n", "f">>), Read(<<"n", "x">>)>>, <<>>)>>),
       Mod(<<"main">>, <<Func("main", {}, <<Call(<<"a", "g">>)>>, <<>>)>>) >>
    : attrs \in {{}, {"private"}}, own \in BOOLEAN }

(* What a namespace's own scope holds: copies that hide the names around   *)
(* it, structs and their methods too, and globals that end with it.        *)
Shadowed ==
  { << Mod(<<"b">>, <<Struct("S", {}, <<Method("S", "m", {}, <<>>)>>), Func("f", hide, <<>>, <<>>),
                      Global("x", {}, TRUE)>>),
       Mod(<<"a">>, top \o Space("n", If(import, <<UsingOf(<<"b">>)>>)
                               \o <<Global("x", {}, FALSE),
                                    Struct("S", {}, <<Method("S", method, {}, <<Call(<<"k">>)>>), Method("S", "k", {}, <<>>)>>)>>
                               \o Space("o", <<Func("f", {}, <<Call(<<"f">>), use>>, <<>>)>>))
                        \o <<Func("h", {}, <<Call(<<"n", "o", "f">>), last>>, <<>>)>>),
       Mod(<<"main">>, <<Func("main", {}, <<Call(<<"a", "h">>)>>, <<>>)>>) >>
    : hide \in {{}, {"private"}}, import \in BOOLEAN, method \in {"m", "o"},
      top \in {<<>>, <<Func("f", {}, <<>>, <<>>)>>, <<Global("x", {}, TRUE)>>},
      use \in {Read(<<"x">>), Read(<<"n", "x">>), Call(<<"S", "m">>), Read(<<"n", "S">>)},
      last \in {Read(<<"x">>), Read(<<"n", "x">>), Call(<<"n", "f">>)} }

MCPrograms == Spread \cup Switched \cup Others \cup Inner \cup Shadowed
=============================================================================
