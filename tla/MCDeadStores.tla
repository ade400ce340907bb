---------------------------- MODULE MCDeadStores ----------------------------
(* Model checking the lowering and DeadStores: one local that is written   *)
(* and read all over loops, branches, switches and regions, and the        *)
(* nestings of MCLowering.                                                 *)
EXTENDS Lowering

L == INSTANCE MCLowering WITH Programs <- {}

X == <<"var", <<0>>>>
S == [k |-> "store", x |-> X]
R == [k |-> "load", x |-> X]
A == [k |-> "addr", x |-> X]
P == [k |-> "deref", x |-> X]
If(arms, els) == [k |-> "if", arms |-> arms, els |-> els]
While(body, step) == [k |-> "while", body |-> body, step |-> step]
Switch(cases, def) == [k |-> "switch", cases |-> cases, def |-> def]
Case(vals, body) == [vals |-> vals, body |-> body]
Region(body) == [k |-> "region", body |-> body]
Exit(k) == [k |-> k]

Leaves == { <<>>, <<S>>, <<R>>, <<S, S>>, <<S, Exit("break")>>, <<S, Exit("continue")>>,
            <<S, R, Exit("return")>>, <<R, S>> }

Inner ==
  { If(<<b>>, <<c>>) : b \in Leaves, c \in Leaves } \cup
  { If(<<b>>, <<>>) : b \in Leaves } \cup
  { While(b, st) : b \in Leaves, st \in BOOLEAN } \cup
  { Switch(<<Case(2, b)>>, <<c>>) : b \in Leaves, c \in Leaves } \cup
  { Region(b) : b \in Leaves }

Outer ==
  { While(<<s, t>>, FALSE) : s \in Inner, t \in {S, R} } \cup
  { While(<<R, s>>, TRUE) : s \in Inner } \cup
  { Switch(<<Case(1, <<s>>), Case(1, b)>>, <<<<S>>>>) : s \in Inner, b \in Leaves } \cup
  { Region(<<s, t>>) : s \in Inner, t \in {S, R} }

Pointers == {b \in { <<A, S, s, S, P>> : s \in Inner } : ~Jumps(b, {"break", "continue"})}

MCPrograms ==
  L!MCPrograms \cup Pointers \cup
  {b \in { <<S, s, R>> : s \in Outer } \cup { <<S, s>> : s \in Outer } : ~Jumps(b, {"break", "continue"})}

(* The assumption on bodies is about pointers. *)
MCCodes == {GenFunction(Tag(b, <<>>)) : b \in Pointers}
=============================================================================
