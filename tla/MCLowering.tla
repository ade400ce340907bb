----------------------------- MODULE MCLowering -----------------------------
(* Model checking Lowering over all functions of a bounded shape: one      *)
(* statement with statements inside it, two levels deep, and an effect     *)
(* behind it.                                                              *)
EXTENDS Lowering

E == [k |-> "expr"]
If(arms, els) == [k |-> "if", arms |-> arms, els |-> els]
While(body, step) == [k |-> "while", body |-> body, step |-> step]
Switch(cases, def) == [k |-> "switch", cases |-> cases, def |-> def]
Case(vals, body) == [vals |-> vals, body |-> body]
Region(body) == [k |-> "region", body |-> body]
Block(body) == [k |-> "block", body |-> body]

Exits == { <<E>>, <<[k |-> "return"]>>, <<[k |-> "break"]>>, <<[k |-> "continue"]>> }
Leaves == Exits \cup { <<>> }

Inner ==
  { If(<<b>>, <<>>) : b \in Leaves } \cup
  { If(<<b>>, <<c>>) : b \in Leaves, c \in Leaves } \cup
  { If(<<b, c>>, <<>>) : b \in Leaves, c \in Exits } \cup
  { If(<<b, c>>, <<d>>) : b \in Exits, c \in Exits, d \in Exits } \cup
  { While(b, st) : b \in Leaves, st \in BOOLEAN } \cup
  { Switch(<<Case(2, b)>>, <<>>) : b \in Leaves } \cup
  { Switch(<<Case(1, b), Case(1, c)>>, <<>>) : b \in Exits, c \in Exits } \cup
  { Switch(<<Case(1, b)>>, <<c>>) : b \in Leaves, c \in Leaves } \cup
  { Region(b) : b \in Leaves } \cup
  { Block(b) : b \in Leaves }

Outer ==
  { While(<<s, E>>, st) : s \in Inner, st \in BOOLEAN } \cup
  { If(<<<<s>>, b>>, <<<<E>>>>) : s \in Inner, b \in Exits } \cup
  { Switch(<<Case(2, <<s>>), Case(1, b)>>, <<c>>) : s \in Inner, b \in Exits, c \in Exits } \cup
  { Switch(<<Case(1, b)>>, <<<<s>>>>) : s \in Inner, b \in Exits } \cup
  { Region(<<s>>) : s \in Inner }

(* The analysis lets break and continue pass only inside a loop or switch. *)
MCPrograms ==
  {b \in { <<s, E>> : s \in Outer } \cup { <<While(<<s, E>>, FALSE)>> : s \in Outer } :
     ~Jumps(b, {"break", "continue"})}
=============================================================================
