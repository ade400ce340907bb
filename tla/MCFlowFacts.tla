----------------------------- MODULE MCFlowFacts -----------------------------
(* Model checking FlowFacts over all short programs of a family: three      *)
(* declarations and three statements, the first one or two of which may    *)
(* stand in an if or in a loop; and programs about guards.          *)
EXTENDS FlowFacts

CONSTANTS p, q, r, x, c, n, f  \* pointers, a reference, a parameter; integers

Do(op, var, val) ==
  [op |-> op, var |-> var, val |-> val, mut |-> FALSE, guard |-> NoGuard, next |-> {}]
Let(var, val) == Do("declare", var, val)
Mut(var, val) == [Let(var, val) EXCEPT !.mut = TRUE]
Set(var, val) == Do("assign", var, val)

Straight(s) == [i \in 1 .. Len(s) |-> [s[i] EXCEPT !.next = {i + 1}]]

(* A test before items 4 to j makes them the block of an if, or the body of *)
(* a loop when control goes back to the test.                              *)
Around(s, j, loop) ==
  LET t == Straight(SubSeq(s, 1, 3) \o <<Do("test", p, "none")>> \o SubSeq(s, 4, Len(s)))
  IN  [t EXCEPT ![4].next = {5, j + 2}, ![j + 1].next = IF loop THEN {4} ELSE @]

Declarations ==
  {<<d, e, Mut(r, "addr")>> : d \in {Mut(p, "addr"), Mut(p, "none")},
                              e \in {Mut(q, "alloc"), Let(q, p), Mut(q, "init")}}

Statements ==
  {Set(p, "nullptr"), Set(p, "addr"), Set(p, x), Set(q, p), Set(q, r), Set(r, q), Do("pass", r, p)}

(* c is what the guard of n is about; n is passed. *)
GuardPrograms ==
  {Straight(<<[Let(c, v) EXCEPT !.mut = m], [Mut(n, "one") EXCEPT !.guard = c]>> \o s \o <<Do("pass", f, n)>>) :
     v \in {"zero", "one", "computed"}, m \in BOOLEAN,
     s \in {<<>>, <<Set(c, "zero")>>, <<Set(n, "zero")>>, <<Set(c, "one")>>}}

ForwardPrograms ==
  GuardPrograms \cup
  {IF j = 3 THEN Straight(a \o b) ELSE Around(a \o b, j, FALSE) :
     a \in Declarations, b \in [1 .. 3 -> Statements], j \in 3 .. 5}

LoopPrograms ==
  {Around(<<Mut(p, "addr"), Mut(q, "addr"), Mut(r, "addr")>> \o b, j, TRUE) :
     b \in [1 .. 3 -> Statements], j \in {4, 5}}
=============================================================================
