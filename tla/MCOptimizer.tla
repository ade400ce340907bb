----------------------------- MODULE MCOptimizer -----------------------------
(* The expressions of one and two operators over constants and a variable,  *)
(* with their value used in each way there is, and the programs of          *)
(* IRPrograms.                                                              *)
EXTENDS Optimizer, IRPrograms

RECURSIVE Code(_, _)
(* gen_expr: every node is one instruction and one register, from r on. *)
Code(e, r) ==
  CASE e.k = "const" -> <<Const(r, e.n)>>
    [] e.k = "x" -> <<Local(r, 0)>>
    [] e.k = "bin" ->
         LET left == Code(e.l, r)
             right == Code(e.r, r + Len(left))
             n == r + Len(left) + Len(right)
         IN  left \o right \o
             <<[Bin(e.op, n, r + Len(left) - 1, n - 1) EXCEPT !.signed = e.signed]>>

N(n) == [k |-> "const", n |-> n]
X == [k |-> "x"]
Op(op, signed, l, r) == [k |-> "bin", op |-> op, signed |-> signed, l |-> l, r |-> r]

(* x = v; the value of e goes where use says. *)
Program(v, e, use) ==
  LET code == Code(e, 1)
      n == Len(code)
      Main(rest) == Fun("main", 0, 2, n + 4, 0, <<Const(0, v), Set(0, 0)>> \o code \o rest)
  IN  CASE use = "return" -> <<Main(<<Return(n)>>)>>
        [] use = "kernel" -> <<Main(<<Const(n + 1, 1), CallF(n + 2, 2, <<n, n + 1>>), Return(n + 1)>>), Stub("exit", 60)>>
        [] use = "call" -> <<Main(<<CallF(n + 1, 2, <<n>>), Return(n + 1)>>),
                             Fun("f", 1, 1, 3, 0, <<Local(0, 0), Const(1, 1), Bin("mul", 2, 0, 1), Return(2)>>)>>
        [] use = "branch" -> <<Main(<<If(n, 1, 2), LabelI(1), Const(n + 1, 7), Set(0, n + 1), Goto(3),
                                      LabelI(2), Const(n + 2, 8), Set(0, n + 2), Goto(3),
                                      LabelI(3), Local(n + 3, 0), Return(n + 3)>>)>>
        [] use = "local" -> <<Main(<<Set(1, n), Set(0, n), Local(n + 1, 1), Return(n + 1)>>)>>
        [] use = "global" -> <<Main(<<SetGlob(0, n), Glob(n + 1, 0), Const(n + 2, 0), Return(n + 2)>>)>>
        [] use = "none" -> <<Main(<<Local(n + 1, 0), Return(n + 1)>>)>>

Leaves == {N(0), N(1), N(2), X}
Arithmetic == {"add", "sub", "mul", "div"}
Operators == Arithmetic \cup {"eq", "lt", "gte", "logicAnd", "logicOr", "bitAnd", "bitOr"}
OneOperator == {Op(op, TRUE, l, r) : op \in Operators, l \in Leaves, r \in Leaves}
Inner == {Op(op, FALSE, l, r) : op \in Arithmetic \ {"div"}, l \in {N(0), N(1), X}, r \in {N(0), N(1), X}}
TwoOperators ==
  UNION {{Op(op, FALSE, e, l), Op(op, FALSE, l, e)} :
           op \in {"add", "sub", "mul", "lt"}, e \in Inner, l \in {N(0), N(1), X}}

(* Words at either end of their range, divided and multiplied, signed and   *)
(* unsigned, and what comes of it used by a second operator.               *)
Ends == {N(IR!Least), N(-1), N(0), N(2), X}
AtTheEnds == {Op(op, signed, l, r) : op \in Arithmetic, signed \in BOOLEAN, l \in Ends, r \in Ends}
BehindTheEnds ==
  {Op("add", TRUE, Op("div", signed, l, r), N(0)) : signed \in BOOLEAN, l \in Ends, r \in Ends}

(* s = 0; i = 2; while (i >= 1) { s = s + i * 1; write(s, i); i = i - 1 }, *)
(* with stores that nobody reads.                                          *)
Sum ==
  <<Fun("main", 0, 3, 15, 0,
        <<Const(0, 0), Set(0, 0), Const(1, 2), Set(1, 1), LabelI(1),
          Local(2, 1), Const(3, 1), Bin("gte", 4, 2, 3), If(4, 2, 3), LabelI(2),
          Local(5, 0), Local(6, 1), Const(7, 1), Bin("mul", 8, 6, 7), Bin("add", 9, 5, 8), Set(0, 9), Set(2, 9),
          CallF(10, 2, <<9, 8>>), Local(11, 1), Const(12, 1), Bin("sub", 13, 11, 12), Set(1, 13), Goto(1),
          LabelI(3), LabelI(4), Local(14, 0), Return(14)>>),
    Stub("write", 1)>>

MCSources ==
  {Program(v, e, use) : v \in {0, 3}, e \in OneOperator, use \in {"return", "branch"}}
  \cup {Program(3, e, use) : e \in OneOperator, use \in {"kernel", "call", "local", "global", "none"}}
  \cup {Program(3, e, "return") : e \in TwoOperators}
  \cup {Program(v, e, "return") : v \in {-1, IR!Least}, e \in AtTheEnds}
  \cup {Program(-1, e, "return") : e \in BehindTheEnds}
  \cup {Args(2), Struct(1), Fib, Loops, Data, Syscalls, Region(4), Region(3), Address, Sum,
        Divisions, Casts(302, <<I64, U16, I64, U8, U64, I64>>)}

MCSysResult(nr, args) == [t |-> "int", v |-> args[1].v + 2 * args[2].v]
=============================================================================
