------------------------------- MODULE MCBackend -------------------------------
(* Programs that between them use every instruction, run on every target.   *)
EXTENDS Backend, IRPrograms

MCPrograms ==
  <<Args(2), Args(5), Args(7), Args(10), Struct(1), Struct(7), Fib, Loops, Data, Syscalls,
    Region(4), Region(3),
    Casts(302, <<I64, U16, I64, U8, U64, I64>>), Casts(97, <<I64, I8, I16, U64>>), CastsInMain, Divisions,
    Casts(-198, <<I64, I16, I8, I64, U16, U64>>), Casts(400, <<I64, I32, U32, U64>>),
    Address, Struct(8), Struct(9), Division(IR!Least, -1), Division(7, 0),
    Casts(7, <<I64, I32>>)>>

(* Windows has no system calls by number.  On AArch64 some programs go      *)
(* wrong: narrowing to a signed type and casts of four bytes, the address   *)
(* of a local, eight or more arguments behind a pointer to the result (the  *)
(* caller counts seven registers, the callee eight), and a division without *)
(* a quotient, which goes on.                                              *)
On(ks, targets) == {<<MCPrograms[k], t>> : k \in ks, t \in targets}
MCRuns ==
  On(1 .. 23, {"Linux", "Fasm"}) \cup On((1 .. 23) \ {10}, {"Windows"}) \cup On(1 .. 16, {"AArch64"})

HalfRuns == On({24}, {"AArch64", "Linux"})

MCSysResult(nr, args) ==
  Num(args[1].v + 2 * args[2].v + 4 * args[3].v + (IF nr = 257 THEN 8 * args[4].v ELSE 0))
=============================================================================
