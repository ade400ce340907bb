------------------------------- MODULE IRPrograms -------------------------------
(* Programs of the intermediate representation that between them use every  *)
(* instruction: what MCBackend and MCOptimizer run. As in what IRGenerator  *)
(* emits, every register is defined by one instruction.                     *)
EXTENDS Integers, Sequences

Fun(symbol, args, locals, temps, extra, body) ==
  [symbol |-> symbol, args |-> args, locals |-> locals, temps |-> temps, extra |-> extra,
   sret |-> FALSE, body |-> body, syscall |-> -1, entry |-> symbol = "main"]

Stub(symbol, nr) == [Fun(symbol, 0, 0, 0, 0, <<>>) EXCEPT !.syscall = nr]

Const(d, n) == [op |-> "loadConst", dst |-> d, value |-> n]
Local(d, l) == [op |-> "loadLocal", dst |-> d, local |-> l]
Set(l, s) == [op |-> "storeLocal", local |-> l, src |-> s]
Bin(kind, d, a, b) == [op |-> "binary", kind |-> kind, signed |-> TRUE, dst |-> d, lhs |-> a, rhs |-> b]
CallF(d, f, args) == [op |-> "call", dst |-> d, func |-> f, args |-> args, sret |-> FALSE]
CallInto(d, f, args) == [op |-> "call", dst |-> d, func |-> f, args |-> args, sret |-> TRUE]
Return(r) == [op |-> "return", value |-> r]
LabelI(n) == [op |-> "label", id |-> n]
Goto(n) == [op |-> "jump", target |-> n]
If(c, t, e) == [op |-> "branch", cond |-> c, then |-> t, else |-> e]
Area(d, n) == [op |-> "alloca", dst |-> d, offset |-> n]
Field(d, b, n) == [op |-> "getField", dst |-> d, base |-> b, offset |-> n]
SetField(b, n, v) == [op |-> "setField", base |-> b, offset |-> n, value |-> v]
Elem(d, b, i) == [op |-> "loadElement", dst |-> d, base |-> b, index |-> i]
SetElem(b, i, v) == [op |-> "storeElement", base |-> b, index |-> i, value |-> v]
Glob(d, g) == [op |-> "loadGlobal", dst |-> d, global |-> g]
SetGlob(g, s) == [op |-> "storeGlobal", global |-> g, src |-> s]
GlobAddr(d, g) == [op |-> "loadGlobalAddr", dst |-> d, global |-> g]
AddrOf(d, l) == [op |-> "addrOf", dst |-> d, local |-> l]
Begin(l, n) == [op |-> "regionBegin", local |-> l, size |-> n]
Alloc(d, n, l) == [op |-> "regionAlloc", dst |-> d, length |-> n, local |-> l]
End(l) == [op |-> "regionEnd", local |-> l]

(* n distinct arguments; the callee returns the last but one. *)
Args(n) ==
  <<Fun("main", 0, 0, n + 1, 0,
        [i \in 1 .. n |-> Const(i - 1, 10 + i)]
        \o <<CallF(n, 2, [i \in 1 .. n |-> i - 1]), Return(n)>>),
    Fun("f", n, n, 1, 0, <<Local(0, n - 2), Return(0)>>)>>

(* A result of two words through a pointer, and n arguments behind it.      *)
Struct(n) ==
  <<Fun("main", 0, 1, n + 3, 2,
        <<Area(0, 2)>> \o [i \in 1 .. n |-> Const(i, 10 + i)]
        \o <<CallInto(n + 2, 2, [i \in 1 .. n + 1 |-> i - 1]), Field(n + 1, 0, 1), Return(n + 1)>>),
    [Fun("f", n + 1, n + 1, 3, 0,
         <<Local(0, 0), Local(1, 1), Local(2, n), SetField(0, 0, 1), SetField(0, 1, 2), Return(0)>>)
       EXCEPT !.sret = TRUE]>>

(* Recursion twice over, with a label at either end of a body. *)
Fib ==
  <<Fun("fib", 1, 1, 10, 0,
        <<LabelI(1), Local(0, 0), Const(1, 2), Bin("lt", 2, 0, 1), If(2, 2, 3),
          LabelI(2), Local(3, 0), Return(3),
          LabelI(3), Const(4, 1), Bin("sub", 5, 0, 4), CallF(6, 1, <<5>>),
          Bin("sub", 7, 0, 1), CallF(8, 1, <<7>>), Bin("add", 9, 6, 8), Return(9)>>),
    Fun("main", 0, 1, 2, 0, <<Const(0, 3), CallF(1, 1, <<0>>), Set(0, 1), Return(1)>>)>>

(* A loop that is never entered and one that runs twice. *)
Loops ==
  <<Fun("main", 0, 1, 8, 0,
        <<Const(0, 0), Set(0, 0),
          LabelI(4), Glob(1, 0), If(1, 5, 6), LabelI(5), Goto(4),
          LabelI(6), LabelI(7), Local(2, 0), Const(3, 2), Bin("gte", 4, 2, 3), If(4, 9, 8),
          LabelI(8), Const(5, 1), Bin("add", 6, 2, 5), Set(0, 6), Goto(7),
          LabelI(9), Bin("logicAnd", 7, 2, 4), Return(7)>>)>>

(* Fields, elements and globals, with extra words of two structs.           *)
Data ==
  <<Fun("main", 0, 2, 11, 5,
        <<Area(0, 2), Area(1, 5), Const(2, 1), Const(3, 7), SetField(0, 1, 3), SetElem(1, 2, 2),
          Const(4, 2), SetElem(1, 4, 0), Field(5, 1, 2), Elem(6, 5, 2), SetGlob(1, 6),
          GlobAddr(7, 0), SetElem(7, 2, 4), Glob(8, 1), SetField(7, 0, 8), Glob(9, 0),
          Bin("eq", 10, 9, 8), Set(1, 10), Return(9)>>)>>

(* A call behind the two: what was kept must have survived it. *)
Syscalls ==
  <<Stub("write", 1), Stub("openat", 257),
    Fun("main", 0, 1, 8, 0,
        <<Const(0, 1), Const(1, 2), Const(2, 3), Const(3, 1), CallF(4, 1, <<0, 1, 2>>), Set(0, 4),
          CallF(5, 2, <<3, 0, 1, 2>>), Local(6, 0), Bin("add", 7, 5, 6), Return(7)>>)>>

(* A region of n words: two allocations, a call while it is open.           *)
Region(n) ==
  <<Fun("g", 1, 1, 2, 0, <<Local(0, 0), Const(1, 9), SetField(0, 1, 1), Return(0)>>),
    Fun("main", 0, 2, 7, 3,
        <<Area(0, 3), Set(1, 0), Begin(1, n), Const(1, 1), Alloc(2, 1, 1), Const(3, 2), Alloc(4, 3, 1),
          CallF(5, 1, <<4>>), SetField(2, 0, 3), Field(6, 4, 1), End(1), Return(6)>>)>>

(* The address of a local, passed to a function that writes there. *)
Address ==
  <<Fun("h", 1, 1, 2, 0, <<Local(0, 0), Const(1, 5), SetField(0, 0, 1), Return(1)>>),
    Fun("main", 0, 2, 3, 0, <<AddrOf(0, 1), CallF(1, 1, <<0>>), Local(2, 1), Return(2)>>)>>

(* Casts from one type to the next. *)
I8 == [size |-> 1, signed |-> TRUE]
U8 == [size |-> 1, signed |-> FALSE]
I16 == [size |-> 2, signed |-> TRUE]
U16 == [size |-> 2, signed |-> FALSE]
I32 == [size |-> 4, signed |-> TRUE]
U32 == [size |-> 4, signed |-> FALSE]
I64 == [size |-> 8, signed |-> TRUE]
U64 == [size |-> 8, signed |-> FALSE]

Casts(n, types) ==
  LET k == Len(types)
  IN  <<Fun("c", 1, 1, k + 1, 0,
            <<Local(0, 0)>>
            \o [i \in 1 .. k - 1 |-> [op |-> "cast", dst |-> i, src |-> i - 1,
                                      from |-> types[i], to |-> types[i + 1]]]
            \o <<Return(k - 1)>>),
        Fun("main", 0, 0, 2, 0, <<Const(0, n), CallF(1, 1, <<0>>), Return(1)>>)>>

(* Four bytes, in the entry function: no frame pointer is saved in its frame. *)
CastsInMain ==
  <<Fun("main", 0, 0, 5, 0,
        <<Const(0, 0), [op |-> "cast", dst |-> 1, src |-> 0, from |-> U32, to |-> U64],
          Const(2, 7), [op |-> "cast", dst |-> 3, src |-> 2, from |-> I64, to |-> I32],
          Bin("add", 4, 1, 3), Return(4)>>)>>

(* Division of signed and of unsigned words: -7 by 2 either way. *)
Divisions ==
  <<Fun("main", 0, 0, 7, 0,
        <<Const(0, 0), Const(1, 7), Bin("sub", 2, 0, 1), Const(3, 2), Bin("div", 4, 2, 3),
          [Bin("div", 5, 2, 3) EXCEPT !.signed = FALSE], Bin("sub", 6, 5, 4), Return(6)>>)>>

(* The division of l by r, which may have no quotient. *)
Division(l, r) == <<Fun("main", 0, 0, 3, 0, <<Const(0, l), Const(1, r), Bin("div", 2, 0, 1), Return(2)>>)>>
=================================================================================
