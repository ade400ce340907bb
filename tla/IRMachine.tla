------------------------------- MODULE IRMachine -------------------------------
(***************************************************************************)
(* What a program of the intermediate representation means (ir.h): an      *)
(* abstract machine with a stack of function activations, each with        *)
(* registers, locals and the words of its extra stack, which share nothing *)
(* with each other.  This is what the back ends promise to their callers.  *)
(*                                                                         *)
(* Words are tagged: integers, and pointers to a local, a word of an extra *)
(* stack, a global, or memory mapped by the kernel.  Offsets and sizes are *)
(* in words of eight bytes.                                                *)
(***************************************************************************)
EXTENDS Integers, Sequences, FiniteSets

CONSTANTS
  SysResult(_, _), \* what the kernel answers: number, arguments
  ByteBits         \* the width of a byte, of which a word has eight

VARIABLES
  prog,     \* the program: its functions; any program
  stack,    \* the activations, the last is running
  globals,  \* the words of the globals
  heap,     \* words mapped by the kernel
  result    \* the exit code, when the program has ended

irvars == <<prog, stack, globals, heap, result>>

Num(n) == [t |-> "int", v |-> n]
Junk == [t |-> "junk", v |-> 0]
Running == [t |-> "running", v |-> 0]

-----------------------------------------------------------------------------
(* Functions: the numbers of arguments, locals, registers and extra words, *)
(* whether the first argument is a pointer to the result, the body, a      *)
(* syscall number (-1 for functions with a body), whether it is the entry, *)
(* and the symbol it goes by in the object file.                           *)
Func(f) == prog[f]

Entry(p) == CHOOSE f \in DOMAIN p : p[f].entry

LabelAt(body, id) == CHOOSE k \in DOMAIN body : body[k].op = "label" /\ body[k].id = id

(* The first instruction at or behind k that is no label. *)
Behind(body, k) ==
  CHOOSE j \in k .. Len(body) :
    body[j].op # "label" /\ \A i \in k .. j - 1 : body[i].op = "label"

Activation(f, args) ==
  [fn |-> f, pc |-> Behind(Func(f).body, 1),
   regs |-> [r \in 0 .. Func(f).temps - 1 |-> Junk],
   locals |-> [l \in 0 .. Func(f).locals - 1 |-> IF l < Len(args) THEN args[l + 1] ELSE Junk],
   area |-> [a \in 0 .. Func(f).extra - 1 |-> Junk]]

Depth == Len(stack)
Top == stack[Depth]
Body == Func(Top.fn).body
Inst == Body[Top.pc]
Reg(r) == Top.regs[r]

(* Where a pointer leads: a place of an activation, a global or mapped memory. *)
Plus(p, n) == [p EXCEPT !.v = @ + n]

Fetch(p) ==
  CASE p.t = "local" -> stack[p.d].locals[p.v]
    [] p.t = "area" -> stack[p.d].area[p.v]
    [] p.t = "global" -> globals[p.v]
    [] p.t = "heap" -> heap[p.v]

Goto(k) == [Top EXCEPT !.pc = Behind(Body, k)]
Advance == Goto(Top.pc + 1)
Into(r, w) == [Advance EXCEPT !.regs[r] = w]

(* The running activation becomes a; nothing else changes. *)
Continue(a) ==
  /\ stack' = [stack EXCEPT ![Depth] = a]
  /\ UNCHANGED <<prog, globals, heap, result>>

(* The word at p becomes w and the running activation becomes a. *)
StoreAt(p, w, a) ==
  LET s == [stack EXCEPT ![Depth] = a]
  IN  /\ stack' = CASE p.t = "local" -> [s EXCEPT ![p.d].locals[p.v] = w]
                    [] p.t = "area" -> [s EXCEPT ![p.d].area[p.v] = w]
                    [] OTHER -> s
      /\ globals' = IF p.t = "global" THEN [globals EXCEPT ![p.v] = w] ELSE globals
      /\ heap' = IF p.t = "heap" THEN [heap EXCEPT ![p.v] = w] ELSE heap
      /\ UNCHANGED <<prog, result>>

Truth(b) == Num(IF b THEN 1 ELSE 0)

(* Integers of t.size bytes wrap around. A word is a number of eight bytes  *)
(* in two's complement, whatever the type of what it holds.                *)
Wrap(n, t) ==
  LET values == 2 ^ (ByteBits * t.size)
      m == n % values
  IN  IF (t.signed \/ t.size = 8) /\ m >= values \div 2 THEN m - values ELSE m

Word(n) == Wrap(n, [size |-> 8, signed |-> TRUE])
Least == -(2 ^ (8 * ByteBits - 1))
Unsigned(n) == n % 2 ^ (8 * ByteBits)

(* Division rounds towards 0, of the words as signed or as unsigned ones.   *)
Magnitude(n) == IF n < 0 THEN -n ELSE n
Quotient(a, b, signed) ==
  IF ~signed THEN Word(Unsigned(a) \div Unsigned(b))
  ELSE Word((IF (a < 0) = (b < 0) THEN 1 ELSE -1) * (Magnitude(a) \div Magnitude(b)))

(* The bits that both have; numbers are in two's complement. *)
BitAnd[a \in Int, b \in Int] ==
  CASE a = 0 -> 0
    [] a = -1 -> b
    [] OTHER -> 2 * BitAnd[a \div 2, b \div 2] + (a % 2) * (b % 2)

Compute(op, a, b) ==
  CASE op = "add" -> Num(Word(a.v + b.v))
    [] op = "sub" -> Num(Word(a.v - b.v))
    [] op = "mul" -> Num(Word(a.v * b.v))
    [] op = "div" -> Num(Quotient(a.v, b.v, TRUE))
    [] op = "udiv" -> Num(Quotient(a.v, b.v, FALSE))
    [] op = "bitAnd" -> Num(BitAnd[a.v, b.v])
    [] op = "bitOr" -> Num(a.v + b.v - BitAnd[a.v, b.v])
    [] op = "eq" -> Truth(a.v = b.v)
    [] op = "lt" -> Truth(a.v < b.v)
    [] op = "gte" -> Truth(a.v >= b.v)
    [] op = "logicAnd" -> Truth(a.v # 0 /\ b.v # 0)
    [] op = "logicOr" -> Truth(a.v # 0 \/ b.v # 0)

-----------------------------------------------------------------------------
(* The instructions *)

Is(op) == Depth > 0 /\ Inst.op = op

LoadConst == Is("loadConst") /\ Continue(Into(Inst.dst, Num(Inst.value)))
LoadLocal == Is("loadLocal") /\ Continue(Into(Inst.dst, Top.locals[Inst.local]))
StoreLocal == Is("storeLocal") /\ Continue([Advance EXCEPT !.locals[Inst.local] = Reg(Inst.src)])
AddrOf ==
  Is("addrOf") /\ Continue(Into(Inst.dst, [t |-> "local", d |-> Depth, v |-> Inst.local]))
Alloca ==
  /\ Is("alloca")
  /\ Continue(Into(Inst.dst, [t |-> "area", d |-> Depth, v |-> Func(Top.fn).extra - Inst.offset]))
LoadGlobalAddr ==
  Is("loadGlobalAddr") /\ Continue(Into(Inst.dst, [t |-> "global", v |-> Inst.global]))
LoadGlobal == Is("loadGlobal") /\ Continue(Into(Inst.dst, globals[Inst.global]))
StoreGlobal ==
  Is("storeGlobal") /\ StoreAt([t |-> "global", v |-> Inst.global], Reg(Inst.src), Advance)
(* What is unsigned has a division of its own; everything else, compares    *)
(* included, is done as on signed words.                                   *)
Operation(x) == IF x.kind = "div" /\ ~x.signed THEN "udiv" ELSE x.kind

(* There is no quotient by zero, and none of the least word by -1. *)
NoQuotient(op, a, b) ==
  op \in {"div", "udiv"} /\ (b.v = 0 \/ (op = "div" /\ a.v = Least /\ b.v = -1))

Traps == NoQuotient(Operation(Inst), Reg(Inst.lhs), Reg(Inst.rhs))
Binary ==
  /\ Is("binary") /\ ~Traps
  /\ Continue(Into(Inst.dst, Compute(Operation(Inst), Reg(Inst.lhs), Reg(Inst.rhs))))

(* A division without a quotient kills the process, as on x86-64. *)
Killed == [t |-> "killed", v |-> 0]

Trap ==
  /\ Is("binary") /\ Traps
  /\ stack' = <<>> /\ result' = Killed
  /\ UNCHANGED <<prog, globals, heap>>

(* Of two types of integers the narrower one counts; between types of one   *)
(* size the word stays what it is.                                         *)
Converted(n, from, to) ==
  CASE from.size = to.size -> n
    [] from.size < to.size -> Wrap(n, from)
    [] OTHER -> Wrap(n, to)

Cast == Is("cast") /\ Continue(Into(Inst.dst, Num(Converted(Reg(Inst.src).v, Inst.from, Inst.to))))

GetField ==
  Is("getField") /\ Continue(Into(Inst.dst, Fetch(Plus(Reg(Inst.base), Inst.offset))))
SetField ==
  Is("setField") /\ StoreAt(Plus(Reg(Inst.base), Inst.offset), Reg(Inst.value), Advance)
LoadElement ==
  Is("loadElement") /\ Continue(Into(Inst.dst, Fetch(Plus(Reg(Inst.base), Reg(Inst.index).v))))
StoreElement ==
  Is("storeElement") /\ StoreAt(Plus(Reg(Inst.base), Reg(Inst.index).v), Reg(Inst.value), Advance)
Jump == Is("jump") /\ Continue(Goto(LabelAt(Body, Inst.target)))
Branch ==
  Is("branch") /\ Continue(Goto(LabelAt(Body, IF Reg(Inst.cond).v # 0 THEN Inst.then ELSE Inst.else)))

Arguments == [i \in 1 .. Len(Inst.args) |-> Reg(Inst.args[i])]

Call ==
  /\ Is("call") /\ Func(Inst.func).syscall < 0
  /\ stack' = Append(stack, Activation(Inst.func, Arguments))
  /\ UNCHANGED <<prog, globals, heap, result>>

(* A function that is lowered to a system call. *)
CallKernel ==
  /\ Is("call") /\ Func(Inst.func).syscall >= 0
  /\ Continue(Into(Inst.dst, SysResult(Func(Inst.func).syscall, Arguments)))

(* The caller gets the value, unless the result went through its pointer. *)
Return ==
  /\ Is("return") /\ Depth > 1
  /\ LET caller == stack[Depth - 1]
         call == Func(caller.fn).body[caller.pc]
         next == [caller EXCEPT !.pc = Behind(Func(caller.fn).body, @ + 1)]
     IN  stack' = Append(SubSeq(stack, 1, Depth - 2),
                         IF call.sret THEN next ELSE [next EXCEPT !.regs[call.dst] = Reg(Inst.value)])
  /\ UNCHANGED <<prog, globals, heap, result>>

Exit ==
  /\ Is("return") /\ Depth = 1
  /\ stack' = <<>> /\ result' = Reg(Inst.value)
  /\ UNCHANGED <<prog, globals, heap>>

(* Regions: a struct of data, offset and capacity behind the pointer in a  *)
(* local; what is allocated is aligned to two words; a full region ends    *)
(* the program with 1.                                                     *)
RegionAt == Top.locals[Inst.local]

SetRegion(p, data, offset, size) ==
  [stack EXCEPT ![Depth] = Advance,
                ![p.d].area = [@ EXCEPT ![p.v] = data, ![p.v + 1] = offset, ![p.v + 2] = size]]

RegionBegin ==
  /\ Is("regionBegin")
  /\ LET new == Cardinality(DOMAIN heap)
     IN  /\ stack' = SetRegion(RegionAt, [t |-> "heap", v |-> new], Num(0), Num(Inst.size))
         /\ heap' = [a \in 0 .. new + Inst.size - 1 |-> IF a < new THEN heap[a] ELSE Num(0)]
  /\ UNCHANGED <<prog, globals, result>>

RegionAlloc ==
  /\ Is("regionAlloc")
  /\ LET p == RegionAt
         offset == Fetch(Plus(p, 1)).v
         bumped == offset + ((Reg(Inst.length).v + 1) \div 2) * 2
     IN  IF bumped <= Fetch(Plus(p, 2)).v
         THEN /\ StoreAt(Plus(p, 1), Num(bumped), Into(Inst.dst, Plus(Fetch(p), offset)))
         ELSE /\ stack' = <<>> /\ result' = Num(1)
              /\ UNCHANGED <<prog, globals, heap>>

(* The memory is given back. *)
RegionEnd ==
  /\ Is("regionEnd")
  /\ LET p == RegionAt
     IN  heap' = [a \in DOMAIN heap |->
                    IF a \in Fetch(p).v .. Fetch(p).v + Fetch(Plus(p, 2)).v - 1 THEN Junk ELSE heap[a]]
  /\ stack' = [stack EXCEPT ![Depth] = Advance]
  /\ UNCHANGED <<prog, globals, result>>

Init ==
  /\ stack = <<Activation(Entry(prog), <<>>)>>
  /\ globals = [g \in 0 .. 1 |-> Num(0)]
  /\ heap = [a \in {} |-> Junk]
  /\ result = Running

Next ==
  \/ LoadConst \/ LoadLocal \/ StoreLocal \/ AddrOf \/ Alloca \/ Binary \/ Trap \/ Cast \/ Jump \/ Branch
  \/ LoadGlobalAddr \/ LoadGlobal \/ StoreGlobal
  \/ GetField \/ SetField \/ LoadElement \/ StoreElement
  \/ Call \/ CallKernel \/ Return \/ Exit
  \/ RegionBegin \/ RegionAlloc \/ RegionEnd

(* A program that can go on goes on. *)
Spec == Init /\ [][Next]_irvars /\ WF_irvars(Next)
=============================================================================
