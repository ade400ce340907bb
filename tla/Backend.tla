-------------------------------- MODULE Backend --------------------------------
(***************************************************************************)
(* The generated code at work: the machine of a target executes what       *)
(* instruction selection emitted, one machine instruction per step.  The   *)
(* variables of IRMachine record the state of the abstract machine as it   *)
(* is read off registers and memory whenever control passes from the code  *)
(* of one IR instruction to that of another; the code is right when they   *)
(* behave as IRMachine says.                                               *)
(***************************************************************************)
EXTENDS Machine

CONSTANTS
  SysResult(_, _), \* what the kernel answers
  ByteBits,        \* the width of a byte
  Runs             \* the programs considered, each with a target

(* Programs as the IR generator makes them: ir.h, with what is no part of   *)
(* this model left out.                                                    *)
IsList(s) == s \in Seq({s[i] : i \in DOMAIN s})

Operations ==
  {"loadConst", "loadLocal", "storeLocal", "addrOf", "alloca", "binary", "cast", "jump", "branch", "label",
   "loadGlobalAddr", "loadGlobal", "storeGlobal", "getField", "setField", "loadElement", "storeElement",
   "call", "return", "regionBegin", "regionAlloc", "regionEnd"}

IsInst(x) == x.op \in Operations /\ (x.op = "call" => IsList(x.args) /\ x.sret \in BOOLEAN)

IsFunction(fn) ==
  /\ fn.args \in Nat /\ fn.locals \in Nat /\ fn.temps \in Nat /\ fn.extra \in Nat
  /\ IsList(fn.body) /\ \A k \in DOMAIN fn.body : IsInst(fn.body[k])

IsProgram(p) == IsList(p) /\ \A f \in DOMAIN p : IsFunction(p[f])

ASSUME RunsAssumption == \A run \in Runs : IsProgram(run[1])

VARIABLES
  prog, stack, globals, heap, result,  \* the abstract machine
  image,   \* the code of the program, linked
  target,  \* "Linux", "Windows", "Fasm" (Linux) or "AArch64"
  rip,     \* the next instruction
  regs,    \* the registers
  mem,     \* from addresses to words
  mapped,  \* the blocks mapped by the system, in order: address and size
  frames   \* the activations: function, frame pointer, IR instruction

vars == <<prog, stack, globals, heap, result, image, target, rip, regs, mem, mapped, frames>>

IR == INSTANCE IRMachine
X == INSTANCE ISel
A == INSTANCE AArch64ISel
F == INSTANCE FasmGen

Fault == [t |-> "fault", v |-> 0]

-----------------------------------------------------------------------------
(* The machines *)

Arm == target = "AArch64"
SP == IF Arm THEN "sp" ELSE "rsp"
FP == IF Arm THEN "x29" ELSE "rbp"

Registers ==
  {"rax", "rbx", "rcx", "rcx'", "rdx", "rdi", "rsi", "r8", "r9", "r10", "rbp", "rsp", "rip",
   "x0", "x1", "x2", "x3", "x4", "x5", "x6", "x7", "x8", "x9", "x10", "x11", "x29", "x30",
   "sp", "xzr"}

Generate(p, t) ==
  CASE t = "AArch64" -> A!GenerateAArch64(p)
    [] t = "Fasm" -> F!GenerateFasm(p)
    [] OTHER -> X!GenerateX86(p, t)

Instr == image.code[rip]
From(k) == image.from[k]

Plus(p, n) == [p EXCEPT !.v = @ + n]
Mapped(a) == a \in DOMAIN mem

(* Memory with the stack pointer at n: what is below it is lost, what is    *)
(* new above it holds anything.                                            *)
WithSp(m, n) ==
  LET others == {a \in DOMAIN m : a.t # "stack"}
  IN  [a \in others \cup {At(v) : v \in n .. 0} |-> IF a \in DOMAIN m THEN m[a] ELSE Junk]

-----------------------------------------------------------------------------
(* The abstract state, read off a memory m with activations fs *)

Fn(fs, d) == prog[fs[d].fn]

LocalAt(fs, d, l) == fs[d].base + (IF Arm THEN A!LocalOffset(l) ELSE X!LocalSlot(l))
TempAt(fs, d, r) ==
  fs[d].base + (IF Arm THEN A!TempOffset(Fn(fs, d), r) ELSE X!TempSlot(Fn(fs, d), r))
(* Word v of the extra stack is where the code that takes the address of    *)
(* what begins there has it.                                               *)
AreaAt(fs, d, v) ==
  LET fn == Fn(fs, d)
      x == [offset |-> fn.extra - v]
  IN  fs[d].base + (IF Arm THEN A!AllocaOffset(fn, x) ELSE X!AllocaSlot(fn, x))

Places(fs) ==
  UNION {[t : {"local"}, d : {d}, v : 0 .. Fn(fs, d).locals - 1]
         \cup [t : {"area"}, d : {d}, v : 0 .. Fn(fs, d).extra - 1] : d \in DOMAIN fs}

Where(fs, p) == IF p.t = "local" THEN LocalAt(fs, p.d, p.v) ELSE AreaAt(fs, p.d, p.v)

(* An address on the stack means the local or extra word that is there. *)
Meaning(fs, w) ==
  IF w.t # "stack" THEN w
  ELSE LET there == {p \in Places(fs) : Where(fs, p) = w.v}
       IN  IF there = {} THEN Junk ELSE CHOOSE p \in there : TRUE

WordAt(m, fs, a) == IF a \in DOMAIN m THEN Meaning(fs, m[a]) ELSE Junk

StackOf(m, fs) ==
  [d \in DOMAIN fs |->
     LET fn == Fn(fs, d)
     IN  [fn |-> fs[d].fn, pc |-> fs[d].pc,
          regs |-> [r \in 0 .. fn.temps - 1 |-> WordAt(m, fs, At(TempAt(fs, d, r)))],
          locals |-> [l \in 0 .. fn.locals - 1 |-> WordAt(m, fs, At(LocalAt(fs, d, l)))],
          area |-> [v \in 0 .. fn.extra - 1 |-> WordAt(m, fs, At(AreaAt(fs, d, v)))]]]

GlobalsOf(m, fs) == [g \in 0 .. 1 |-> WordAt(m, fs, Global(g))]
HeapOf(m, fs) ==
  LET words == {a \in DOMAIN m : a.t = "heap"}
  IN  [v \in {a.v : a \in words} |-> WordAt(m, fs, [t |-> "heap", v |-> v])]

Observe(m, fs, r) ==
  /\ stack' = StackOf(m, fs) /\ globals' = GlobalsOf(m, fs) /\ heap' = HeapOf(m, fs)
  /\ result' = r

-----------------------------------------------------------------------------
(* One machine instruction: the registers, the memory and the next         *)
(* instruction become r, m and next.  An activation begins where the body  *)
(* of a function is entered from its prologue and ends with its return.    *)
Becomes(r, m, next) ==
  LET old == From(rip)
      new == From(next)
      left == IF Instr.i = "ret" /\ old[2] > 0 THEN SubSeq(frames, 1, Len(frames) - 1) ELSE frames
      entered == old[2] = 0 /\ new[2] > 0
      crossed == /\ new[2] > 0 /\ (entered \/ left # <<>>)
                 /\ entered \/ new # <<left[Len(left)].fn, left[Len(left)].pc>>
  IN  /\ regs' = r /\ mem' = m /\ rip' = next
      /\ frames' = CASE entered -> Append(left, [fn |-> new[1], base |-> r[FP].v, pc |-> new[2]])
                     [] crossed /\ ~entered -> [left EXCEPT ![Len(left)].pc = new[2]]
                     [] OTHER -> left
      /\ IF crossed THEN Observe(m, frames', result)
         ELSE UNCHANGED <<stack, globals, heap, result>>
      /\ UNCHANGED <<prog, image, target>>

(* The program ends with the exit code w; or it touches what is not there.  *)
Ends(w) ==
  /\ Observe(mem, <<>>, w)
  /\ frames' = <<>>
  /\ UNCHANGED <<prog, image, target, rip, regs, mem, mapped>>

Faults == Ends(Fault)

Sets(r, w) == Becomes([regs EXCEPT ![r] = w], mem, rip + 1) /\ UNCHANGED mapped
Writes(a, w) ==
  IF Mapped(a) THEN Becomes(regs, [mem EXCEPT ![a] = w], rip + 1) /\ UNCHANGED mapped ELSE Faults
Reads(r, a) == IF Mapped(a) THEN Sets(r, mem[a]) ELSE Faults

Executes(i) == result = IR!Running /\ rip \in DOMAIN image.code /\ Instr.i = i

Imms == Executes("imm") /\ Sets(Instr.r, Instr.w)
Leas == Executes("lea") /\ Sets(Instr.r, Plus(regs[Instr.b], Instr.o))
Loads == Executes("load") /\ Reads(Instr.r, Plus(regs[Instr.b], Instr.o))
LoadsAt == Executes("loadAt") /\ Reads(Instr.r, Plus(regs[Instr.b], regs[Instr.x].v))

(* add and cmp work on memory in one instruction: its operand is rcx'.      *)
Stores == Executes("store") /\ Writes(Plus(regs[Instr.b], Instr.o), regs[Instr.r])
StoresTo == Executes("storeTo") /\ Writes(Plus(regs[Instr.b], regs[Instr.x].v), regs[Instr.r])

(* AArch64 has an answer to every division: zero, or the least number. *)
Quotients(op, a, b) == IF b.v = 0 THEN Num(0) ELSE IR!Compute(op, a, b)

Alus ==
  /\ Executes("alu")
  /\ LET a == regs[Instr.a]
         b == regs[Instr.b]
     IN  CASE IR!NoQuotient(Instr.op, a, b) /\ ~Arm -> Ends(IR!Killed)
           [] IR!NoQuotient(Instr.op, a, b) /\ Arm -> Sets(Instr.r, Quotients(Instr.op, a, b))
           [] Instr.op = "plus" -> Sets(Instr.r, Plus(a, b.v))
           [] Instr.op = "round" -> Sets(Instr.r, Num(X!Align2(a.v)))
           [] OTHER -> Sets(Instr.r, IR!Compute(Instr.op, a, b))

Exts == Executes("ext") /\ Sets(Instr.r, Num(IR!Wrap(regs[Instr.s].v, Instr.to)))

(* Half of a pointer is nothing; a pointer half overwritten is none.        *)
Half(n) == IR!Wrap(n, [size |-> 4, signed |-> FALSE])

LoadHalves ==
  /\ Executes("loadHalf")
  /\ LET w == mem[Plus(regs[Instr.b], Instr.o)]
     IN  Sets(Instr.r, IF w.t = "int" THEN Num(Half(w.v)) ELSE Junk)

StoreHalves ==
  /\ Executes("storeHalf")
  /\ LET a == Plus(regs[Instr.b], Instr.o)
         w == mem[a]
     IN  Writes(a, IF w.t = "int" THEN Num(w.v - Half(w.v) + Half(regs[Instr.r].v)) ELSE Junk)

Sp == regs[SP].v

MovesSp ==
  /\ Executes("sp")
  /\ Becomes([regs EXCEPT ![SP] = Plus(@, Instr.n)], WithSp(mem, Sp + Instr.n), rip + 1)
  /\ UNCHANGED mapped

Pushed(m, w) == [WithSp(m, Sp - 1) EXCEPT ![At(Sp - 1)] = w]

Pushes ==
  /\ Executes("push")
  /\ Becomes([regs EXCEPT ![SP] = Plus(@, -1)], Pushed(mem, regs[Instr.r]), rip + 1)
  /\ UNCHANGED mapped

Pops ==
  /\ Executes("pop")
  /\ Becomes([regs EXCEPT ![Instr.r] = mem[At(Sp)], ![SP] = Plus(@, 1)], WithSp(mem, Sp + 1), rip + 1)
  /\ UNCHANGED mapped

(* leave: the stack pointer is the frame pointer, which is popped. *)
Leaves ==
  /\ Executes("leave")
  /\ LET b == regs["rbp"].v
     IN  Becomes([regs EXCEPT !["rbp"] = mem[At(b)], !["rsp"] = At(b + 1)], WithSp(mem, b + 1), rip + 1)
  /\ UNCHANGED mapped

Jumps ==
  /\ Executes("jmp")
  /\ Becomes(regs, mem, Instr.to) /\ UNCHANGED mapped

JumpsNz ==
  /\ Executes("jnz")
  /\ Becomes(regs, mem, IF regs[Instr.r].v # 0 THEN Instr.to ELSE rip + 1) /\ UNCHANGED mapped

(* The return address is pushed, or kept in the link register. *)
ReturnTo(k) == [t |-> "code", v |-> k]

Calls ==
  /\ Executes("call")
  /\ IF Arm THEN Becomes([regs EXCEPT !["x30"] = ReturnTo(rip + 1)], mem, Instr.to)
     ELSE Becomes([regs EXCEPT !["rsp"] = Plus(@, -1)], Pushed(mem, ReturnTo(rip + 1)), Instr.to)
  /\ UNCHANGED mapped

Returns ==
  /\ Executes("ret")
  /\ LET to == IF Arm THEN regs["x30"] ELSE IF Mapped(At(Sp)) THEN mem[At(Sp)] ELSE Junk
     IN  IF to.t # "code" THEN Faults
         ELSE /\ IF Arm THEN Becomes(regs, mem, to.v)
                 ELSE Becomes([regs EXCEPT !["rsp"] = Plus(@, 1)], WithSp(mem, Sp + 1), to.v)
              /\ UNCHANGED mapped

-----------------------------------------------------------------------------
(* The system *)

HeapAt(v) == [t |-> "heap", v |-> v]

(* Memory of n words, zeroed; m is memory and r the registers otherwise.    *)
Maps(r, m, answer, n) ==
  LET new == Cardinality({a \in DOMAIN m : a.t = "heap"})
  IN  /\ Becomes([r EXCEPT ![answer] = HeapAt(new)],
                 [a \in DOMAIN m \cup {HeapAt(v) : v \in new .. new + n - 1} |->
                    IF a \in DOMAIN m THEN m[a] ELSE Num(0)], rip + 1)
      /\ mapped' = Append(mapped, [at |-> HeapAt(new), size |-> n])

(* The n words at p are given back. *)
Unmaps(r, m, p, n) ==
  /\ Becomes(r, [a \in DOMAIN m |-> IF a.t = p.t /\ a.v \in p.v .. p.v + n - 1 THEN Junk ELSE m[a]],
             rip + 1)
  /\ UNCHANGED mapped

(* System calls by their x86-64 numbers. *)
NumberOf(nr) ==
  IF ~Arm THEN nr
  ELSE CASE nr = 222 -> 9 [] nr = 215 -> 11 [] nr = 93 -> 60 [] nr = 64 -> 1 [] nr = 56 -> 257
         [] OTHER -> 0

SysArgs ==
  IF Arm THEN <<regs["x0"], regs["x1"], regs["x2"], regs["x3"], regs["x4"], regs["x5"]>>
  ELSE <<regs["rdi"], regs["rsi"], regs["rdx"], regs["r10"], regs["r8"], regs["r9"]>>

(* rcx is lost on x86-64. *)
Kernel ==
  /\ Executes("syscall")
  /\ LET nr == NumberOf(regs[IF Arm THEN "x8" ELSE "rax"].v)
         answer == IF Arm THEN "x0" ELSE "rax"
         r == IF Arm THEN regs ELSE [regs EXCEPT !["rcx"] = Junk]
     IN  CASE nr = 60 -> Ends(SysArgs[1])
           [] nr = 9 -> Maps(r, mem, answer, SysArgs[2].v)
           [] nr = 11 -> Unmaps([r EXCEPT ![answer] = Num(0)], mem, SysArgs[1], SysArgs[2].v)
           [] OTHER -> /\ Becomes([r EXCEPT ![answer] = SysResult(nr, SysArgs)], mem, rip + 1)
                       /\ UNCHANGED mapped

(* Imported functions may use the volatile registers and the shadow space.  *)
Volatile == {"rax", "rcx", "rdx", "r8", "r9", "r10"}

Imports ==
  /\ Executes("import")
  /\ LET r == [q \in Registers |-> IF q \in Volatile THEN Junk ELSE regs[q]]
         m == [a \in DOMAIN mem |-> IF a.t = "stack" /\ a.v \in Sp .. Sp + 3 THEN Junk ELSE mem[a]]
         Block == mapped[CHOOSE k \in DOMAIN mapped : mapped[k].at = regs["rcx"]]
     IN  \/ Instr.name = "ExitProcess" /\ Ends(regs["rcx"])
         \/ Instr.name = "VirtualAlloc" /\ Maps(r, m, "rax", regs["rdx"].v)
         \/ /\ Instr.name = "VirtualFree"
            /\ IF regs["rcx"] \in {mapped[k].at : k \in DOMAIN mapped}
               THEN Unmaps(r, m, Block.at, Block.size) ELSE Faults

-----------------------------------------------------------------------------
(* A process starts with the stack aligned and the registers cleared; on    *)
(* Windows a return address has been pushed.                               *)
Init ==
  /\ \E run \in Runs :
       /\ prog = run[1] /\ target = run[2]
       /\ image = Generate(run[1], run[2])
       /\ rip = image.start
       /\ LET sp == IF target = "Windows" THEN -1 ELSE 0
          IN  /\ regs = [[q \in Registers |-> Num(0)] EXCEPT ![SP] = At(sp)]
              /\ mem = [a \in {At(v) : v \in sp .. 0} \cup {Global(0), Global(1)} |->
                          IF a.t = "global" THEN Num(0) ELSE Junk]
  /\ mapped = <<>> /\ frames = <<>>
  /\ stack = <<IR!Activation(IR!Entry(prog), <<>>)>>
  /\ globals = [g \in 0 .. 1 |-> Num(0)] /\ heap = [a \in {} |-> Junk] /\ result = IR!Running

Ended == result # IR!Running /\ UNCHANGED vars

Next ==
  \/ Imms \/ Leas \/ Loads \/ LoadsAt \/ Stores \/ StoresTo \/ Alus \/ Exts
  \/ MovesSp \/ Pushes \/ Pops \/ Leaves \/ Jumps \/ JumpsNz \/ Calls \/ Returns
  \/ Kernel \/ Imports \/ LoadHalves \/ StoreHalves \/ Ended

(* A processor goes on. *)
Spec == Init /\ [][Next]_vars /\ WF_vars(Next)

-----------------------------------------------------------------------------
(* What the code computes is what the IR means: instruction by instruction  *)
(* of the IR, for every function, with the arguments and results of calls   *)
(* in the places caller and callee agree on.                               *)
ImplementsIR == IR!Spec

(* The stack pointer is a multiple of 16 bytes whenever AArch64 uses it,    *)
(* and at every call on Windows; the code pads its frames for that.         *)
StackAligned ==
  (result = IR!Running) =>
    CASE Arm -> Sp % 2 = 0
      [] target = "Windows" -> Instr.i \in {"call", "import"} => Sp % 2 = 0
      [] OTHER -> TRUE

(* The words of the activations: locals, registers, the extra stack, and at *)
(* the frame pointer the two that keep the caller's frame pointer and the   *)
(* return address.                                                         *)
Kept(d) ==
  LET fn == Fn(frames, d)
  IN  {<<d, "local", l>> : l \in 0 .. fn.locals - 1} \cup {<<d, "temp", r>> : r \in 0 .. fn.temps - 1}
      \cup {<<d, "area", v>> : v \in 0 .. fn.extra - 1} \cup {<<d, "saved", n>> : n \in 0 .. 1}

PlaceOf(w) ==
  CASE w[2] = "local" -> LocalAt(frames, w[1], w[3])
    [] w[2] = "temp" -> TempAt(frames, w[1], w[3])
    [] w[2] = "area" -> AreaAt(frames, w[1], w[3])
    [] w[2] = "saved" -> frames[w[1]].base + w[3]

(* No two words of the activations, of one or of two of them, are at the    *)
(* same place: no local, register, extra word or saved word of a function  *)
(* is another one's, nor one of any of its callers; and none is below the   *)
(* stack pointer, where the next push or call would be, until the return.  *)
FramesApart ==
  LET words == UNION {Kept(d) : d \in DOMAIN frames}
      places == {PlaceOf(w) : w \in words}
  IN  /\ Cardinality(places) = Cardinality(words)
      /\ result = IR!Running /\ Instr.i # "ret" => \A a \in places : a >= Sp

(* The frame of every running function holds the frame pointer of its       *)
(* caller, for the epilogue (AArch64: "[FP] = saved X29").                  *)
CallersFrameKept ==
  \A d \in DOMAIN frames :
    d > 1 /\ result = IR!Running /\ Instr.i \notin {"ret", "leave"} =>
      mem[At(frames[d].base)] = At(frames[d - 1].base)
=============================================================================
