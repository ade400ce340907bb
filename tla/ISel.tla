---------------------------------- MODULE ISel ----------------------------------
(***************************************************************************)
(* Instruction selection for x86-64 (isel.cpp).  Each IR instruction is    *)
(* turned into machine code on its own: operands are loaded from the slots *)
(* of their registers, the result is stored to its slot.                   *)
(***************************************************************************)
EXTENDS Machine

(* Slots, below rbp: locals first, then registers, then the extra stack. *)
LocalSlot(l) == -(l + 1)
TempSlot(fn, r) == -(fn.locals + r + 1)

Align2(n) == ((n + 1) \div 2) * 2

LoadTemp(fn, reg, r) == Load(reg, "rbp", TempSlot(fn, r))
StoreTemp(fn, r, reg) == Store("rbp", TempSlot(fn, r), reg)

MaxReg(os) == IF os = "Windows" THEN 4 ELSE 6
Shadow(os) == IF os = "Windows" THEN 4 ELSE 0

ArgRegs(os) ==
  IF os = "Windows" THEN <<"rcx", "rdx", "r8", "r9">>
  ELSE <<"rdi", "rsi", "rdx", "rcx", "r8", "r9">>

(* cqo and idiv, or div behind a cleared rdx. *)
AluOp(x) == IF x.kind = "div" /\ ~x.signed THEN "udiv" ELSE x.kind

(* emit_load twice, then pop in reverse order; a division needs rdx. *)
EmitBinop(fn, x) ==
  <<LoadTemp(fn, "rax", x.lhs), Push("rax"), LoadTemp(fn, "rax", x.rhs), Push("rax"),
    Pop("rbx"), Pop("rax"), Alu(AluOp(x), "rax", "rax", "rbx")>>
  \o (IF x.kind = "div" THEN <<Clobbered("rdx")>> ELSE <<>>)
  \o <<StoreTemp(fn, x.dst, "rax")>>

(* Faulty: no padding on Windows either (as in the fasm back end). *)
CallFrameUnpadded(os, n) == Shadow(os) + (IF n > MaxReg(os) THEN n - MaxReg(os) ELSE 0)

(* The words below the arguments on the stack; on Windows kept aligned. *)
CallFrame(os, n) ==
  LET count == IF n > MaxReg(os) THEN n - MaxReg(os) ELSE 0
      frame == Shadow(os) + count
  IN  IF os = "Windows" THEN Align2(frame) ELSE frame

StackArgs(fn, os, args) ==
  LET n == Len(args)
      Pass(i) == <<LoadTemp(fn, "rax", args[i]), Store("rsp", Shadow(os) + (i - 1 - MaxReg(os)), "rax")>>
  IN  FlattenSeq([j \in 1 .. (IF n > MaxReg(os) THEN n - MaxReg(os) ELSE 0) |-> Pass(n + 1 - j)])

RegArgs(fn, os, args) ==
  [i \in 1 .. (IF Len(args) > MaxReg(os) THEN MaxReg(os) ELSE Len(args)) |->
     LoadTemp(fn, ArgRegs(os)[i], args[i])]

IfAny(n, x) == IF n > 0 THEN <<x>> ELSE <<>>

EmitCall(p, fn, os, x) ==
  LET frame == CallFrame(os, Len(x.args))
  IN  IfAny(frame, SubSp(frame)) \o StackArgs(fn, os, x.args) \o RegArgs(fn, os, x.args)
      \o <<Call(p[x.func].symbol)>>
      \o IfAny(frame, AddSp(frame))
      \o (IF x.sret THEN <<>> ELSE <<StoreTemp(fn, x.dst, "rax")>>)

EmitRegionBegin(os, x) ==
  <<Load("rbx", "rbp", LocalSlot(x.local))>>
  \o (IF os = "Windows"
      THEN <<Imm("rcx", 0), Imm("rdx", x.size), SubSp(4), Import("VirtualAlloc"), AddSp(4)>>
      ELSE <<Imm("rdi", 0), Imm("rsi", x.size), Imm("rdx", 3), Imm("r10", 34), Imm("r8", -1),
             Imm("r9", 0), Imm("rax", 9), Syscall>>)
  \o <<Store("rbx", 0, "rax"), Imm("rax", 0), Store("rbx", 1, "rax"),
       Imm("rax", x.size), Store("rbx", 2, "rax")>>

(* The bump; "round" is add 15, and -16; "above" the test of the new offset. *)
EmitRegionAlloc(at, fn, os, x) ==
  <<Load("rax", "rbp", LocalSlot(x.local)), Load("rbx", "rax", 0), Load("rcx'", "rax", 1),
    Alu("plus", "rbx", "rbx", "rcx'"), StoreTemp(fn, x.dst, "rbx"),
    LoadTemp(fn, "rax", x.length), Alu("round", "rax", "rax", "rax"),
    Load("rbx", "rbp", LocalSlot(x.local)),
    Load("rcx'", "rbx", 1), Alu("add", "rcx'", "rcx'", "rax"), Store("rbx", 1, "rcx'"),
    Load("rax", "rbx", 1), Load("rcx'", "rbx", 2),
    Alu("gte", "rcx'", "rcx'", "rax"), Jnz("rcx'", <<"region", at>>)>>
  \o (IF os = "Windows" THEN <<Imm("rcx", 1), SubSp(4), Import("ExitProcess")>>
      ELSE <<Imm("rdi", 1), Imm("rax", 60), Syscall>>)
  \o <<Mark(<<"region", at>>)>>

EmitRegionEnd(os, x) ==
  <<Load("rax", "rbp", LocalSlot(x.local)), Load("rdi", "rax", 0), Load("rsi", "rax", 2)>>
  \o (IF os = "Windows"
      THEN <<Load("rcx", "rax", 0), Imm("rdx", 0), Imm("r8", 32768),
             SubSp(4), Import("VirtualFree"), AddSp(4)>>
      ELSE <<Imm("rax", 11), Syscall>>)

EmitBranch(fn, x) ==
  <<LoadTemp(fn, "rax", x.cond), Jnz("rax", <<"ir", x.then>>), Jmp(<<"ir", x.else>>)>>

(* The part of IRCast between integers: a wider type extends, a narrower     *)
(* one truncates, one of the same size copies.                             *)
EmitCast(fn, x) ==
  <<LoadTemp(fn, "rax", x.src)>>
  \o (CASE x.from.size = x.to.size -> <<>>
        [] x.from.size < x.to.size -> <<Ext("rax", "rax", x.from.size, x.from.signed)>>
        [] OTHER -> <<Ext("rax", "rax", x.to.size, x.to.signed)>>)
  \o <<StoreTemp(fn, x.dst, "rax")>>

(* emit_inst: registers, locals and control. *)
EmitScalar(p, fn, os, x) ==
  CASE x.op = "loadConst" -> <<Imm("rax", x.value), StoreTemp(fn, x.dst, "rax")>>
    [] x.op = "loadLocal" -> <<Load("rax", "rbp", LocalSlot(x.local)), StoreTemp(fn, x.dst, "rax")>>
    [] x.op = "storeLocal" -> <<LoadTemp(fn, "rax", x.src), Store("rbp", LocalSlot(x.local), "rax")>>
    [] x.op = "addrOf" -> <<Lea("rax", "rbp", LocalSlot(x.local)), StoreTemp(fn, x.dst, "rax")>>
    [] x.op = "binary" -> EmitBinop(fn, x)
    [] x.op = "call" -> EmitCall(p, fn, os, x)
    [] x.op = "return" -> <<LoadTemp(fn, "rax", x.value), Leave, Ret>>
    [] x.op = "jump" -> <<Jmp(<<"ir", x.target>>)>>
    [] x.op = "branch" -> EmitBranch(fn, x)
    [] x.op = "label" -> <<Mark(<<"ir", x.id>>)>>

(* emit_inst: fields and elements of structs and arrays. *)
EmitElement(fn, x) ==
  CASE x.op = "getField" ->
         <<LoadTemp(fn, "rax", x.base), Load("rax", "rax", x.offset), StoreTemp(fn, x.dst, "rax")>>
    [] x.op = "setField" ->
         <<LoadTemp(fn, "rax", x.base), LoadTemp(fn, "rbx", x.value), Store("rax", x.offset, "rbx")>>
    [] x.op = "loadElement" ->
         <<LoadTemp(fn, "rax", x.base), LoadTemp(fn, "rcx", x.index), LoadAt("rax", "rax", "rcx"),
           StoreTemp(fn, x.dst, "rax")>>
    [] x.op = "storeElement" ->
         <<LoadTemp(fn, "rax", x.base), LoadTemp(fn, "rcx", x.index), LoadTemp(fn, "rbx", x.value),
           StoreTo("rax", "rcx", "rbx")>>

(* Faulty: the registers are forgotten. *)
AllocaSlotOverTemps(fn, x) == -(fn.locals + x.offset)

(* The extra stack is below the registers; the offset counts from its top. *)
AllocaSlot(fn, x) == -(fn.locals + fn.temps + x.offset)

(* emit_inst: regions, the extra stack and globals. *)
EmitStorage(at, fn, os, x) ==
  CASE x.op = "regionBegin" -> EmitRegionBegin(os, x)
    [] x.op = "regionAlloc" -> EmitRegionAlloc(at, fn, os, x)
    [] x.op = "regionEnd" -> EmitRegionEnd(os, x)
    [] x.op = "alloca" ->
         <<Lea("rax", "rbp", AllocaSlot(fn, x)), StoreTemp(fn, x.dst, "rax")>>
    [] x.op = "loadGlobal" ->
         <<Addr("rax", x.global), Load("rax", "rax", 0), StoreTemp(fn, x.dst, "rax")>>
    [] x.op = "storeGlobal" ->
         <<LoadTemp(fn, "rax", x.src), Addr("rip", x.global), Store("rip", 0, "rax")>>
    [] x.op = "loadGlobalAddr" -> <<Addr("rax", x.global), StoreTemp(fn, x.dst, "rax")>>

Elements == {"getField", "setField", "loadElement", "storeElement"}
Storage ==
  {"regionBegin", "regionAlloc", "regionEnd", "alloca", "loadGlobal", "storeGlobal", "loadGlobalAddr"}

(* emit_inst: the code of one instruction. *)
EmitInst(at, p, fn, os, x) ==
  CASE x.op = "cast" -> EmitCast(fn, x)
    [] x.op \in Elements -> EmitElement(fn, x)
    [] x.op \in Storage -> EmitStorage(at, fn, os, x)
    [] OTHER -> EmitScalar(p, fn, os, x)

(* emit_prologue: the frame, and the arguments to the first locals. *)
StackSize(fn) == Align2(fn.locals + fn.temps + fn.extra)

IncomingArg(os, i) ==
  IF i < MaxReg(os) THEN <<Store("rbp", LocalSlot(i), ArgRegs(os)[i + 1])>>
  ELSE <<Load("rax", "rbp", (IF os = "Windows" THEN 6 ELSE 2) + (i - MaxReg(os))),
         Store("rbp", LocalSlot(i), "rax")>>

EmitPrologue(fn, os) ==
  <<Push("rbp"), Mov("rbp", "rsp")>> \o IfAny(StackSize(fn), SubSp(StackSize(fn)))
  \o FlattenSeq([i \in 1 .. fn.args |-> IncomingArg(os, i - 1)])

EmitFunc(p, f, os) ==
  LET fn == p[f]
  IN  Emitted(<<f, 0>>, <<Define(fn.symbol)>> \o EmitPrologue(fn, os))
      \o FlattenSeq([k \in DOMAIN fn.body |->
                       Emitted(<<f, k>>, EmitInst(<<f, k>>, p, fn, os, fn.body[k]))])

(* A system call takes its fourth argument in r10 where a function has rcx. *)
EmitSyscallStub(p, f) ==
  Emitted(<<f, -1>>, <<Define(p[f].symbol), Mov("r10", "rcx"), Imm("rax", p[f].syscall), Syscall, Ret>>)

EmitStart(p, os) ==
  LET entry == Call(p[CHOOSE f \in DOMAIN p : p[f].entry].symbol)
  IN  Emitted(<<0, -1>>, <<Define("_start")>> \o
             IF os = "Windows" THEN <<SubSp(1), entry, Mov("rcx", "rax"), SubSp(4), Import("ExitProcess")>>
             ELSE <<entry, Mov("rdi", "rax"), Imm("rax", 60), Syscall>>)

(* generate: functions in order, the start, then the fixups of all of them. *)
GenerateX86(p, os) ==
  LET One(f) == IF p[f].syscall >= 0 THEN EmitSyscallStub(p, f) ELSE EmitFunc(p, f, os)
  IN  Link(FlattenSeq([f \in DOMAIN p |-> One(f)]) \o EmitStart(p, os))
=============================================================================
