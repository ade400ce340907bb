------------------------------ MODULE AArch64ISel ------------------------------
(***************************************************************************)
(* Instruction selection for AArch64 on Linux (aarch64_isel.cpp), with the *)
(* limits of the operands as aarch_64.cpp encodes them.  The frame pointer *)
(* x29 is at the bottom of the frame: the saved x29 and x30, then locals,  *)
(* registers and the extra stack, upwards.                                 *)
(***************************************************************************)
EXTENDS Machine

X == INSTANCE ISel

LocalOffset(l) == l + 2
TempOffset(fn, r) == fn.locals + r + 2

LdrTemp(fn, reg, r) == Load(reg, "x29", TempOffset(fn, r))
StrTemp(fn, r, reg) == Store("x29", TempOffset(fn, r), reg)

(* ldur keeps nine bits of the offset in bytes, two's complement. *)
Ldur(r, b, o) == Load(r, b, ((o + 32) % 64) - 32)

(* Immediate operands of add and sub have twelve bits, in bytes. *)
FitsImm12(n) == n \in 0 .. 511
AddImm(r, s, n) == IF FitsImm12(n) THEN Lea(r, s, n) ELSE Garbled(r)
SubImm(r, s, n) == IF FitsImm12(n) THEN Lea(r, s, -n) ELSE Garbled(r)
SubSP(n) == IF FitsImm12(n) THEN SubSp(n) ELSE Garbled("sp")
AddSP(n) == IF FitsImm12(n) THEN AddSp(n) ELSE Garbled("sp")

(* static_cast<uint16_t>(-n): of a negative offset in words. *)
Uint16(n) == IF n < 0 THEN n + 8192 ELSE n

(* Faulty: no room for the saved registers. *)
FrameSizeWithoutSaved(fn) == X!Align2(fn.locals + fn.temps + fn.extra)

FrameSize(fn) == X!Align2(fn.locals + fn.temps + fn.extra + 2)

ArgReg(i) == <<"x0", "x1", "x2", "x3", "x4", "x5", "x6", "x7">>[i]

(* i counts from 0; the pointer to the result comes in x8. *)
IncomingArg(fn, i) ==
  CASE i < 8 /\ fn.sret /\ i = 0 -> <<Store("x29", LocalOffset(0), "x8")>>
    [] i < 8 /\ ~(fn.sret /\ i = 0) ->
         <<Store("x29", LocalOffset(i), ArgReg(IF fn.sret THEN i ELSE i + 1))>>
    [] OTHER -> <<Ldur("x9", "x29", FrameSize(fn) + (i - 8)), Store("x29", LocalOffset(i), "x9")>>

EmitPrologue(fn) ==
  <<SubSP(FrameSize(fn)), Store("sp", 0, "x29"), Store("sp", 1, "x30"), AddImm("x29", "sp", 0)>>
  \o FlattenSeq([i \in 1 .. fn.args |-> IncomingArg(fn, i - 1)])

EmitEpilogue(fn) ==
  <<Load("x29", "sp", 0), Load("x30", "sp", 1), AddSP(FrameSize(fn)), Ret>>

(* With a pointer to the result only seven arguments count as in registers. *)
MaxReg(sret) == IF sret THEN 7 ELSE 8
StackCount(x) == IF Len(x.args) > MaxReg(x.sret) THEN Len(x.args) - MaxReg(x.sret) ELSE 0

StackArgs(fn, x) ==
  LET n == Len(x.args)
      Pass(i) == <<LdrTemp(fn, "x9", x.args[i]), Store("sp", i - 1 - MaxReg(x.sret), "x9")>>
  IN  FlattenSeq([j \in 1 .. StackCount(x) |-> Pass(n + 1 - j)])

RegArgs(fn, x) ==
  LET first == IF x.sret THEN 1 ELSE 0
      count == IF Len(x.args) - first > MaxReg(x.sret) THEN MaxReg(x.sret) ELSE Len(x.args) - first
  IN  (IF x.sret THEN <<LdrTemp(fn, "x8", x.args[1])>> ELSE <<>>)
      \o [i \in 1 .. count |-> LdrTemp(fn, ArgReg(i), x.args[i + first])]

EmitCall(p, fn, x) ==
  LET frame == X!Align2(StackCount(x))
  IN  X!IfAny(frame, SubSP(frame)) \o StackArgs(fn, x) \o RegArgs(fn, x)
      \o <<Call(p[x.func].symbol)>>
      \o X!IfAny(frame, AddSP(frame))
      \o (IF x.sret THEN <<>> ELSE <<StrTemp(fn, x.dst, "x0")>>)

EmitRegionBegin(x) ==
  <<Load("x9", "x29", LocalOffset(x.local)),
    Imm("x0", 0), Imm("x1", x.size), Imm("x2", 3), Imm("x3", 34), Imm("x4", -1), Imm("x5", 0),
    Imm("x8", 222), Syscall,
    Store("x9", 0, "x0"), Imm("xzr", 0), Store("x9", 1, "xzr"),
    Imm("x10", x.size), Store("x9", 2, "x10")>>

EmitRegionAlloc(at, fn, x) ==
  <<Load("x9", "x29", LocalOffset(x.local)), Ldur("x0", "x9", 0), Ldur("x1", "x9", 1),
    Alu("plus", "x10", "x0", "x1"), StrTemp(fn, x.dst, "x10"),
    LdrTemp(fn, "x10", x.length), Alu("round", "x10", "x10", "x10"),
    Ldur("x11", "x9", 1), Alu("add", "x11", "x11", "x10"), Store("x9", 1, "x11"),
    Ldur("x0", "x9", 1), Ldur("x1", "x9", 2),
    Alu("gte", "x1", "x1", "x0"), Jnz("x1", <<"region", at>>),
    Imm("x0", 1), Imm("x8", 93), Syscall, Mark(<<"region", at>>)>>

EmitRegionEnd(x) ==
  <<Load("x9", "x29", LocalOffset(x.local)), Ldur("x0", "x9", 0), Ldur("x1", "x9", 2),
    Imm("x8", 215), Syscall>>

(* Faulty: the offset is taken as on x86-64. *)
AllocaOffsetFromStart(fn, x) == 2 + fn.locals + fn.temps + x.offset

(* The extra stack grows upwards, the offset counts from its other end. *)
AllocaOffset(fn, x) == 2 + fn.locals + fn.temps + fn.extra - x.offset

(* The part of IRCast between integers.  Four bytes go through the word at   *)
(* the stack pointer, which is where x29 of the caller is saved; narrowing  *)
(* to one or two bytes extends with zeros, signed or not.                  *)
Convert(from, to) ==
  CASE from.size = to.size -> <<>>
    [] from.size < to.size ->
         IF from.size = 4 /\ ~from.signed THEN <<LoadHalf("x0", "sp", 0)>>
         ELSE <<Ext("x0", "x0", from.size, from.signed)>>
    [] OTHER ->
         IF to.size = 4 THEN <<StoreHalf("sp", 0, "x0"), Ldur("x0", "sp", 0)>>
         ELSE <<Ext("x0", "x0", to.size, FALSE)>>

EmitCast(fn, x) ==
  <<LdrTemp(fn, "x0", x.src)>> \o Convert(x.from, x.to) \o <<StrTemp(fn, x.dst, "x0")>>

EmitBinop(fn, x) ==
  <<LdrTemp(fn, "x0", x.lhs), LdrTemp(fn, "x1", x.rhs), Alu(X!AluOp(x), "x0", "x0", "x1"),
    StrTemp(fn, x.dst, "x0")>>

(* emit_inst: constants and locals. *)
EmitLocal(fn, x) ==
  CASE x.op = "loadConst" -> <<Imm("x0", x.value), StrTemp(fn, x.dst, "x0")>>
    [] x.op = "loadLocal" -> <<Load("x0", "x29", LocalOffset(x.local)), StrTemp(fn, x.dst, "x0")>>
    [] x.op = "storeLocal" -> <<LdrTemp(fn, "x0", x.src), Store("x29", LocalOffset(x.local), "x0")>>
    [] x.op = "addrOf" ->
         <<SubImm("x0", "x29", Uint16(-LocalOffset(x.local))), StrTemp(fn, x.dst, "x0")>>

(* emit_inst: calls, returns and jumps. *)
EmitControl(p, fn, x) ==
  CASE x.op = "call" -> EmitCall(p, fn, x)
    [] x.op = "return" -> <<LdrTemp(fn, "x0", x.value)>> \o EmitEpilogue(fn)
    [] x.op = "jump" -> <<Jmp(<<"ir", x.target>>)>>
    [] x.op = "branch" ->
         <<LdrTemp(fn, "x0", x.cond), Jnz("x0", <<"ir", x.then>>), Jmp(<<"ir", x.else>>)>>
    [] x.op = "label" -> <<Mark(<<"ir", x.id>>)>>

(* emit_inst: fields and elements of structs and arrays. *)
EmitElement(fn, x) ==
  CASE x.op = "getField" ->
         <<LdrTemp(fn, "x0", x.base), Ldur("x0", "x0", x.offset), StrTemp(fn, x.dst, "x0")>>
    [] x.op = "setField" ->
         <<LdrTemp(fn, "x0", x.base), LdrTemp(fn, "x1", x.value), Store("x0", x.offset, "x1")>>
    [] x.op = "loadElement" ->
         <<LdrTemp(fn, "x0", x.base), LdrTemp(fn, "x1", x.index), Alu("plus", "x0", "x0", "x1"),
           Ldur("x0", "x0", 0), StrTemp(fn, x.dst, "x0")>>
    [] x.op = "storeElement" ->
         <<LdrTemp(fn, "x0", x.base), LdrTemp(fn, "x1", x.index), LdrTemp(fn, "x2", x.value),
           Alu("plus", "x0", "x0", "x1"), Store("x0", 0, "x2")>>

(* emit_inst: regions, the extra stack and globals. *)
EmitStorage(at, fn, x) ==
  CASE x.op = "regionBegin" -> EmitRegionBegin(x)
    [] x.op = "regionAlloc" -> EmitRegionAlloc(at, fn, x)
    [] x.op = "regionEnd" -> EmitRegionEnd(x)
    [] x.op = "alloca" -> <<AddImm("x0", "x29", AllocaOffset(fn, x)), StrTemp(fn, x.dst, "x0")>>
    [] x.op = "loadGlobal" ->
         <<Addr("x0", x.global), Load("x0", "x0", 0), StrTemp(fn, x.dst, "x0")>>
    [] x.op = "storeGlobal" ->
         <<LdrTemp(fn, "x0", x.src), Addr("x1", x.global), Store("x1", 0, "x0")>>
    [] x.op = "loadGlobalAddr" -> <<Addr("x0", x.global), StrTemp(fn, x.dst, "x0")>>

EmitInst(at, p, fn, x) ==
  CASE x.op = "binary" -> EmitBinop(fn, x)
    [] x.op = "cast" -> EmitCast(fn, x)
    [] x.op \in {"loadConst", "loadLocal", "storeLocal", "addrOf"} -> EmitLocal(fn, x)
    [] x.op \in X!Elements -> EmitElement(fn, x)
    [] x.op \in X!Storage -> EmitStorage(at, fn, x)
    [] OTHER -> EmitControl(p, fn, x)

EmitFunc(p, f) ==
  LET fn == p[f]
  IN  Emitted(<<f, 0>>, <<Define(fn.symbol)>> \o EmitPrologue(fn))
      \o FlattenSeq([k \in DOMAIN fn.body |->
                       Emitted(<<f, k>>, EmitInst(<<f, k>>, p, fn, fn.body[k]))])

(* Numbers are those of x86-64; some are renumbered, others pass through. *)
MapSyscall(nr) ==
  CASE nr = 0 -> 63 [] nr = 1 -> 64 [] nr = 2 -> 56 [] nr = 3 -> 57 [] nr = 8 -> 62
    [] nr = 9 -> 222 [] nr = 11 -> 215 [] nr = 39 -> 174 [] nr = 57 -> 172 [] nr = 59 -> 221
    [] nr = 60 -> 93 [] nr = 74 -> 82 [] nr = 257 -> 56
    [] OTHER -> nr

EmitSyscallStub(p, f) ==
  Emitted(<<f, -1>>, <<Define(p[f].symbol), Imm("x8", MapSyscall(p[f].syscall)), Syscall, Ret>>)

EmitStart(p) ==
  Emitted(<<0, -1>>, <<Define("_start"), Call(p[CHOOSE f \in DOMAIN p : p[f].entry].symbol),
                       Imm("x8", 93), Syscall>>)

GenerateAArch64(p) ==
  LET One(f) == IF p[f].syscall >= 0 THEN EmitSyscallStub(p, f) ELSE EmitFunc(p, f)
  IN  Link(FlattenSeq([f \in DOMAIN p |-> One(f)]) \o EmitStart(p))
=============================================================================
