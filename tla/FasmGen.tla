-------------------------------- MODULE FasmGen --------------------------------
(***************************************************************************)
(* The textual back end (fasmcodegen.cpp, --emit-asm) for Linux.  It       *)
(* selects the instructions that isel.cpp selects, one text line for each; *)
(* labels carry the number of their function, the assembler resolves them. *)
(***************************************************************************)
EXTENDS Machine

X == INSTANCE ISel

LocalSlot(l) == X!LocalSlot(l)
TempSlot(fn, r) == X!TempSlot(fn, r)

EmitBinop(fn, x) == X!EmitBinop(fn, x)

(* No padding of the frame for the arguments, on either system. *)
EmitCall(p, fn, x) ==
  LET n == Len(x.args)
      count == IF n > 6 THEN n - 6 ELSE 0
  IN  X!IfAny(count, SubSp(count))
      \o X!StackArgs(fn, "Linux", x.args) \o X!RegArgs(fn, "Linux", x.args)
      \o <<Call(p[x.func].symbol)>> \o X!IfAny(count, AddSp(count))
      \o (IF x.sret THEN <<>> ELSE <<Store("rbp", TempSlot(fn, x.dst), "rax")>>)

EmitRegionBegin(x) == X!EmitRegionBegin("Linux", x)
EmitRegionAlloc(at, fn, x) == X!EmitRegionAlloc(at, fn, "Linux", x)
EmitRegionEnd(x) == X!EmitRegionEnd("Linux", x)

(* L_<function>_<label> *)
LabelName(f, id) == <<"L", f, id>>

EmitCast(fn, x) == X!EmitCast(fn, x)

(* emit_inst: registers, locals and control, with the labels of function f. *)
EmitScalar(f, p, fn, x) ==
  CASE x.op = "binary" -> EmitBinop(fn, x)
    [] x.op = "call" -> EmitCall(p, fn, x)
    [] x.op = "jump" -> <<Jmp(LabelName(f, x.target))>>
    [] x.op = "branch" ->
         <<Load("rax", "rbp", TempSlot(fn, x.cond)),
           Jnz("rax", LabelName(f, x.then)), Jmp(LabelName(f, x.else))>>
    [] x.op = "label" -> <<Mark(LabelName(f, x.id))>>
    [] OTHER -> X!EmitScalar(p, fn, "Linux", x)

(* emit_inst: regions, the extra stack and globals. *)
EmitStorage(at, fn, x) ==
  CASE x.op = "regionBegin" -> EmitRegionBegin(x)
    [] x.op = "regionAlloc" -> EmitRegionAlloc(at, fn, x)
    [] x.op = "regionEnd" -> EmitRegionEnd(x)
    [] OTHER -> X!EmitStorage(at, fn, "Linux", x)

EmitElement(fn, x) == X!EmitElement(fn, x)

EmitInst(at, p, fn, x) ==
  CASE x.op = "cast" -> EmitCast(fn, x)
    [] x.op \in X!Elements -> EmitElement(fn, x)
    [] x.op \in X!Storage -> EmitStorage(at, fn, x)
    [] OTHER -> EmitScalar(at[1], p, fn, x)

StackSize(fn) == X!Align2(fn.locals + fn.temps + fn.extra)

EmitFunc(p, f) ==
  LET fn == p[f]
      Arg(i) == IF i < 6 THEN <<Store("rbp", LocalSlot(i), X!ArgRegs("Linux")[i + 1])>>
                ELSE <<Load("rax", "rbp", 2 + (i - 6)), Store("rbp", LocalSlot(i), "rax")>>
  IN  Emitted(<<f, 0>>, <<Define(fn.symbol), Push("rbp"), Mov("rbp", "rsp")>>
                        \o X!IfAny(StackSize(fn), SubSp(StackSize(fn)))
                        \o FlattenSeq([i \in 1 .. fn.args |-> Arg(i - 1)]))
      \o FlattenSeq([k \in DOMAIN fn.body |->
                       Emitted(<<f, k>>, EmitInst(<<f, k>>, p, fn, fn.body[k]))])

(* generate: all functions and stubs, then the start. *)
GenerateFasm(p) ==
  LET One(f) == IF p[f].syscall >= 0 THEN X!EmitSyscallStub(p, f) ELSE EmitFunc(p, f)
  IN  Link(FlattenSeq([f \in DOMAIN p |-> One(f)]) \o X!EmitStart(p, "Linux"))
=============================================================================
