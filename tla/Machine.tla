-------------------------------- MODULE Machine --------------------------------
(***************************************************************************)
(* The machines the back ends emit code for, as far as that code uses      *)
(* them: registers, a stack in memory that grows downwards, calls, and the *)
(* kernel.  The constructors stand for the methods of the two emitters     *)
(* (x86_64.cpp, aarch_64.cpp); addresses and offsets are in words of eight *)
(* bytes, code addresses count instructions.                               *)
(***************************************************************************)
EXTENDS Integers, SequencesExt

Num(n) == [t |-> "int", v |-> n]
Junk == [t |-> "junk", v |-> 0]
At(a) == [t |-> "stack", v |-> a]
Global(g) == [t |-> "global", v |-> g]

(* Instructions.  A jump names its label until the fixups are patched, a    *)
(* call its symbol until it is linked.                                     *)
Imm(r, n) == [i |-> "imm", r |-> r, w |-> Num(n)]
Addr(r, g) == [i |-> "imm", r |-> r, w |-> Global(g)]
Mov(r, s) == [i |-> "lea", r |-> r, b |-> s, o |-> 0]
Lea(r, b, o) == [i |-> "lea", r |-> r, b |-> b, o |-> o]
Load(r, b, o) == [i |-> "load", r |-> r, b |-> b, o |-> o]
Store(b, o, r) == [i |-> "store", r |-> r, b |-> b, o |-> o]
LoadAt(r, b, x) == [i |-> "loadAt", r |-> r, b |-> b, x |-> x]
StoreTo(b, x, r) == [i |-> "storeTo", r |-> r, b |-> b, x |-> x]
Alu(op, r, a, b) == [i |-> "alu", op |-> op, r |-> r, a |-> a, b |-> b]
(* r becomes the low t.size bytes of s, extended. *)
Ext(r, s, size, signed) == [i |-> "ext", r |-> r, s |-> s, to |-> [size |-> size, signed |-> signed]]
(* The low half of a word in memory, read and written. *)
LoadHalf(r, b, o) == [i |-> "loadHalf", r |-> r, b |-> b, o |-> o]
StoreHalf(b, o, r) == [i |-> "storeHalf", r |-> r, b |-> b, o |-> o]
Push(r) == [i |-> "push", r |-> r]
Pop(r) == [i |-> "pop", r |-> r]
Jmp(label) == [i |-> "jmp", label |-> label, to |-> 0]
Jnz(r, label) == [i |-> "jnz", r |-> r, label |-> label, to |-> 0]
Mark(label) == [i |-> "mark", label |-> label]
Define(symbol) == Mark(<<"symbol", symbol>>)
Call(symbol) == [i |-> "call", label |-> <<"symbol", symbol>>, to |-> 0]
Import(name) == [i |-> "import", name |-> name]
Ret == [i |-> "ret"]
Leave == [i |-> "leave"]
Syscall == [i |-> "syscall"]
(* add rsp, n and sub rsp, n. *)
AddSp(n) == [i |-> "sp", n |-> n]
SubSp(n) == [i |-> "sp", n |-> -n]
(* An instruction whose operand does not fit its field: another one.        *)
Garbled(r) == [i |-> "imm", r |-> r, w |-> Junk]
(* A register that an instruction uses besides its operands: what it held   *)
(* is lost.                                                                *)
Clobbered(r) == [i |-> "imm", r |-> r, w |-> Junk]

-----------------------------------------------------------------------------
(* Emitted code is a sequence of instructions and marks, each with the IR   *)
(* instruction it belongs to: function and position, 0 for a prologue, -1  *)
(* for code that belongs to none.                                          *)
Emitted(from, xs) == [k \in DOMAIN xs |-> <<from, xs[k]>>]

(* A mark takes no room. *)
IsCode(e) == e[2].i # "mark"
Room(e) == IF IsCode(e) THEN <<e>> ELSE <<>>

(* patch_fixups, and the linker for the calls: a label means the            *)
(* instruction behind it; the maps label_pos and symbol_index keep the     *)
(* position that was set last.                                             *)
Link(emitted) ==
  LET Before[k \in 0 .. Len(emitted)] ==
        IF k = 0 THEN 0 ELSE Before[k - 1] + (IF IsCode(emitted[k]) THEN 1 ELSE 0)
      marks == {k \in DOMAIN emitted : ~IsCode(emitted[k])}
      Position(label) ==
        LET at == {k \in marks : emitted[k][2].label = label}
        IN  Before[CHOOSE k \in at : \A j \in at : j <= k] + 1
      code == FlattenSeq([k \in DOMAIN emitted |-> Room(emitted[k])])
  IN  [code |-> [k \in DOMAIN code |->
                   IF code[k][2].i \in {"jmp", "jnz", "call"}
                   THEN [code[k][2] EXCEPT !.to = Position(code[k][2].label)] ELSE code[k][2]],
       from |-> [k \in DOMAIN code |-> code[k][1]],
       start |-> Position(<<"symbol", "_start">>)]
=============================================================================
