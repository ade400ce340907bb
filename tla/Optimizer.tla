------------------------------ MODULE Optimizer ------------------------------
(***************************************************************************)
(* optimize (src/ir/opt.cpp): the rounds of constant folding, removal of   *)
(* dead instructions and of dead stores over the functions of a program,   *)
(* and the removal of labels nothing jumps to.                             *)
(*                                                                         *)
(* The program first runs as it was generated.  Then the optimizer works   *)
(* on it, pass by pass, and after any pass the program as it is then runs  *)
(* again, on the same machine: what it does must be what it did.           *)
(*                                                                         *)
(* Registers and instructions are those of IRMachine.  Floats, which fold  *)
(* like integers without the identities, are left out; every binary        *)
(* operation is one of integers, signed or not.                            *)
(***************************************************************************)
EXTENDS Integers, Sequences, SequencesExt, FiniteSetsExt

CONSTANTS
  Sources,         \* the programs considered
  SysResult(_, _), \* what the kernel answers: number, arguments
  ByteBits         \* the width of a byte, of which a word has eight

VARIABLES
  program,  \* the program as it is now
  stack, globals, heap, result,  \* the machine that runs it
  phase,    \* "reference", "optimize", "optimized", "check"
  round,    \* of optimize
  fn,       \* the function it is at
  pass,     \* the pass it does next, of Passes
  changed,  \* whether this round changed anything
  trace,    \* the calls of the kernel so far
  expected, \* what the program did before it was optimized
  excused   \* it did what the code generators leave open

machine == <<stack, globals, heap, result>>
work == <<round, fn, pass, changed>>
vars == <<program, machine, phase, work, trace, expected, excused>>

IR == INSTANCE IRMachine WITH prog <- program
Flow == INSTANCE DeadLocals

Rounds == 4

-----------------------------------------------------------------------------
(* The fields of an instruction that name registers it reads; a call reads *)
(* its args besides.                                                       *)
Operands(x) ==
  CASE x.op = "binary" -> {"lhs", "rhs"}
    [] x.op = "branch" -> {"cond"}
    [] x.op = "return" -> {"value"}
    [] x.op = "getField" -> {"base"}
    [] x.op = "setField" -> {"base", "value"}
    [] x.op = "loadElement" -> {"base", "index"}
    [] x.op = "storeElement" -> {"base", "index", "value"}
    [] x.op \in {"cast", "storeLocal", "storeGlobal"} -> {"src"}
    [] x.op = "regionAlloc" -> {"length"}
    [] OTHER -> {}

Uses(x) == {x[f] : f \in Operands(x)} \cup (IF x.op = "call" THEN Range(x.args) ELSE {})

(* What stays whether its result is used or not. *)
Keep(x) ==
  x.op \in {"storeLocal", "call", "return", "jump", "branch", "label", "setField", "storeElement",
            "regionBegin", "regionAlloc", "regionEnd", "storeGlobal"}

CompactBody(body, dead) ==
  LET kept == SelectSeq([i \in DOMAIN body |-> i], LAMBDA i : i \notin dead)
  IN  [k \in DOMAIN kept |-> body[kept[k]]]

(* One scan from the end: live holds the registers that are read further   *)
(* down by what stays.                                                     *)
RECURSIVE Unused(_, _, _, _)
Unused(body, i, live, dead) ==
  IF i = 0 THEN dead
  ELSE IF ~Keep(body[i]) /\ body[i].dst \notin live
  THEN Unused(body, i - 1, live, dead \cup {i})
  ELSE Unused(body, i - 1, live \cup Uses(body[i]), dead)

RemoveDeadInstructions(body) == CompactBody(body, Unused(body, Len(body), {}, {}))

-----------------------------------------------------------------------------
(* The instruction as remove_dead_locals sees it. *)
Seen(x) ==
  CASE x.op = "storeLocal" -> [op |-> "store", x |-> x.local]
    [] x.op \in {"loadLocal", "regionAlloc"} -> [op |-> "load", x |-> x.local]
    [] x.op = "addrOf" -> [op |-> "addr", x |-> x.local]
    [] x.op = "regionBegin" -> [op |-> "begin", x |-> x.local]
    [] x.op = "regionEnd" -> [op |-> "end", x |-> x.local]
    [] x.op = "label" -> [op |-> "label", l |-> x.id]
    [] x.op = "jump" -> [op |-> "jump", l |-> x.target]
    [] x.op = "branch" -> [op |-> "branch", then |-> x.then, else |-> x.else]
    [] x.op = "return" -> [op |-> "ret"]
    [] OTHER -> [op |-> "eff"]

(* Faulty: the way back of a loop does not count. *)
RemoveDeadLocalsForward(body) ==
  LET forward == [i \in DOMAIN body |-> IF body[i].op = "jump" THEN [op |-> "eff"] ELSE Seen(body[i])]
  IN  CompactBody(body, Flow!RemoveDeadLocals(forward))

RemoveDeadLocals(body) ==
  CompactBody(body, Flow!RemoveDeadLocals([i \in DOMAIN body |-> Seen(body[i])]))

-----------------------------------------------------------------------------
(* The order of words, as of signed or of unsigned numbers.                *)
Less(a, b, signed) == IF signed THEN a < b ELSE IR!Unsigned(a) < IR!Unsigned(b)

(* Faulty: unsigned numbers are divided like signed ones. *)
FoldIntSigned(op, a, b, signed) ==
  CASE op = "div" -> IF b = 0 \/ (a = IR!Least /\ b = -1) THEN {} ELSE {IR!Quotient(a, b, TRUE)}
    [] op = "lt" -> {IR!Truth(Less(a, b, signed)).v}
    [] op = "gte" -> {IR!Truth(~Less(a, b, signed)).v}
    [] OTHER -> {IR!Compute(op, IR!Num(a), IR!Num(b)).v}

(* fold_int: at most one value. A division by zero is left alone, and that  *)
(* of the least signed number by -1.                                       *)
FoldInt(op, a, b, signed) ==
  CASE op = "div" ->
         IF b = 0 \/ (signed /\ a = IR!Least /\ b = -1) THEN {} ELSE {IR!Quotient(a, b, signed)}
    [] op = "lt" -> {IR!Truth(Less(a, b, signed)).v}
    [] op = "gte" -> {IR!Truth(~Less(a, b, signed)).v}
    [] OTHER -> {IR!Compute(op, IR!Num(a), IR!Num(b)).v}

(* The registers that hold integer constants, from the body as it was. *)
Constants(body) ==
  LET loads == {i \in DOMAIN body : body[i].op = "loadConst"}
  IN  [r \in {body[i].dst : i \in loads} |-> body[Max({i \in loads : body[i].dst = r})].value]

Known(c, r, n) == r \in DOMAIN c /\ c[r] = n

(* The operand that the result equals because the other one is neutral. *)
SameAs(x, c) ==
  (IF (x.kind \in {"add", "sub", "bitOr"} /\ Known(c, x.rhs, 0)) \/ (x.kind \in {"mul", "div"} /\ Known(c, x.rhs, 1))
   THEN {x.lhs} ELSE
   IF (x.kind \in {"add", "bitOr"} /\ Known(c, x.lhs, 0)) \/ (x.kind = "mul" /\ Known(c, x.lhs, 1))
   THEN {x.rhs} ELSE {})

(* The constant it is, if it is one. *)
Folded(x, c) ==
  LET both == IF {x.lhs, x.rhs} \subseteq DOMAIN c THEN FoldInt(x.kind, c[x.lhs], c[x.rhs], x.signed) ELSE {}
  IN  IF both # {} THEN both
      ELSE IF x.kind \in {"mul", "bitAnd"} /\ (Known(c, x.lhs, 0) \/ Known(c, x.rhs, 0)) THEN {0} ELSE {}

(* rename_reg_in_inst *)
RenameReg(x, from, to) ==
  LET New(r) == IF r = from THEN to ELSE r
  IN  [f \in DOMAIN x |-> IF f \in Operands(x) THEN New(x[f])
                          ELSE IF f = "args" THEN [k \in DOMAIN x.args |-> New(x.args[k])]
                          ELSE x[f]]

(* The loop over the body, from instruction i. What equals an operand is   *)
(* erased at the end, and its register renamed everywhere at once.         *)
RECURSIVE FoldFrom(_, _, _, _)
FoldFrom(body, c, i, erase) ==
  IF i > Len(body) THEN CompactBody(body, erase)
  ELSE LET x == body[i]
       IN  IF x.op # "binary" THEN FoldFrom(body, c, i + 1, erase)
           ELSE IF Folded(x, c) # {}
           THEN FoldFrom([body EXCEPT ![i] = [op |-> "loadConst", dst |-> x.dst,
                                              value |-> CHOOSE n \in Folded(x, c) : TRUE]],
                         c, i + 1, erase)
           ELSE IF SameAs(x, c) # {}
           THEN LET to == CHOOSE r \in SameAs(x, c) : TRUE
                IN  FoldFrom([k \in DOMAIN body |-> RenameReg(body[k], x.dst, to)], c, i + 1, erase \cup {i})
           ELSE FoldFrom(body, c, i + 1, erase)

FoldConstants(body) == FoldFrom(body, Constants(body), 1, {})

CompactLabels(body) ==
  LET targets == UNION {CASE body[i].op = "jump" -> {body[i].target}
                          [] body[i].op = "branch" -> {body[i].then, body[i].else}
                          [] OTHER -> {} : i \in DOMAIN body}
  IN  CompactBody(body, {i \in DOMAIN body : body[i].op = "label" /\ body[i].id \notin targets})

-----------------------------------------------------------------------------
Outcome == [result |-> result, globals |-> globals, trace |-> trace]
Running == stack # <<>>

Init ==
  /\ program \in Sources
  /\ IR!Init
  /\ phase = "reference"
  /\ round = 1 /\ fn = 1 /\ pass = 1 /\ changed = FALSE
  /\ trace = <<>> /\ expected = <<>> /\ excused = FALSE

(* An instruction that stays, other than a store that may be a dead one,    *)
(* reads what the running one computes.                                    *)
Demanded ==
  \E k \in DOMAIN IR!Body :
    LET x == IR!Body[k]
    IN  Keep(x) /\ x.op # "storeLocal" /\ IR!Inst.dst \in Uses(x)

(* What the code generators do otherwise than the optimizer: they compare  *)
(* unsigned numbers as signed ones, and a division that traps does so      *)
(* whether its result is needed or not.                                    *)
LeftOpen ==
  /\ IR!Inst.op = "binary"
  /\ LET a == IR!Reg(IR!Inst.lhs)  b == IR!Reg(IR!Inst.rhs)
     IN  \/ IR!Traps /\ ~Demanded
         \/ IR!Inst.kind \in {"lt", "gte"} /\ ~IR!Inst.signed /\ (a.v < 0) # (b.v < 0)

CallsKernel == IR!Inst.op = "call" /\ IR!Func(IR!Inst.func).syscall >= 0

Run ==
  /\ phase \in {"reference", "check"} /\ Running
  /\ IR!Next
  /\ trace' = IF CallsKernel
              THEN Append(trace, [nr |-> IR!Func(IR!Inst.func).syscall, args |-> IR!Arguments]) ELSE trace
  /\ excused' = (excused \/ (phase = "reference" /\ LeftOpen))
  /\ UNCHANGED <<phase, work, expected>>

StartOptimizing ==
  /\ phase = "reference" /\ ~Running
  /\ expected' = Outcome
  /\ phase' = "optimize"
  /\ UNCHANGED <<program, machine, work, trace, excused>>

Apply(p, body) ==
  CASE p = 1 -> FoldConstants(body)
    [] p = 3 -> RemoveDeadLocals(body)
    [] OTHER -> RemoveDeadInstructions(body)

(* The next pass over a function. A round over all functions that changed  *)
(* something is followed by another one, up to the limit.                  *)
OptimizePass ==
  /\ phase = "optimize"
  /\ \E new \in {IF program[fn].body = <<>> THEN <<>> ELSE Apply(pass, program[fn].body)} :
       LET more == changed \/ new # program[fn].body
       IN  /\ program' = [program EXCEPT ![fn].body = new]
           /\ IF pass < 4
              THEN pass' = pass + 1 /\ changed' = more /\ UNCHANGED <<phase, round, fn>>
              ELSE IF fn < Len(program)
              THEN pass' = 1 /\ fn' = fn + 1 /\ changed' = more /\ UNCHANGED <<phase, round>>
              ELSE /\ pass' = 1 /\ fn' = 1 /\ changed' = FALSE
                   /\ IF more /\ round < Rounds THEN round' = round + 1 /\ UNCHANGED phase
                                                ELSE round' = 1 /\ phase' = "optimized"
  /\ UNCHANGED <<machine, trace, expected, excused>>

(* The last step of -O2. *)
Compact ==
  /\ phase = "optimized"
  /\ program' = [f \in DOMAIN program |-> [program[f] EXCEPT !.body = CompactLabels(@)]]
  /\ program' # program
  /\ UNCHANGED <<machine, phase, work, trace, expected, excused>>

(* The program runs as it is now. *)
Check ==
  /\ phase \in {"optimize", "optimized"}
  /\ phase' = "check"
  /\ stack' = <<IR!Activation(IR!Entry(program), <<>>)>>
  /\ globals' = [g \in DOMAIN globals |-> IR!Num(0)] /\ heap' = [a \in {} |-> IR!Junk]
  /\ result' = IR!Running
  /\ trace' = <<>>
  /\ round' = 1 /\ fn' = 1 /\ pass' = 1 /\ changed' = FALSE
  /\ UNCHANGED <<program, expected, excused>>

Next == Run \/ StartOptimizing \/ OptimizePass \/ Compact \/ Check

(* The compiler and the processor go on. *)
Spec == Init /\ [][Next]_vars /\ WF_vars(Next)

-----------------------------------------------------------------------------
(* After every pass of every round, on every function, the program does    *)
(* what it did before: the same calls of the kernel with the same          *)
(* arguments in the same order, and at the end the same exit code and the  *)
(* same globals; if a division traps whose result is needed, it still      *)
(* does. A program is excused whose unoptimized run traps in a division    *)
(* that no instruction needs but other operations, or compares a negative  *)
(* number as an unsigned one.                                              *)
SameOutcome ==
  (phase = "check" /\ ~excused) =>
    /\ IsPrefix(trace, expected.trace)
    /\ ~Running => Outcome = expected

(* The rounds come to an end, and so does the program behind them.         *)
EveryRunEnds == <>(phase = "check" /\ ~Running)
=============================================================================
