------------------------------ MODULE FlowFacts ------------------------------
(***************************************************************************)
(* What the semantic analysis knows of variables (semantic.cpp, VarSymbol  *)
(* in symbol_table.h): declared, initialized, mutable, may be null,        *)
(* constant value, guard.  The analysis walks a function once, in source   *)
(* order, and keeps one fact per symbol; the program then runs along any   *)
(* path.  The properties relate the two.                                   *)
(*                                                                         *)
(* A program is its sequence of items in source order.  An item has the    *)
(* positions control can reach behind it (next), so that if, else if,      *)
(* while, switch, break, continue, return and calls of other functions are *)
(* all forward or backward edges.  Variables are named apart; parameters   *)
(* are the variables declared before the first item.                       *)
(***************************************************************************)
EXTENDS Naturals, Sequences

CONSTANTS
  Pointers,    \* variables of type *T
  References,  \* variables of type &T, and the &T parameters of what is called
  Integers,    \* variables that conditions of guards are about
  Parameters,  \* those of the pointers that are parameters of the function
  Programs,    \* the programs considered
  HeapFails    \* whether heap_malloc can be out of memory

Variables == Pointers \cup References \cup Integers

(* Expressions: nullptr, &x, alloc(..), heap_malloc(..), a pointer the      *)
(* analysis cannot reason about (field, element, cast, other call), integer *)
(* literals, an integer that is no literal, and the variables.              *)
PointerValues == {"nullptr", "addr", "alloc", "heap", "other"}
IntegerValues == {"zero", "one", "computed"}
Values == PointerValues \cup IntegerValues \cup Variables

NoGuard == "no guard"

Item == [op : {"declare", "assign", "pass", "use", "test"},
         var : Variables,                          \* declared, assigned or parameter
         val : Values \cup {"none", "init"},       \* none: no initializer; init: @init
         mut : BOOLEAN,
         guard : Integers \cup {NoGuard},          \* @guard(g > 0)
         next : SUBSET Nat]

OfKind(v, val) ==
  \/ v \in Integers /\ val \in IntegerValues \cup Integers
  \/ v \in Pointers \cup References /\ val \in PointerValues \cup Pointers \cup References

ItemOK(b, i) ==
  /\ b[i] \in Item
  /\ b[i].next \subseteq 1 .. Len(b) + 1
  /\ b[i].val \in {"none", "init"} => b[i].op \in {"declare", "test"}
  /\ b[i].op \in {"assign", "declare", "pass"} =>
       b[i].val \in {"none", "init"} \/ OfKind(b[i].var, b[i].val)
  /\ b[i].op = "use" => b[i].val \in Variables
  /\ b[i].op = "declare" => b[i].var \notin Parameters
  /\ b[i].op = "pass" => b[i].var \in References \cup Integers \cup Parameters

ASSUME FlowAssumption ==
  /\ Parameters \subseteq Pointers
  /\ Pointers \cap References = {}
  /\ (Pointers \cup References) \cap Integers = {}
  /\ Variables \cap (PointerValues \cup IntegerValues \cup {"none", "init", NoGuard}) = {}
  /\ HeapFails \in BOOLEAN
  /\ \A b \in Programs : b \in Seq(Item) /\ \A i \in 1 .. Len(b) : ItemOK(b, i)

VARIABLES
  prog,    \* the program
  known,   \* the facts before each item the walk has come to; the last are current
  errors,  \* whether an error was reported
  phase,   \* analysis, then the run of an accepted program
  pc,      \* the position of the run
  env      \* what the variables hold in the run

vars == <<prog, known, errors, phase, pc, env>>

-----------------------------------------------------------------------------
(* The analysis *)

Fact == [declared : BOOLEAN, initialized : BOOLEAN, mut : BOOLEAN, nullable : BOOLEAN,
         const : {"zero", "one", "unknown"}, guard : Integers \cup {NoGuard}]

Undeclared == [declared |-> FALSE, initialized |-> FALSE, mut |-> FALSE, nullable |-> FALSE,
               const |-> "unknown", guard |-> NoGuard]

(* A parameter is a FuncArgSymbol: initialized, always nullable. *)
Parameter == [Undeclared EXCEPT !.declared = TRUE, !.initialized = TRUE,
                                !.mut = TRUE, !.nullable = TRUE]

Facts == known[Len(known)]
At == prog[Len(known)]

(* Faulty: takes the facts of variables for settled. *)
MayBeNullLiterally(f, val) == val \in {"nullptr", "other"}

MayBeNull(f, val) ==
  \/ val \in {"nullptr", "other"}
  \/ val \in Variables /\ (~f[val].declared \/ f[val].nullable)

IsPointer(val) == val \in Pointers \cup {"alloc", "heap", "other"}

(* A value can be analysed: no variable that is unknown or not initialized. *)
Analysed(f, val) == val \in Variables => f[val].declared /\ f[val].initialized

(* Faulty: only the literal nullptr is kept out of references. *)
AssignableByType(f, var, val) == var \in References => val # "nullptr"

(* nullptr is never a reference, and a pointer only if it is never null. *)
Assignable(f, var, val) ==
  var \in References => /\ val # "nullptr"
                        /\ IsPointer(val) => ~MayBeNull(f, val)

(* The guard of an argument, evaluated with the values the facts give to    *)
(* the variables of its condition: it fails when it is known to be false.  *)
GuardPasses(f, val) ==
  val \in Variables /\ f[val].guard # NoGuard => f[f[val].guard].const # "zero"

AcceptsDeclare(f, it) ==
  /\ ~f[it.var].declared
  /\ it.guard # NoGuard => Analysed(f, it.guard)
  /\ IF it.val \in {"none", "init"} THEN it.mut \/ it.val = "init"
     ELSE Analysed(f, it.val) /\ Assignable(f, it.var, it.val)

(* Faulty: immutable variables are assigned to. *)
WritableDeclared(f, var) == f[var].declared

Writable(f, var) == f[var].declared /\ f[var].mut

AcceptsAssign(f, it) ==
  Analysed(f, it.val) /\ Writable(f, it.var) /\ Assignable(f, it.var, it.val)

AcceptsPass(f, it) ==
  Analysed(f, it.val) /\ GuardPasses(f, it.val) /\ Assignable(f, it.var, it.val)

Accepts(f, it) ==
  CASE it.op = "declare" -> AcceptsDeclare(f, it)
    [] it.op = "assign" -> AcceptsAssign(f, it)
    [] it.op = "pass" -> AcceptsPass(f, it)
    [] it.op = "use" -> Analysed(f, it.val)
    [] it.op = "test" -> TRUE

(* Faulty: the initializer, whatever it is, becomes the constant value. *)
DeclaredConstant(f, it) ==
  [declared |-> TRUE, initialized |-> it.val # "none", mut |-> it.mut,
   nullable |-> it.var \in Pointers, const |-> it.val, guard |-> it.guard]

DeclaredFact(f, it) ==
  [declared |-> TRUE, initialized |-> it.val # "none", mut |-> it.mut,
   nullable |-> it.var \in Pointers /\ (it.val \in {"none", "init"} \/ MayBeNull(f, it.val)),
   const |-> IF it.val \in {"zero", "one"} THEN it.val ELSE "unknown",
   guard |-> it.guard]

(* Faulty: an assignment replaces the nullability. *)
AssignedFlow(f, it) ==
  [f[it.var] EXCEPT !.initialized = TRUE, !.nullable = MayBeNull(f, it.val)]

(* mark_symbol_initialized and mark_may_be_null. *)
AssignedFact(f, it) ==
  [f[it.var] EXCEPT !.initialized = TRUE,
                    !.nullable = @ \/ (it.var \in Pointers /\ MayBeNull(f, it.val))]

After(f, it) ==
  IF ~Accepts(f, it) THEN f
  ELSE CASE it.op = "declare" -> [f EXCEPT ![it.var] = DeclaredFact(f, it)]
         [] it.op = "assign" -> [f EXCEPT ![it.var] = AssignedFact(f, it)]
         [] it.op \in {"use", "test", "pass"} -> f

Analyse ==
  /\ phase = "analysis" /\ Len(known) <= Len(prog)
  /\ errors' = (errors \/ ~Accepts(Facts, At))
  /\ known' = Append(known, After(Facts, At))
  /\ UNCHANGED <<prog, phase, pc, env>>

(* Nothing is generated when there were errors. *)
StartRun ==
  /\ phase = "analysis" /\ Len(known) > Len(prog)
  /\ phase' = IF errors THEN "refused" ELSE "run"
  /\ UNCHANGED <<prog, known, errors, pc, env>>

-----------------------------------------------------------------------------
(* The run *)

Contents == {"null", "object", "zero", "one", "junk"}

(* heap_malloc returns NULL when it is out of memory (heap.qu); alloc ends  *)
(* the program when the region is full.                                    *)
Outcomes(val) ==
  CASE val = "nullptr" -> {"null"}
    [] val \in {"addr", "alloc"} -> {"object"}
    [] val = "heap" -> IF HeapFails THEN {"null", "object"} ELSE {"object"}
    [] val = "other" -> {"null", "object"}
    [] val \in {"zero", "one"} -> {val}
    [] val = "computed" -> {"zero", "one"}
    [] val \in Variables -> {env[val]}
    [] val \in {"none", "init"} -> {"junk"}

Execute ==
  /\ phase = "run" /\ pc <= Len(prog)
  /\ IF prog[pc].op \in {"declare", "assign", "pass"}
     THEN \E x \in Outcomes(prog[pc].val) : env' = [env EXCEPT ![prog[pc].var] = x]
     ELSE UNCHANGED env
  /\ pc' \in prog[pc].next
  /\ UNCHANGED <<prog, known, errors, phase>>

Init ==
  /\ prog \in Programs
  /\ known = <<[v \in Variables |-> IF v \in Parameters THEN Parameter ELSE Undeclared]>>
  /\ errors = FALSE
  /\ phase = "analysis"
  /\ pc = 1
  /\ \E x \in [Parameters -> {"null", "object"}] :
       env = [v \in Variables |-> IF v \in Parameters THEN x[v] ELSE "junk"]

Next == Analyse \/ StartRun \/ Execute

Spec == Init /\ [][Next]_vars

-----------------------------------------------------------------------------
(* Properties *)

(* The walk keeps one fact per variable and position, the run one content. *)
TypeOK ==
  /\ prog \in Seq(Item)
  /\ known \in Seq([Variables -> Fact]) /\ Len(known) \in 1 .. Len(prog) + 1
  /\ errors \in BOOLEAN
  /\ phase \in {"analysis", "run", "refused"}
  /\ pc \in 1 .. Len(prog) + 1
  /\ env \in [Variables -> Contents]

(* A reference never holds null in the run of a program that was accepted  *)
(* (AI_CONTEXT.md: "Cannot hold `nullptr` (enforced by nullability         *)
(* analysis)"), a parameter and a returned reference included.             *)
ReferencesNotNull == phase = "run" => \A v \in References : env[v] # "null"

(* Wherever the run is, a pointer that holds null is one that the analysis *)
(* held for nullable at that place of the source.                          *)
NullsKnown ==
  phase = "run" => \A v \in Pointers : env[v] = "null" => known[pc][v].nullable

(* AI_CONTEXT.md: "Once a pointer variable is marked "maybe null", it can  *)
(* never lose that status": no statement, in no branch, takes it back.     *)
NullabilityMonotone ==
  [][\A v \in Variables : Facts[v].nullable => Facts'[v].nullable]_known

(* The argument the run is about to pass, if it has a guard. *)
GuardedArgument ==
  /\ phase = "run" /\ pc <= Len(prog) /\ prog[pc].op = "pass"
  /\ prog[pc].val \in Variables
  /\ known[pc][prog[pc].val].guard # NoGuard

(* An argument with a guard is passed only when the guard holds then       *)
(* (Doc.md: "passes: count > 0 is true at compile time"), for guards about *)
(* what Doc.md calls const, immutable variables with a literal value:      *)
(* nothing that runs between the declaration and the call makes them       *)
(* false.  A guard about a mutable variable may be false by then.          *)
GuardsOfConstantsHold ==
  GuardedArgument =>
    LET g == known[pc][prog[pc].val].guard
    IN  known[pc][g].const # "unknown" /\ ~known[pc][g].mut => env[g] # "zero"
=============================================================================
