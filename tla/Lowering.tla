------------------------------ MODULE Lowering ------------------------------
(***************************************************************************)
(* The code that IRGen makes of a function runs side by side with the      *)
(* function itself.  Both produce events: effects, tests of conditions,    *)
(* begins and ends of regions, the return.  The outcome of a test is not   *)
(* determined; both get the same one.                                      *)
(***************************************************************************)
EXTENDS DeadStores, IRGen, Statements

CONSTANT Programs   \* function bodies

VARIABLES
  prog,   \* the function that was compiled
  src,    \* the state of the execution of prog
  agree,  \* the events have been the same so far
  open    \* the regions that have begun and not ended in the IR

vars == <<flow, prog, src, agree, open>>

(* The ids of the statements: where they are in the function. *)
RECURSIVE Tag(_, _)
Tag(b, p) ==
  [i \in 1..Len(b) |->
    LET s == b[i]
        q == Append(p, i)
    IN  [f \in DOMAIN s \cup {"id"} |->
          CASE f = "id" -> q
            [] f = "body" -> Tag(s.body, Append(q, 0))
            [] f \in {"arms", "els", "def"} ->
                 [j \in 1..Len(s[f]) |-> Tag(s[f][j], q \o (IF f = "arms" THEN <<0, j>> ELSE <<1, 1>>))]
            [] f = "cases" ->
                 [j \in 1..Len(s.cases) |->
                    [vals |-> s.cases[j].vals, body |-> Tag(s.cases[j].body, q \o <<0, j>>)]]
            [] OTHER -> s[f]]]

LoweringInit ==
  /\ \E b \in Programs : prog = Tag(b, <<>>)
  /\ code = GenFunction(prog)
  /\ Starts
  /\ src = Start(prog)
  /\ agree = TRUE
  /\ open = {}

(* What is no event: labels, jumps and the store of a region's slot, which *)
(* is not one of the function.                                             *)
Hidden == Inst.op \in {"label", "jump"} \/ (Inst.op = "store" /\ Inst.ev[1] = "slot")

(* The code does its next instruction, the function its next event. *)
Step ==
  /\ InFunction
  /\ \E taken \in Outcomes :
       /\ Runs(taken)
       /\ LET e == Pending(src)
          IN  \/ /\ Hidden \/ ~agree
                 /\ UNCHANGED <<src, agree>>
              \/ /\ ~Hidden /\ agree
                 /\ agree' = (e.ev = Inst.ev)
                 /\ src' = IF e.ev # Inst.ev THEN src ELSE IF taken THEN e.yes ELSE e.no
  /\ open' = CASE Inst.op = "begin" -> open \cup {Inst.x}
               [] Inst.op = "end" -> open \ {Inst.x}
               [] OTHER -> open
  /\ UNCHANGED prog

LoweringSpec == LoweringInit /\ [][Step]_vars

-----------------------------------------------------------------------------
(* All statements of a block, at every depth. *)
RECURSIVE Within(_)
Within(b) ==
  {b[i] : i \in 1..Len(b)} \cup
  UNION {LET s == b[i]
             sub(f) == IF f \notin DOMAIN s THEN {}
                       ELSE IF f = "body" THEN {s.body}
                       ELSE IF f = "cases" THEN {s.cases[j].body : j \in 1..Len(s.cases)}
                       ELSE {s[f][j] : j \in 1..Len(s[f])}
         IN  UNION {Within(c) : c \in UNION {sub(f) : f \in {"body", "arms", "els", "cases", "def"}}}
         : i \in 1..Len(b)}

(* A region that break, continue or return can leave, seen from the        *)
(* outside: one whose body has such a statement, other than a break or     *)
(* continue of a loop or switch inside it.                                 *)
RECURSIVE Jumps(_, _)
Jumps(b, kinds) ==
  \E i \in 1..Len(b) :
    LET s == b[i]
        inner == kinds \ (CASE s.k = "while" -> {"break", "continue"}
                            [] s.k = "switch" -> {"break"} [] OTHER -> {})
        sub(f) == f \in DOMAIN s /\ \E j \in 1..Len(s[f]) :
                    Jumps(IF f = "cases" THEN s[f][j].body ELSE s[f][j], inner)
    IN  \/ s.k \in kinds
        \/ "body" \in DOMAIN s /\ Jumps(s.body, inner)
        \/ \E f \in {"arms", "els", "cases", "def"} : sub(f)

LeavesRegions ==
  \E s \in Within(prog) : s.k = "region" /\ Jumps(s.body, {"break", "continue", "return"})

(* A switch with a default whose branches all end in a jump, and some in a *)
(* break of the switch itself.                                             *)
EndsInJump(b) ==
  GenBlock(b, [code |-> <<>>, term |-> FALSE, label |-> 1], [brk |-> 0, cont |-> 0]).term
BreaksSwitch ==
  \E s \in Within(prog) :
    /\ s.k = "switch"
    /\ s.def # <<>>
    /\ LET branches == {s.def[1]} \cup {s.cases[c].body : c \in 1..Len(s.cases)}
       IN  /\ \A b \in branches : EndsInJump(b)
           /\ \E b \in branches : Jumps(b, {"break"})

(***************************************************************************)
(* The code does what the function says, test by test and effect by        *)
(* effect, through every nesting of loops, else-ifs, switches and regions, *)
(* with break, continue and return anywhere in them; the regions that are  *)
(* left by a jump and the switches that are left by nothing but jumps are  *)
(* the subject of RegionsEnd and StaysInFunction.                          *)
(***************************************************************************)
CodeFollowsFunction ==
  \/ agree /\ pc # Len(code) + 1
  \/ LeavesRegions
  \/ BreaksSwitch

(***************************************************************************)
(* "If a region dies, all pointers are destroyed" (Doc.md): when the       *)
(* function has returned, each region that began has ended, that is, its   *)
(* memory was unmapped.                                                    *)
(***************************************************************************)
RegionsEnd == pc = 0 => open = {}

(***************************************************************************)
(* "A switch is considered terminating only if every possible branch       *)
(* terminates" (Doc.md), and otherwise execution goes on behind it: the    *)
(* code never runs past the last instruction of the function.              *)
(***************************************************************************)
StaysInFunction == pc # Len(code) + 1
=============================================================================
