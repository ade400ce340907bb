----------------------------- MODULE DeadStores -----------------------------
(***************************************************************************)
(* The code of a function runs, with the stores that remove_dead_locals    *)
(* (src/ir/opt.cpp) deletes from it marked as dead.  What has to hold is   *)
(* that a read never finds the value of a store that was deleted.  The     *)
(* outcome of a test is not determined.                                    *)
(***************************************************************************)
EXTENDS DeadLocals, FiniteSets

CONSTANT Codes   \* the bodies considered

VARIABLES
  code,   \* the body
  pc,     \* the next instruction, 0 after the return
  last,   \* the store that wrote a local last
  dead    \* the stores the pass deletes

flow == <<code, pc, last, dead>>

NamesLocal(c, i) == c[i].op \in {"store", "load", "addr", "deref", "begin", "end"}
Locals(c) == {c[i].x : i \in {j \in 1 .. Len(c) : NamesLocal(c, j)}}

(* A pointer to a local comes from the instruction that takes its address. *)
IsBody(c) ==
  /\ c \in Seq({c[i] : i \in DOMAIN c})
  /\ \A i \in 1 .. Len(c) : c[i].op = "deref" => c[i].x \in Escaped(c)

ASSUME CodesAssumption == \A c \in Codes : IsBody(c)

Starts ==
  /\ pc = 1
  /\ last = [x \in Locals(code) |-> 0]
  /\ dead = RemoveDeadLocals(code)

Init == code \in Codes /\ Starts

Inst == code[pc]
InFunction == pc \in 1 .. Len(code)

(* Where the code can be after the instruction at i. *)
After(c, i, taken) ==
  CASE c[i].op = "ret" -> {0}
    [] c[i].op = "jump" -> Places(c, c[i].l)
    [] c[i].op = "branch" -> Places(c, IF taken THEN c[i].then ELSE c[i].else)
    [] OTHER -> {i + 1}

Outcomes == IF Inst.op = "branch" THEN BOOLEAN ELSE {TRUE}

Runs(taken) ==
  /\ InFunction
  /\ pc' \in After(code, pc, taken)
  /\ last' = IF Inst.op = "store" THEN [last EXCEPT ![Inst.x] = pc] ELSE last
  /\ UNCHANGED <<code, dead>>

Next == InFunction /\ \E taken \in Outcomes : Runs(taken)
Spec == Init /\ [][Next]_flow

-----------------------------------------------------------------------------
(* A jump that is not the last of its basic block: behind a region whose   *)
(* body ends in a jump comes the end of the region, which is never reached *)
(* and hides the jump.                                                     *)
HidesJump(c) ==
  \E i \in 1 .. Len(c) - 1 : c[i].op \in {"jump", "branch", "ret"} /\ c[i + 1].op # "label"

(* The iterations may stop before the liveness of a local has got from     *)
(* where it is read to where it is written.                                *)
TooManyBlocks(c) == Cardinality(Leaders(c)) > IterationLimit

(***************************************************************************)
(* What is read, directly, through a pointer or as the slot of a region,   *)
(* was never written by a deleted store, on any path through loops,        *)
(* switches and early exits.  Code with a hidden jump is left out: there   *)
(* the pass takes the block to fall through, and deletes stores that are   *)
(* read at the target of the jump.  So is code with more blocks than       *)
(* iterations, where a store may be deleted that is read further down.     *)
(***************************************************************************)
DeadStoresUnread ==
  \/ HidesJump(code)
  \/ TooManyBlocks(code)
  \/ InFunction /\ Inst.op \in {"load", "deref", "begin", "end"} => last[Inst.x] \notin dead
=============================================================================
