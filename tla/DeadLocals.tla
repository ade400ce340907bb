----------------------------- MODULE DeadLocals -----------------------------
(***************************************************************************)
(* remove_dead_locals (src/ir/opt.cpp): which stores to locals the         *)
(* optimizer deletes from the body of a function, by the liveness of the   *)
(* locals over its basic blocks.  The code c is a list of instructions as  *)
(* IRGen makes it.                                                         *)
(***************************************************************************)
EXTENDS Integers, Sequences

(* Where label l is. *)
Places(c, l) == {i \in 1 .. Len(c) : c[i].op = "label" /\ c[i].l = l}

(* Basic blocks are named by their first instruction: blocks begin at the  *)
(* start and at labels, and nowhere else.                                  *)
Leaders(c) == {i \in 1 .. Len(c) : i = 1 \/ c[i].op = "label"}
BlockEnd(c, b) ==
  CHOOSE e \in b .. Len(c) :
    /\ e = Len(c) \/ e + 1 \in Leaders(c)
    /\ \A i \in b + 1 .. e : i \notin Leaders(c)

(* Fault: a branch is taken to go to its first label only. *)
SuccessorsThenOnly(c, b) ==
  LET e == BlockEnd(c, b)
  IN  CASE c[e].op = "jump" -> Places(c, c[e].l)
        [] c[e].op = "branch" -> Places(c, c[e].then)
        [] c[e].op = "ret" -> {}
        [] OTHER -> {e + 1} \cap Leaders(c)

(* Where control goes after a block, judged by its last instruction. *)
Successors(c, b) ==
  LET e == BlockEnd(c, b)
  IN  CASE c[e].op = "jump" -> Places(c, c[e].l)
        [] c[e].op = "branch" -> Places(c, c[e].then) \cup Places(c, c[e].else)
        [] c[e].op = "ret" -> {}
        [] OTHER -> {e + 1} \cap Leaders(c)

Escaped(c) == {c[i].x : i \in {j \in 1 .. Len(c) : c[j].op = "addr"}}

(* The local that instruction i makes live, and the one whose liveness it  *)
(* ends.                                                                   *)
Reads(c, i) == IF c[i].op \in {"load", "addr", "begin", "end"} THEN {c[i].x} ELSE {}
Kills(c, i) == IF c[i].op = "store" THEN {c[i].x} \ Escaped(c) ELSE {}

(* scan_block, backwards from instruction e to instruction i: the locals   *)
(* that are live before i if those of out are live behind e.               *)
Live(c, i, e, out) ==
  LET Unkilled(x, j) == \A k \in i .. j : x \notin Kills(c, k)
  IN  {x \in out : Unkilled(x, e)}
      \cup UNION {{x \in Reads(c, j) : Unkilled(x, j - 1)} : j \in i .. e}

LiveOut(c, b, liveIn) == UNION {liveIn[s] : s \in Successors(c, b)}
ScanBlock(c, b, liveIn) == Live(c, b, BlockEnd(c, b), LiveOut(c, b, liveIn))

(* The stores of a block that scan_block finds dead. *)
DeadIndices(c, b, liveIn) ==
  LET e == BlockEnd(c, b)
  IN  {i \in b .. e : c[i].op = "store" /\ c[i].x \notin Escaped(c)
                      /\ c[i].x \notin Live(c, i + 1, e, LiveOut(c, b, liveIn))}

(* The turn of an iteration at position p. *)
Turn(c, p, liveIn) ==
  IF p \in Leaders(c) THEN [liveIn EXCEPT ![p] = ScanBlock(c, p, liveIn)] ELSE liveIn

(* One iteration: live_in after the turns up to p, each of them with what   *)
(* the ones before it found.                                               *)
Sweep(c, liveIn) ==
  LET after[p \in 0 .. Len(c)] == IF p = 0 THEN liveIn ELSE Turn(c, p, after[p - 1])
  IN  after

IterationLimit == 512

(* live_in after n iterations. *)
Iterated(c) ==
  LET after[n \in 0 .. IterationLimit] ==
        IF n = 0 THEN [b \in Leaders(c) |-> {}] ELSE Sweep(c, after[n - 1])[Len(c)]
  IN  after

(* Iterations until live_in does not change any more, up to the limit. *)
LiveIn(c) ==
  LET after == Iterated(c)
      last == CHOOSE n \in 1 .. IterationLimit : n = IterationLimit \/ after[n] = after[n - 1]
  IN  after[last]

RemoveDeadLocals(c) ==
  LET liveIn == LiveIn(c)
  IN  UNION {DeadIndices(c, b, liveIn) : b \in Leaders(c)}
=============================================================================
