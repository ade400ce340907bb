-------------------------------- MODULE Prune --------------------------------
(***************************************************************************)
(* remove_unused_functions, compact_strings and compact_globals            *)
(* (src/ir/opt.cpp): drop the functions that no entry point reaches, then  *)
(* the table entries that no remaining function uses, and renumber what is *)
(* left.                                                                   *)
(*                                                                         *)
(* Functions and table entries are identified by their index before the    *)
(* passes.  What an instruction holds is the index in its func_id (or      *)
(* string_id, global_id); funcId[f][c] is the one in the calls of f that   *)
(* were calls of c, entryId[f][e] the one in the loads and stores of e.    *)
(* compact_strings and compact_globals are the same code on two tables, of *)
(* which one is modelled.                                                  *)
(***************************************************************************)
EXTENDS Integers, Sequences

CONSTANTS
  NumFunctions,  \* program.functions.size()
  NumEntries     \* program.strings.size(), program.globals.size()

ASSUME SizeAssumption == NumFunctions \in Nat /\ NumEntries \in Nat

Ids == 0..(NumFunctions - 1)
Entries == 0..(NumEntries - 1)

VARIABLES
  calls,      \* the functions that a function calls
  uses,       \* the entries that a function uses
  entryRoots, \* is_entry_root: entry, extern, syscall, import, export, *main
  phase,      \* where the passes are
  keep,       \* functions marked
  work,       \* functions whose calls are still to be followed
  cursor,     \* the loop variable of the renumbering
  remap,      \* new indices of the functions
  newEntry,   \* new indices of the table entries
  functions,  \* program.functions, or what is to replace it
  funcId,     \* the func_id of every call
  used,       \* entries marked
  table,      \* program.strings or globals, or what is to replace it
  entryId     \* the index in every load and store

inputs == <<calls, uses, entryRoots>>
marking == <<keep, work>>
vars == <<inputs, phase, marking, cursor, remap, newEntry, functions, funcId, used, table, entryId>>

(* The table before the passes: everything at its own index. *)
Identity(n) == [i \in 1..n |-> i - 1]

ProgramOK ==
  /\ calls \in [Ids -> SUBSET Ids]
  /\ uses \in [Ids -> SUBSET Entries]
  /\ entryRoots \in SUBSET Ids

(* The marking starts from the entry points; a static library keeps all    *)
(* its functions and goes on to the tables at once.                        *)
PruneInit ==
  /\ phase \in {"mark", "use"}
  /\ keep = entryRoots
  /\ work = entryRoots
  /\ cursor = 0
  /\ remap = [i \in Ids |-> 0]
  /\ functions = Identity(NumFunctions)
  /\ funcId = [f \in Ids |-> [c \in Ids |-> c]]
  /\ newEntry = [e \in Entries |-> 0]
  /\ used = {}
  /\ table = Identity(NumEntries)
  /\ entryId = [f \in Ids |-> [e \in Entries |-> e]]

-----------------------------------------------------------------------------
(* Faults of the marking: the callers are followed instead of the callees; *)
(* the function is not taken from the work list.                           *)
FollowWith(reached(_), took(_)) ==
  /\ phase = "mark"
  /\ \E f \in work :
       /\ keep' = keep \cup reached(f)
       /\ work' = took(f) \cup (reached(f) \ keep)
  /\ UNCHANGED <<inputs, phase, cursor, remap, newEntry, functions, funcId, used, table, entryId>>
FollowCallers == FollowWith(LAMBDA f : {g \in Ids : f \in calls[g]}, LAMBDA f : work \ {f})
FollowAgain == FollowWith(LAMBDA f : calls[f], LAMBDA f : work)

(* One function is taken from the work list (the code takes the last; the  *)
(* order makes no difference to what is marked) and its calls are          *)
(* followed.                                                               *)
Follow ==
  /\ phase = "mark"
  /\ \E f \in work :
       /\ keep' = keep \cup calls[f]
       /\ work' = (work \ {f}) \cup (calls[f] \ keep)
  /\ UNCHANGED <<inputs, phase, cursor, remap, newEntry, functions, funcId, used, table, entryId>>

(* All marked: nothing to do.  Otherwise the functions are moved. *)
Marked ==
  /\ phase = "mark"
  /\ work = {}
  /\ \/ /\ keep = Ids
        /\ phase' = "use"
        /\ UNCHANGED functions
     \/ /\ keep # Ids
        /\ phase' = "move"
        /\ functions' = <<>>
  /\ UNCHANGED <<inputs, marking, cursor, remap, newEntry, funcId, used, table, entryId>>

(* Fault: the new index of a function is not written down. *)
MoveUnrecorded ==
  /\ phase = "move"
  /\ cursor < NumFunctions
  /\ cursor' = cursor + 1
  /\ functions' = IF cursor \in keep THEN Append(functions, cursor) ELSE functions
  /\ UNCHANGED <<inputs, phase, marking, remap, newEntry, funcId, used, table, entryId>>

(* The next function is moved to the end of the new list, or dropped. *)
Move ==
  /\ phase = "move"
  /\ cursor < NumFunctions
  /\ cursor' = cursor + 1
  /\ \/ /\ cursor \in keep
        /\ remap' = [remap EXCEPT ![cursor] = Len(functions)]
        /\ functions' = Append(functions, cursor)
     \/ /\ cursor \notin keep
        /\ UNCHANGED <<remap, functions>>
  /\ UNCHANGED <<inputs, phase, marking, newEntry, funcId, used, table, entryId>>

Left == {functions[i] : i \in 1..Len(functions)}

(* Fault: the calls keep the indices they had. *)
KeepOldCalls ==
  /\ phase = "move"
  /\ cursor = NumFunctions
  /\ phase' = "use"
  /\ UNCHANGED <<inputs, marking, cursor, remap, newEntry, functions, funcId, used, table, entryId>>

(* The calls of the functions that are left get the new indices. *)
RemapCalls ==
  /\ phase = "move"
  /\ cursor = NumFunctions
  /\ phase' = "use"
  /\ funcId' = [f \in Ids |->
                  [c \in Ids |-> IF f \in Left THEN remap[funcId[f][c]] ELSE funcId[f][c]]]
  /\ UNCHANGED <<inputs, marking, cursor, remap, newEntry, functions, used, table, entryId>>

-----------------------------------------------------------------------------
(* Fault: only the entry points are looked through. *)
UsedByRoots == {e \in Entries : \E f \in entryRoots : e \in uses[f]}

UsedByLeft == {e \in Entries : \E f \in Left : e \in uses[f]}

(* All used: nothing to do.  Otherwise the entries are moved. *)
MarkEntries ==
  /\ phase = "use"
  /\ used' = UsedByLeft
  /\ \/ /\ used' = Entries
        /\ phase' = "done"
        /\ UNCHANGED <<cursor, newEntry, table>>
     \/ /\ used' # Entries
        /\ phase' = "pack"
        /\ cursor' = 0
        /\ newEntry' = [e \in Entries |-> 0]
        /\ table' = <<>>
  /\ UNCHANGED <<inputs, marking, remap, functions, funcId, entryId>>

Pack ==
  /\ phase = "pack"
  /\ cursor < NumEntries
  /\ cursor' = cursor + 1
  /\ \/ /\ cursor \in used
        /\ newEntry' = [newEntry EXCEPT ![cursor] = Len(table)]
        /\ table' = Append(table, cursor)
     \/ /\ cursor \notin used
        /\ UNCHANGED <<newEntry, table>>
  /\ UNCHANGED <<inputs, phase, marking, remap, functions, funcId, used, entryId>>

RemapLoads ==
  /\ phase = "pack"
  /\ cursor = NumEntries
  /\ phase' = "done"
  /\ entryId' = [f \in Ids |->
                   [e \in Entries |-> IF f \in Left THEN newEntry[entryId[f][e]] ELSE entryId[f][e]]]
  /\ UNCHANGED <<inputs, marking, cursor, remap, newEntry, functions, funcId, used, table>>

Next ==
  \/ Follow \/ Marked \/ Move \/ RemapCalls
  \/ MarkEntries \/ Pack \/ RemapLoads

Spec == ProgramOK /\ PruneInit /\ [][Next]_vars

(* The passes are loops of one thread. *)
FairSpec == Spec /\ WF_vars(Next)

-----------------------------------------------------------------------------
TypeOK ==
  /\ ProgramOK
  /\ phase \in {"mark", "move", "use", "pack", "done"}
  /\ keep \in SUBSET Ids
  /\ work \in SUBSET Ids
  /\ cursor \in Nat
  /\ remap \in [Ids -> Nat]
  /\ newEntry \in [Entries -> Nat]
  /\ functions \in Seq(Ids)
  /\ funcId \in [Ids -> [Ids -> Nat]]
  /\ used \in SUBSET Entries
  /\ table \in Seq(Entries)
  /\ entryId \in [Ids -> [Entries -> Nat]]

(* The calls of the functions that are left reach what they called before. *)
CallsInPlace ==
  /\ \A i \in 1..Len(functions) : \A c \in calls[functions[i]] :
       /\ funcId[functions[i]][c] < Len(functions)
       /\ functions[funcId[functions[i]][c] + 1] = c
  /\ entryRoots \subseteq Left

(***************************************************************************)
(* Every call of a function that is left calls the function it called      *)
(* before, although functions were dropped in front of it, and every entry *)
(* point is still there: pruning never breaks a call.                      *)
(***************************************************************************)
CallsKeepTargets == phase \in {"use", "pack", "done"} => CallsInPlace

(***************************************************************************)
(* Every load and store of a string or global reaches the entry that it    *)
(* reached before, although the functions were renumbered in between.      *)
(***************************************************************************)
LoadsKeepEntries ==
  phase = "done" =>
    \A i \in 1..Len(functions) : \A e \in uses[functions[i]] :
      /\ entryId[functions[i]][e] < Len(table)
      /\ table[entryId[functions[i]][e] + 1] = e

(* S has the entry points and everything its functions call. *)
ClosedUnderCalls(S) == entryRoots \subseteq S /\ \A f \in S : calls[f] \subseteq S

(***************************************************************************)
(* Nothing is kept in vain: what is marked is in every set that has the    *)
(* entry points and is closed under calls, so cycles of functions that     *)
(* only call each other are dropped.                                       *)
(***************************************************************************)
OnlyReachableMarked ==
  \A S \in SUBSET Ids : ClosedUnderCalls(S) => keep \subseteq S

-----------------------------------------------------------------------------
(* Inductive invariant *)

(* seq holds every j of S below n, at the place that index gives it. *)
Numbered(seq, index, S, n) ==
  \A j \in S : j < n => index[j] < Len(seq) /\ seq[index[j] + 1] = j

MarkInvariant ==
  /\ entryRoots \subseteq keep
  /\ work \subseteq keep
  /\ phase = "mark" => \A f \in keep \ work : calls[f] \subseteq keep
  /\ phase = "move" => ClosedUnderCalls(keep)

FunctionsInvariant ==
  /\ phase = "mark" => functions = Identity(NumFunctions) /\ cursor = 0
  /\ phase \in {"mark", "move"} => funcId = [f \in Ids |-> [c \in Ids |-> c]]
  /\ phase = "move" =>
       /\ cursor <= NumFunctions
       /\ \A i \in 1..Len(functions) : functions[i] \in keep
       /\ Numbered(functions, remap, keep, cursor)

EntriesInvariant ==
  /\ phase # "done" => entryId = [f \in Ids |-> [e \in Entries |-> e]]
  /\ phase \in {"mark", "move", "use"} => table = Identity(NumEntries)
  /\ phase = "pack" =>
       /\ cursor <= NumEntries
       /\ used = UsedByLeft
       /\ Numbered(table, newEntry, used, cursor)

PruneInvariant ==
  /\ TypeOK
  /\ MarkInvariant
  /\ FunctionsInvariant
  /\ CallsKeepTargets
  /\ EntriesInvariant
  /\ LoadsKeepEntries

(* The passes come to an end, whatever cycles the calls have. *)
PruneTerminates == <>(phase = "done")
=============================================================================
