----------------------------- MODULE PruneProofs -----------------------------
(* Proofs about Prune, for every number of functions and of table entries. *)
EXTENDS Prune, SequenceTheorems, TLAPS

(***************************************************************************)
(* Lemmas about lists of indices.                                          *)
(***************************************************************************)

(* The table before the passes is a sequence, and holds i at its place. *)
LEMMA IdentityIsInPlace ==
  ASSUME NEW n \in Nat
  PROVE  /\ Identity(n) \in Seq(0..(n - 1))
         /\ Len(Identity(n)) = n
         /\ \A j \in 0..(n - 1) : Identity(n)[j + 1] = j
BY DEF Identity

(* A list stays a list when it is left alone, emptied or made longer. *)
LEMMA StaysList ==
  ASSUME NEW S, NEW seq \in Seq(S), NEW new,
         new = seq \/ new = <<>> \/ \E x \in S : new = Append(seq, x)
  PROVE  new \in Seq(S)
<1>1. <<>> \in Seq(S)
  OBVIOUS
<1>2. \A x \in S : Append(seq, x) \in Seq(S)
  OBVIOUS
<1> QED
  BY <1>1, <1>2, Zenon

(* Moving one more element to the end of the new list keeps every element  *)
(* moved before at its place and puts the new one at the place that is     *)
(* recorded for it (the bodies of Move and Pack).                          *)
LEMMA MoveOne ==
  ASSUME NEW n \in Nat, NEW S \in SUBSET (0..(n - 1)),
         NEW seq \in Seq(0..(n - 1)),
         NEW index \in [0..(n - 1) -> Nat],
         NEW c \in Nat, c \in S,
         Numbered(seq, index, S, c)
  PROVE  Numbered(Append(seq, c), [index EXCEPT ![c] = Len(seq)], S, c + 1)
<1> DEFINE longer == Append(seq, c)
           index2 == [index EXCEPT ![c] = Len(seq)]
<1>1. Len(seq) \in Nat /\ Len(longer) = Len(seq) + 1
  OBVIOUS
<1>2. /\ longer[Len(seq) + 1] = c
      /\ \A i \in 1..Len(seq) : longer[i] = seq[i]
  OBVIOUS
<1>3. SUFFICES ASSUME NEW j \in S, j < c + 1
               PROVE  index2[j] < Len(longer) /\ longer[index2[j] + 1] = j
  BY DEF Numbered
<1>4. CASE j = c
  <2>1. index2[j] = Len(seq)
    BY <1>4
  <2> QED
    BY <1>1, <1>2, <1>4, <2>1
<1>5. CASE j # c
  <2>1. j < c /\ index2[j] = index[j] /\ index[j] \in Nat
    BY <1>5, <1>3
  <2>2. index[j] < Len(seq) /\ seq[index[j] + 1] = j
    BY <2>1 DEF Numbered
  <2>3. index[j] + 1 \in 1..Len(seq) /\ index[j] < Len(seq) + 1
    <3>1. \A a, b \in Nat : a < b => a + 1 \in 1..b /\ a < b + 1
      OBVIOUS
    <3> QED
      BY <1>1, <2>1, <2>2, <3>1, Zenon
  <2> HIDE DEF longer, index2
  <2> QED
    BY <1>1, <1>2, <2>1, <2>2, <2>3
<1> QED
  BY <1>4, <1>5

(* A dropped element leaves the new list numbered. *)
LEMMA SkipOne ==
  ASSUME NEW n \in Nat, NEW S \in SUBSET (0..(n - 1)),
         NEW seq, NEW index, NEW c \in Nat, c \notin S,
         Numbered(seq, index, S, c)
  PROVE  Numbered(seq, index, S, c + 1)
<1>1. \A j \in S : j < c + 1 => j < c
  OBVIOUS
<1> QED
  BY <1>1 DEF Numbered

-----------------------------------------------------------------------------
(* Type correctness *)

LEMMA TypeInit == ProgramOK /\ PruneInit => TypeOK
<1> SUFFICES ASSUME ProgramOK, PruneInit PROVE TypeOK
  OBVIOUS
<1>1. NumFunctions \in Nat /\ NumEntries \in Nat
  BY SizeAssumption
<1>2. functions \in Seq(Ids) /\ table \in Seq(Entries)
  BY <1>1, IdentityIsInPlace DEF PruneInit, Ids, Entries
<1>3. funcId \in [Ids -> [Ids -> Nat]] /\ entryId \in [Ids -> [Entries -> Nat]]
  BY <1>1 DEF PruneInit, Ids, Entries
<1> QED
  BY <1>2, <1>3 DEF PruneInit, ProgramOK, TypeOK

LEMMA TypeStep ==
  ASSUME TypeOK, FunctionsInvariant, EntriesInvariant, [Next]_vars
  PROVE  TypeOK'
<1>1. NumFunctions \in Nat /\ NumEntries \in Nat
  BY SizeAssumption
<1> USE DEF TypeOK, ProgramOK, inputs, marking
<1>2. CASE Follow
  BY <1>2 DEF Follow
<1>3. CASE Marked
  <2>1. functions' \in Seq(Ids)
    <3>1. functions' = functions \/ functions' = <<>>
      BY <1>3 DEF Marked
    <3>2. functions \in Seq(Ids)
      OBVIOUS
    <3> QED
      BY <3>1, <3>2, StaysList
  <2>2. phase' \in {"use", "move"}
    BY <1>3 DEF Marked
  <2> QED
    BY <1>3, <2>1, <2>2 DEF Marked
<1>4. CASE Move
  <2>1. cursor \in Ids /\ cursor + 1 \in Nat /\ Len(functions) \in Nat
    BY <1>1, <1>4 DEF Move, Ids
  <2>2. functions' \in Seq(Ids)
    <3>1. functions' = functions \/ functions' = Append(functions, cursor)
      BY <1>4 DEF Move
    <3>2. functions \in Seq(Ids)
      OBVIOUS
    <3> QED
      BY <2>1, <3>1, <3>2, StaysList
  <2>3. remap' \in [Ids -> Nat]
    BY <1>4, <2>1 DEF Move
  <2> QED
    BY <1>4, <2>1, <2>2, <2>3 DEF Move
<1>5. CASE RemapCalls
  <2>1. \A f \in Ids, c \in Ids : funcId[f][c] = c
    BY <1>5 DEF RemapCalls, FunctionsInvariant
  <2>2. funcId' \in [Ids -> [Ids -> Nat]]
    BY <1>5, <2>1 DEF RemapCalls
  <2> QED
    BY <1>5, <2>2 DEF RemapCalls
<1>6. CASE MarkEntries
  <2>1. used' \in SUBSET Entries
    BY <1>6 DEF MarkEntries, UsedByLeft
  <2>2. newEntry' \in [Entries -> Nat]
    BY <1>6 DEF MarkEntries
  <2>3. table' \in Seq(Entries)
    <3>1. table' = table \/ table' = <<>>
      BY <1>6 DEF MarkEntries
    <3>2. table \in Seq(Entries)
      OBVIOUS
    <3> QED
      BY <3>1, <3>2, StaysList
  <2>4. phase' \in {"pack", "done"} /\ cursor' \in Nat
    BY <1>6 DEF MarkEntries
  <2> QED
    BY <1>6, <2>1, <2>2, <2>3, <2>4 DEF MarkEntries
<1>7. CASE Pack
  <2>1. cursor \in Entries /\ cursor + 1 \in Nat /\ Len(table) \in Nat
    BY <1>1, <1>7 DEF Pack, Entries
  <2>2. table' \in Seq(Entries)
    <3>1. table' = table \/ table' = Append(table, cursor)
      BY <1>7 DEF Pack
    <3>2. table \in Seq(Entries)
      OBVIOUS
    <3> QED
      BY <2>1, <3>1, <3>2, StaysList
  <2>3. newEntry' \in [Entries -> Nat]
    BY <1>7, <2>1 DEF Pack
  <2> QED
    BY <1>7, <2>1, <2>2, <2>3 DEF Pack
<1>8. CASE RemapLoads
  <2>1. \A f \in Ids, e \in Entries : entryId[f][e] = e
    BY <1>8 DEF RemapLoads, EntriesInvariant
  <2>2. entryId' \in [Ids -> [Entries -> Nat]]
    BY <1>8, <2>1 DEF RemapLoads
  <2> QED
    BY <1>8, <2>2 DEF RemapLoads
<1>9. CASE UNCHANGED vars
  BY <1>9 DEF vars
<1> QED
  BY <1>2, <1>3, <1>4, <1>5, <1>6, <1>7, <1>8, <1>9 DEF Next

-----------------------------------------------------------------------------
(* Marking: what was followed has its calls marked, and when nothing is    *)
(* left to follow, the marked functions are closed under calls.            *)
LEMMA MarkStep ==
  ASSUME TypeOK, MarkInvariant, [Next]_vars
  PROVE  MarkInvariant'
<1> USE DEF MarkInvariant, TypeOK, ProgramOK, inputs, marking
<1>1. CASE Follow
  <2>1. PICK f \in work : /\ keep' = keep \cup calls[f]
                          /\ work' = (work \ {f}) \cup (calls[f] \ keep)
    BY <1>1 DEF Follow
  <2>2. phase = "mark" /\ phase' = "mark" /\ calls' = calls /\ entryRoots' = entryRoots
    BY <1>1 DEF Follow
  <2>3. ASSUME NEW g \in keep' \ work' PROVE calls[g] \subseteq keep'
    BY <2>1, <2>2, <2>3
  <2> QED
    BY <2>1, <2>2, <2>3
<1>2. CASE Marked
  BY <1>2 DEF Marked, ClosedUnderCalls
<1>3. CASE Move
  BY <1>3 DEF Move, ClosedUnderCalls
<1>4. CASE RemapCalls
  BY <1>4 DEF RemapCalls
<1>5. CASE MarkEntries
  BY <1>5 DEF MarkEntries
<1>6. CASE Pack
  BY <1>6 DEF Pack
<1>7. CASE RemapLoads
  BY <1>7 DEF RemapLoads
<1>8. CASE UNCHANGED vars
  BY <1>8 DEF vars, ClosedUnderCalls
<1> QED
  BY <1>1, <1>2, <1>3, <1>4, <1>5, <1>6, <1>7, <1>8 DEF Next

(* Renumbering the functions: the moved functions are at their new index. *)
LEMMA FunctionsStep ==
  ASSUME TypeOK, FunctionsInvariant, [Next]_vars
  PROVE  FunctionsInvariant'
<1> USE DEF FunctionsInvariant, inputs, marking
<1>1. CASE Follow
  BY <1>1 DEF Follow, Identity
<1>2. CASE Marked
  <2>1. CASE phase' = "use"
    BY <1>2, <2>1
  <2>2. CASE phase' = "move"
    <3>1. functions' = <<>> /\ cursor' = 0 /\ Len(functions') = 0
      BY <1>2, <2>2 DEF Marked
    <3>2. funcId' = [f \in Ids |-> [c \in Ids |-> c]]
      BY <1>2 DEF Marked
    <3>3. \A j \in keep' : ~(j < cursor')
      BY <1>2, <3>1 DEF Marked, TypeOK, Ids
    <3>4. cursor' <= NumFunctions
      BY <3>1, SizeAssumption
    <3> QED
      BY <2>2, <3>1, <3>2, <3>3, <3>4 DEF Numbered
  <2> QED
    BY <1>2, <2>1, <2>2 DEF Marked
<1>3. CASE Move
  <2>1. /\ phase = "move" /\ phase' = "move" /\ funcId' = funcId /\ keep' = keep
        /\ cursor < NumFunctions /\ cursor' = cursor + 1 /\ cursor \in Nat
        /\ NumFunctions \in Nat
    BY <1>3, SizeAssumption DEF Move, TypeOK
  <2>2. cursor' <= NumFunctions
    BY <2>1
  <2>3. /\ keep \in SUBSET (0..(NumFunctions - 1))
        /\ functions \in Seq(0..(NumFunctions - 1))
        /\ remap \in [0..(NumFunctions - 1) -> Nat]
    BY DEF TypeOK, Ids
  <2>4. /\ Numbered(functions, remap, keep, cursor)
        /\ \A i \in 1..Len(functions) : functions[i] \in keep
    BY <2>1
  <2>5. CASE cursor \in keep
    <3>1. /\ functions' = Append(functions, cursor)
          /\ remap' = [remap EXCEPT ![cursor] = Len(functions)]
      BY <1>3, <2>5 DEF Move
    <3>2. Numbered(functions', remap', keep, cursor + 1)
      BY <2>1, <2>3, <2>4, <2>5, <3>1, MoveOne
    <3>3. \A i \in 1..Len(functions') : functions'[i] \in keep
      BY <2>3, <2>4, <2>5, <3>1
    <3> QED
      BY <2>1, <2>2, <3>2, <3>3
  <2>6. CASE cursor \notin keep
    <3>1. functions' = functions /\ remap' = remap
      BY <1>3, <2>6 DEF Move
    <3>2. Numbered(functions, remap, keep, cursor + 1)
      BY <2>1, <2>3, <2>4, <2>6, SkipOne
    <3> QED
      BY <2>1, <2>2, <2>4, <3>1, <3>2
  <2> QED
    BY <2>5, <2>6
<1>4. CASE RemapCalls
  BY <1>4 DEF RemapCalls
<1>5. CASE MarkEntries
  BY <1>5 DEF MarkEntries
<1>6. CASE Pack
  BY <1>6 DEF Pack
<1>7. CASE RemapLoads
  BY <1>7 DEF RemapLoads
<1>8. CASE UNCHANGED vars
  BY <1>8 DEF vars, Numbered, Identity
<1> QED
  BY <1>1, <1>2, <1>3, <1>4, <1>5, <1>6, <1>7, <1>8 DEF Next

-----------------------------------------------------------------------------
(* Calls *)

(* When every function is left, each is at its own index. *)
LEMMA NothingDropped ==
  ASSUME TypeOK, MarkInvariant, functions = Identity(NumFunctions),
         funcId = [f \in Ids |-> [c \in Ids |-> c]]
  PROVE  CallsInPlace
<1>1. NumFunctions \in Nat
  BY SizeAssumption
<1>2. /\ functions \in Seq(Ids)
      /\ Len(functions) = NumFunctions
      /\ \A j \in Ids : functions[j + 1] = j
  BY <1>1, IdentityIsInPlace DEF Ids
<1>3. \A f \in Ids, c \in Ids : funcId[f][c] = c
  OBVIOUS
<1>4. \A j \in Ids : j + 1 \in 1..Len(functions) /\ j < Len(functions)
  BY <1>1, <1>2 DEF Ids
<1>5. \A i \in 1..Len(functions) : functions[i] \in Ids
  BY <1>2, ElementOfSeq
<1>6. Ids \subseteq Left
  BY <1>2, <1>4 DEF Left
<1>7. entryRoots \subseteq Ids /\ calls \in [Ids -> SUBSET Ids]
  BY DEF TypeOK, ProgramOK
<1> QED
  BY <1>2, <1>3, <1>4, <1>5, <1>6, <1>7 DEF CallsInPlace

(* RemapCalls: the marked functions are closed under calls and each is at  *)
(* its new index, so the new index of a call is the place of its callee.   *)
LEMMA RemappedCalls ==
  ASSUME TypeOK, MarkInvariant, FunctionsInvariant, RemapCalls
  PROVE  CallsKeepTargets'
<1>1. NumFunctions \in Nat /\ phase = "move" /\ cursor = NumFunctions
  BY SizeAssumption DEF RemapCalls
<1>2. functions' = functions /\ calls' = calls /\ entryRoots' = entryRoots
  BY DEF RemapCalls, inputs
<1>3. \A j \in keep : j \in Nat /\ j < cursor
  BY <1>1 DEF TypeOK, Ids
<1>4. \A j \in keep : /\ remap[j] \in Nat
                      /\ remap[j] < Len(functions)
                      /\ functions[remap[j] + 1] = j
  BY <1>1, <1>3 DEF FunctionsInvariant, Numbered, TypeOK
<1>5. \A i \in 1..Len(functions) : functions[i] \in keep /\ functions[i] \in Left
  BY <1>1 DEF FunctionsInvariant, Left
<1>6. keep \subseteq Ids /\ calls \in [Ids -> SUBSET Ids]
  BY DEF TypeOK, ProgramOK
<1>7. \A f \in keep : calls[f] \subseteq keep
  BY <1>1 DEF MarkInvariant, ClosedUnderCalls
<1>8. \A f \in Ids, c \in Ids : f \in Left => funcId'[f][c] = remap[c]
  BY <1>1 DEF RemapCalls, FunctionsInvariant
<1>9. ASSUME NEW i \in 1..Len(functions), NEW c \in calls[functions[i]]
      PROVE  funcId'[functions[i]][c] < Len(functions) /\ functions[funcId'[functions[i]][c] + 1] = c
  <2>1. functions[i] \in keep /\ functions[i] \in Left /\ functions[i] \in Ids
    BY <1>5, <1>6
  <2>2. c \in keep /\ c \in Ids
    BY <1>6, <1>7, <2>1
  <2>3. funcId'[functions[i]][c] = remap[c]
    BY <1>8, <2>1, <2>2
  <2> QED
    BY <1>4, <2>2, <2>3
<1>10. entryRoots \subseteq Left'
  <2>1. ASSUME NEW j \in entryRoots PROVE j \in Left
    <3>1. j \in keep
      BY DEF MarkInvariant
    <3>2. remap[j] + 1 \in 1..Len(functions)
      <4>1. Len(functions) \in Nat
        BY DEF TypeOK
      <4> QED
        BY <1>4, <3>1, <4>1
    <3> QED
      BY <1>4, <3>1, <3>2 DEF Left
  <2>2. Left' = Left
    BY <1>2 DEF Left
  <2> QED
    BY <2>1, <2>2
<1> QED
  BY <1>2, <1>9, <1>10 DEF CallsKeepTargets, CallsInPlace

LEMMA CallsStep ==
  ASSUME TypeOK, MarkInvariant, FunctionsInvariant, CallsKeepTargets, [Next]_vars
  PROVE  CallsKeepTargets'
<1> USE DEF inputs, marking
<1>0. UNCHANGED <<calls, entryRoots, functions, funcId>> => (CallsInPlace' <=> CallsInPlace)
  BY DEF CallsInPlace, Left
<1>1. CASE Follow
  BY <1>1 DEF Follow, CallsKeepTargets
<1>2. CASE Marked
  <2>1. CASE phase' = "use"
    <3>1. functions = Identity(NumFunctions) /\ funcId = [f \in Ids |-> [c \in Ids |-> c]]
      BY <1>2 DEF Marked, FunctionsInvariant
    <3>2. /\ functions' = functions /\ funcId' = funcId
          /\ calls' = calls /\ entryRoots' = entryRoots
      BY <1>2, <2>1 DEF Marked
    <3> QED
      BY <3>1, <3>2, <1>0, NothingDropped DEF CallsKeepTargets
  <2>2. CASE phase' = "move"
    BY <2>2 DEF CallsKeepTargets
  <2> QED
    BY <1>2, <2>1, <2>2 DEF Marked
<1>3. CASE Move
  BY <1>3 DEF Move, CallsKeepTargets
<1>4. CASE RemapCalls
  BY <1>4, RemappedCalls
<1>5. CASE phase \in {"use", "pack", "done"} /\ UNCHANGED <<calls, entryRoots, functions, funcId>>
  BY <1>0, <1>5 DEF CallsKeepTargets
<1>6. CASE UNCHANGED vars
  BY <1>0, <1>6 DEF vars, CallsKeepTargets
<1>7. MarkEntries \/ Pack \/ RemapLoads =>
        phase \in {"use", "pack", "done"} /\ UNCHANGED <<calls, entryRoots, functions, funcId>>
  BY DEF MarkEntries, Pack, RemapLoads
<1> QED
  BY <1>1, <1>2, <1>3, <1>4, <1>5, <1>6, <1>7 DEF Next

-----------------------------------------------------------------------------
(* Table entries *)

(* Renumbering the entries: the moved entries are at their new index. *)
LEMMA EntriesStep ==
  ASSUME TypeOK, EntriesInvariant, [Next]_vars
  PROVE  EntriesInvariant'
<1> USE DEF EntriesInvariant, inputs, marking
<1>1. CASE Follow
  BY <1>1 DEF Follow, Identity
<1>2. CASE Marked
  BY <1>2 DEF Marked, Identity
<1>3. CASE Move
  BY <1>3 DEF Move, Identity
<1>4. CASE RemapCalls
  BY <1>4 DEF RemapCalls, Identity
<1>5. CASE MarkEntries
  <2>1. CASE phase' = "done"
    BY <2>1
  <2>2. CASE phase' = "pack"
    <3>1. cursor' = 0 /\ entryId' = entryId /\ used' = UsedByLeft
      BY <1>5, <2>2 DEF MarkEntries
    <3>2. UsedByLeft' = UsedByLeft
      BY <1>5 DEF MarkEntries, UsedByLeft, Left
    <3>3. \A j \in used' : ~(j < cursor')
      BY <3>1, SizeAssumption DEF UsedByLeft, Entries
    <3>4. cursor' <= NumEntries
      BY <3>1, SizeAssumption
    <3>5. phase = "use"
      BY <1>5 DEF MarkEntries
    <3> QED
      BY <2>2, <3>1, <3>2, <3>3, <3>4, <3>5 DEF Numbered
  <2> QED
    BY <1>5, <2>1, <2>2 DEF MarkEntries
<1>6. CASE Pack
  <2>1. /\ phase = "pack" /\ phase' = "pack" /\ entryId' = entryId /\ used' = used
        /\ cursor < NumEntries /\ cursor' = cursor + 1 /\ cursor \in Nat
        /\ NumEntries \in Nat
    BY <1>6, SizeAssumption DEF Pack, TypeOK
  <2>2. cursor' <= NumEntries
    BY <2>1
  <2>3. /\ used \in SUBSET (0..(NumEntries - 1))
        /\ table \in Seq(0..(NumEntries - 1))
        /\ newEntry \in [0..(NumEntries - 1) -> Nat]
    BY DEF TypeOK, Entries
  <2>4. Numbered(table, newEntry, used, cursor) /\ used = UsedByLeft
    BY <2>1
  <2>5. UsedByLeft' = UsedByLeft
    BY <1>6 DEF Pack, UsedByLeft, Left
  <2>6. CASE cursor \in used
    <3>1. /\ table' = Append(table, cursor)
          /\ newEntry' = [newEntry EXCEPT ![cursor] = Len(table)]
      BY <1>6, <2>6 DEF Pack
    <3>2. Numbered(table', newEntry', used, cursor + 1)
      BY <2>1, <2>3, <2>4, <2>6, <3>1, MoveOne
    <3> QED
      BY <2>1, <2>2, <2>4, <2>5, <3>2
  <2>7. CASE cursor \notin used
    <3>1. table' = table /\ newEntry' = newEntry
      BY <1>6, <2>7 DEF Pack
    <3>2. Numbered(table, newEntry, used, cursor + 1)
      BY <2>1, <2>3, <2>4, <2>7, SkipOne
    <3> QED
      BY <2>1, <2>2, <2>4, <2>5, <3>1, <3>2
  <2> QED
    BY <2>6, <2>7
<1>7. CASE RemapLoads
  BY <1>7 DEF RemapLoads
<1>8. CASE UNCHANGED vars
  <2>1. UsedByLeft' = UsedByLeft
    BY <1>8 DEF vars, UsedByLeft, Left
  <2> QED
    BY <1>8, <2>1 DEF vars, Numbered, Identity
<1> QED
  BY <1>1, <1>2, <1>3, <1>4, <1>5, <1>6, <1>7, <1>8 DEF Next

(* An entry used by a function that is left. *)
LEMMA UsedEntry ==
  ASSUME TypeOK, NEW i \in 1..Len(functions), NEW e \in uses[functions[i]]
  PROVE  e \in UsedByLeft /\ functions[i] \in Ids /\ functions[i] \in Left /\ e \in Entries
<1>1. functions \in Seq(Ids) /\ uses \in [Ids -> SUBSET Entries]
  BY DEF TypeOK, ProgramOK
<1>2. functions[i] \in Ids /\ functions[i] \in Left
  BY <1>1, ElementOfSeq DEF Left
<1>3. e \in Entries
  BY <1>1, <1>2
<1> QED
  BY <1>2, <1>3 DEF UsedByLeft

LEMMA LoadsStep ==
  ASSUME TypeOK, EntriesInvariant, LoadsKeepEntries, [Next]_vars
  PROVE  LoadsKeepEntries'
<1> USE DEF inputs, marking
<1>0. SUFFICES ASSUME phase' = "done",
                      NEW i \in 1..Len(functions'), NEW e \in (uses')[functions'[i]]
               PROVE  /\ entryId'[functions'[i]][e] < Len(table')
                      /\ table'[entryId'[functions'[i]][e] + 1] = e
  BY DEF LoadsKeepEntries
<1>1. CASE MarkEntries
  <2>1. /\ functions' = functions /\ uses' = uses /\ entryId' = entryId /\ table' = table
        /\ phase = "use" /\ UsedByLeft = Entries
    BY <1>0, <1>1 DEF MarkEntries
  <2>2. e \in Entries /\ functions[i] \in Ids
    BY <1>0, <2>1, UsedEntry
  <2>3. table = Identity(NumEntries) /\ entryId[functions[i]][e] = e
    BY <2>1, <2>2 DEF EntriesInvariant
  <2>4. /\ NumEntries \in Nat /\ e \in 0..(NumEntries - 1)
        /\ Len(table) = NumEntries /\ table[e + 1] = e
    <3>1. NumEntries \in Nat /\ e \in 0..(NumEntries - 1)
      BY <2>2, SizeAssumption DEF Entries
    <3> QED
      BY <2>3, <3>1, IdentityIsInPlace
  <2>5. entryId'[functions'[i]][e] = e /\ e < Len(table)
    BY <2>1, <2>3, <2>4
  <2> QED
    BY <2>1, <2>4, <2>5
<1>2. CASE RemapLoads
  <2>1. /\ functions' = functions /\ uses' = uses /\ table' = table
        /\ phase = "pack" /\ cursor = NumEntries
    BY <1>2 DEF RemapLoads
  <2>2. e \in UsedByLeft /\ e \in Entries /\ functions[i] \in Ids /\ functions[i] \in Left
    BY <1>0, <2>1, UsedEntry
  <2>3. entryId[functions[i]][e] = e
    BY <2>1, <2>2 DEF EntriesInvariant
  <2>4. entryId'[functions[i]][e] = newEntry[e]
    BY <1>2, <2>2, <2>3 DEF RemapLoads
  <2>5. e < cursor
    BY <2>1, <2>2, SizeAssumption DEF Entries
  <2>6. newEntry[e] < Len(table) /\ table[newEntry[e] + 1] = e
    BY <2>1, <2>2, <2>5 DEF EntriesInvariant, Numbered
  <2> QED
    BY <2>1, <2>4, <2>6
<1>3. CASE UNCHANGED vars
  BY <1>0, <1>3 DEF vars, LoadsKeepEntries
<1>4. MarkEntries \/ RemapLoads \/ UNCHANGED vars
  BY <1>0 DEF Next, Follow, Marked, Move, RemapCalls, Pack
<1> QED
  BY <1>1, <1>2, <1>3, <1>4

-----------------------------------------------------------------------------
(* The theorems *)

(* The inductive invariant at the start: every index is its own, and a     *)
(* library that keeps all its functions is renumbered already.             *)
LEMMA InvariantInit == ProgramOK /\ PruneInit => PruneInvariant
<1> SUFFICES ASSUME ProgramOK, PruneInit PROVE PruneInvariant
  OBVIOUS
<1>1. NumFunctions \in Nat /\ NumEntries \in Nat
  BY SizeAssumption
<1>2. TypeOK
  BY TypeInit
<1>3. MarkInvariant
  BY DEF PruneInit, MarkInvariant
<1>4. FunctionsInvariant
  BY DEF PruneInit, FunctionsInvariant
<1>5. CallsKeepTargets
  BY <1>2, <1>3, NothingDropped DEF PruneInit, CallsKeepTargets
<1>6. EntriesInvariant
  BY DEF PruneInit, EntriesInvariant
<1>7. LoadsKeepEntries
  BY DEF PruneInit, LoadsKeepEntries
<1> QED
  BY <1>2, <1>3, <1>4, <1>5, <1>6, <1>7 DEF PruneInvariant

LEMMA InvariantStep == PruneInvariant /\ [Next]_vars => PruneInvariant'
<1> SUFFICES ASSUME PruneInvariant, [Next]_vars PROVE PruneInvariant'
  OBVIOUS
<1>0. /\ TypeOK /\ MarkInvariant /\ FunctionsInvariant
      /\ CallsKeepTargets /\ EntriesInvariant /\ LoadsKeepEntries
  BY DEF PruneInvariant
<1>1. TypeOK'
  BY <1>0, TypeStep
<1>2. MarkInvariant'
  BY <1>0, MarkStep
<1>3. FunctionsInvariant'
  BY <1>0, FunctionsStep
<1>4. CallsKeepTargets'
  BY <1>0, CallsStep
<1>5. EntriesInvariant'
  BY <1>0, EntriesStep
<1>6. LoadsKeepEntries'
  BY <1>0, LoadsStep
<1> QED
  BY <1>1, <1>2, <1>3, <1>4, <1>5, <1>6 DEF PruneInvariant

(***************************************************************************)
(* The marked functions are the ones still to follow and ones whose calls  *)
(* are marked; what was moved is at the index that remap gives it          *)
(* (PruneInvariant): for every program, however its functions call each    *)
(* other.                                                                  *)
(***************************************************************************)
THEOREM PruneCorrect == Spec => []PruneInvariant
<1>1. ProgramOK /\ PruneInit => PruneInvariant
  BY InvariantInit
<1>2. PruneInvariant /\ [Next]_vars => PruneInvariant'
  BY InvariantStep
<1> QED
  BY <1>1, <1>2, PTL DEF Spec

(* The variables of the passes keep their types (TypeOK). *)
THEOREM PruneTypeCorrect == Spec => []TypeOK
<1>1. PruneInvariant => TypeOK
  BY DEF PruneInvariant
<1> QED
  BY <1>1, PruneCorrect, PTL

(* remove_unused_functions never breaks a call and never drops an entry    *)
(* point: CallsKeepTargets.                                                *)
THEOREM PruningKeepsCalls == Spec => []CallsKeepTargets
<1>1. PruneInvariant => CallsKeepTargets
  BY DEF PruneInvariant
<1> QED
  BY <1>1, PruneCorrect, PTL

(* compact_strings and compact_globals never redirect a load or a store:   *)
(* LoadsKeepEntries.                                                       *)
THEOREM CompactingKeepsLoads == Spec => []LoadsKeepEntries
<1>1. PruneInvariant => LoadsKeepEntries
  BY DEF PruneInvariant
<1> QED
  BY <1>1, PruneCorrect, PTL

(* Only functions that an entry point reaches are marked                   *)
(* (OnlyReachableMarked): functions that only call each other are dropped. *)
THEOREM OnlyReachableKept == Spec => []OnlyReachableMarked
<1>1. ProgramOK /\ PruneInit => OnlyReachableMarked
  BY DEF PruneInit, OnlyReachableMarked, ClosedUnderCalls
<1>2. PruneInvariant /\ OnlyReachableMarked /\ [Next]_vars => OnlyReachableMarked'
  <2> SUFFICES ASSUME PruneInvariant, OnlyReachableMarked, [Next]_vars,
                      NEW S \in SUBSET Ids, ClosedUnderCalls(S)'
               PROVE  keep' \subseteq S
    BY DEF OnlyReachableMarked
  <2>1. calls' = calls /\ entryRoots' = entryRoots
    BY DEF Next, Follow, Marked, Move, RemapCalls, MarkEntries, Pack, RemapLoads, vars, inputs
  <2>2. ClosedUnderCalls(S)
    BY <2>1 DEF ClosedUnderCalls
  <2>3. keep \subseteq S
    BY <2>2 DEF OnlyReachableMarked
  <2>4. CASE Follow
    <3>1. PICK f \in work : keep' = keep \cup calls[f]
      BY <2>4 DEF Follow
    <3>2. f \in S
      BY <2>3 DEF PruneInvariant, MarkInvariant
    <3> QED
      BY <2>2, <2>3, <3>1, <3>2 DEF ClosedUnderCalls
  <2>5. CASE ~Follow
    <3>1. keep' = keep
      BY <2>5 DEF Next, Marked, Move, RemapCalls, MarkEntries, Pack, RemapLoads, vars, marking
    <3> QED
      BY <2>3, <3>1
  <2> QED
    BY <2>4, <2>5
<1> QED
  BY <1>1, <1>2, PruneCorrect, PTL DEF Spec
=============================================================================
