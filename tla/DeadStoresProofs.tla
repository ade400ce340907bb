--------------------------- MODULE DeadStoresProofs ---------------------------
(***************************************************************************)
(* Proofs about the removal of dead stores, for the body of every          *)
(* function: the iterations of remove_dead_locals arrive at a solution of  *)
(* the equations of liveness when there are no more blocks than            *)
(* iterations, and then no store is deleted that is read on any path.      *)
(***************************************************************************)
EXTENDS DeadStores, FiniteSetTheorems, WellFoundedInduction, TLAPS

-----------------------------------------------------------------------------
(* Induction over an interval, by the set of the numbers it holds for *)

(* A set of numbers has a least element. *)
LEMMA LeastOf ==
  ASSUME NEW T \in SUBSET Nat, T # {}
  PROVE  \E x \in T : \A y \in T : x <= y
<1> DEFINE R == OpToRel(<, Nat)
<1>1. IsWellFoundedOn(R, Nat)
  BY NatLessThanWellFounded
<1>2. \A x, y \in Nat : y < x => <<y, x>> \in R
  BY DEF OpToRel
<1> HIDE DEF R
<1>3. PICK x \in T : \A y \in T : ~ (<<y, x>> \in R)
  BY <1>1, WFMin
<1>4. ASSUME NEW y \in T PROVE x <= y
  <2>1. ~ (<<y, x>> \in R)
    BY <1>3
  <2>2. ~ (y < x)
    BY <1>2, <2>1, Zenon
  <2> QED
    BY <2>2
<1> QED
  BY <1>4

(* From a on upwards. *)
LEMMA Upward ==
  ASSUME NEW a \in Nat, NEW n \in Nat, NEW T, a <= n => a \in T,
         \A i \in a + 1 .. n : i - 1 \in T => i \in T
  PROVE  \A i \in a .. n : i \in T
<1> DEFINE Rest == (a .. n) \ T
<1> SUFFICES ASSUME Rest # {} PROVE FALSE
  OBVIOUS
<1>1. Rest \in SUBSET Nat
  OBVIOUS
<1>2. PICK i \in Rest : \A j \in Rest : i <= j
  BY <1>1, LeastOf
<1>3. i # a /\ i \in a + 1 .. n
  BY <1>2
<1>4. i - 1 \in a .. n /\ i - 1 \notin Rest
  BY <1>2, <1>3
<1> QED
  BY <1>2, <1>3, <1>4

(* From n on downwards. *)
LEMMA Downward ==
  ASSUME NEW a \in Nat, NEW n \in Nat, NEW T, a <= n => n \in T,
         \A i \in a + 1 .. n : i \in T => i - 1 \in T
  PROVE  \A i \in a .. n : i \in T
<1> SUFFICES ASSUME a <= n PROVE \A i \in a .. n : i \in T
  OBVIOUS
<1> DEFINE S == {k \in 0 .. n - a : n - k \in T}
<1>1. 0 \in S
  OBVIOUS
<1>2. \A k \in 0 + 1 .. n - a : k - 1 \in S => k \in S
  <2> SUFFICES ASSUME NEW k \in 0 + 1 .. n - a, k - 1 \in S PROVE k \in S
    OBVIOUS
  <2>1. n - k + 1 \in a + 1 .. n /\ n - (k - 1) = n - k + 1
    OBVIOUS
  <2>2. n - k + 1 \in T /\ (n - k + 1) - 1 = n - k
    BY <2>1
  <2> QED
    BY <2>1, <2>2
<1>3. \A k \in 0 .. n - a : k \in S
  <2>1. n - a \in Nat
    OBVIOUS
  <2> HIDE DEF S
  <2> QED
    BY <1>1, <1>2, <2>1, Upward
<1>4. ASSUME NEW i \in a .. n PROVE i \in T
  <2>1. n - i \in 0 .. n - a /\ n - (n - i) = i
    OBVIOUS
  <2>2. n - i \in S
    BY <1>3, <2>1
  <2> QED
    BY <2>1, <2>2
<1> QED
  BY <1>4

-----------------------------------------------------------------------------
(* Functions defined by recursion over an interval *)

Iteration(start, step, n, f) ==
  f = [i \in 0 .. n |-> IF i = 0 THEN start ELSE step[<<i, f[i - 1]>>]]

LEMMA IterationExists ==
  ASSUME NEW start, NEW step, NEW n \in Nat
  PROVE  \E f : Iteration(start, step, n, f)
<1> DEFINE T == {k \in 0 .. n : \E f : Iteration(start, step, k, f)}
<1>1. 0 \in T
  <2>1. Iteration(start, step, 0, [i \in 0 .. 0 |-> start])
    BY DEF Iteration
  <2> QED
    BY <2>1
<1>2. ASSUME NEW k \in 1 .. n, k - 1 \in T PROVE k \in T
  <2>1. PICK g : Iteration(start, step, k - 1, g)
    BY <1>2
  <2> DEFINE h == [i \in 0 .. k |-> IF i = k THEN step[<<k, g[k - 1]>>] ELSE g[i]]
  <2>2. ASSUME NEW i \in 0 .. k
        PROVE  h[i] = IF i = 0 THEN start ELSE step[<<i, h[i - 1]>>]
    <3>1. CASE i = k
      <4>1. k - 1 \in 0 .. k /\ k - 1 # k /\ i # 0
        BY <3>1
      <4> QED
        BY <3>1, <4>1
    <3>2. CASE i # k
      <4>1. i \in 0 .. (k - 1)
        BY <3>2
      <4>2. g[i] = IF i = 0 THEN start ELSE step[<<i, g[i - 1]>>]
        BY <2>1, <4>1 DEF Iteration
      <4>3. i # 0 => i - 1 \in 0 .. k /\ i - 1 # k
        BY <4>1
      <4> QED
        BY <3>2, <4>2, <4>3
    <3> QED
      BY <3>1, <3>2
  <2>3. Iteration(start, step, k, h)
    <3> DEFINE e == [i \in 0 .. k |-> IF i = 0 THEN start ELSE step[<<i, h[i - 1]>>]]
    <3>1. DOMAIN h = 0 .. k /\ h = [i \in 0 .. k |-> h[i]]
      OBVIOUS
    <3> HIDE DEF h
    <3>2. h = e
      BY <2>2, <3>1
    <3> QED
      BY <3>2 DEF Iteration
  <2> QED
    BY <2>3
<1>3. n \in T
  <2> HIDE DEF T
  <2>1. \A i \in 0 + 1 .. n : i - 1 \in T => i \in T
    BY <1>2
  <2> QED
    BY <1>1, <2>1, Upward
<1> QED
  BY <1>3

(* Where its steps stay in V, so do its values. *)
LEMMA StaysIn ==
  ASSUME NEW V, NEW n \in Nat, NEW f, f[0] \in V,
         \A i \in 1 .. n : f[i - 1] \in V => f[i] \in V
  PROVE  \A i \in 0 .. n : f[i] \in V
<1> DEFINE T == {i \in 0 .. n : f[i] \in V}
<1>1. 0 \in T /\ \A i \in 0 + 1 .. n : i - 1 \in T => i \in T
  OBVIOUS
<1> HIDE DEF T
<1>2. \A i \in 0 .. n : i \in T
  BY <1>1, Upward
<1> QED
  BY <1>2 DEF T

-----------------------------------------------------------------------------
(* Basic blocks *)

LEMMA LeadersFinite ==
  ASSUME NEW c, Len(c) \in Nat
  PROVE  /\ Leaders(c) \subseteq 1 .. Len(c)
         /\ IsFiniteSet(Leaders(c)) /\ Cardinality(Leaders(c)) \in Nat
<1>1. IsFiniteSet(1 .. Len(c))
  BY FS_Interval
<1>2. Leaders(c) \subseteq 1 .. Len(c)
  BY DEF Leaders
<1>3. IsFiniteSet(Leaders(c))
  BY <1>1, <1>2, FS_Subset
<1> QED
  BY <1>2, <1>3, FS_CardinalityType

LEMMA BlockEnds ==
  ASSUME NEW c, Len(c) \in Nat, NEW b \in Leaders(c)
  PROVE  /\ BlockEnd(c, b) \in b .. Len(c)
         /\ BlockEnd(c, b) = Len(c) \/ BlockEnd(c, b) + 1 \in Leaders(c)
         /\ \A i \in b + 1 .. BlockEnd(c, b) : i \notin Leaders(c)
<1> DEFINE Ends(e) == /\ e = Len(c) \/ e + 1 \in Leaders(c)
                      /\ \A i \in b + 1 .. e : i \notin Leaders(c)
           T == {e \in b .. Len(c) : e = Len(c) \/ e + 1 \in Leaders(c)}
<1>1. b \in 1 .. Len(c)
  BY LeadersFinite
<1>2. T \in SUBSET Nat /\ Len(c) \in T
  BY <1>1
<1>3. PICK e \in T : \A f \in T : e <= f
  BY <1>2, LeastOf
<1>4. ASSUME NEW i \in b + 1 .. e PROVE i \notin Leaders(c)
  <2>1. i - 1 \in b .. Len(c) /\ ~ (e <= i - 1) /\ (i - 1) + 1 = i
    BY <1>1, <1>3
  <2> QED
    BY <1>3, <2>1
<1>5. e \in b .. Len(c) /\ Ends(e)
  BY <1>3, <1>4
<1>6. BlockEnd(c, b) = CHOOSE f \in b .. Len(c) : Ends(f)
  BY DEF BlockEnd
<1> HIDE DEF Ends
<1>7. BlockEnd(c, b) \in b .. Len(c) /\ Ends(BlockEnd(c, b))
  BY <1>5, <1>6
<1> QED
  BY <1>7 DEF Ends

LEMMA SuccessorsLead ==
  ASSUME NEW c, NEW b PROVE Successors(c, b) \subseteq Leaders(c)
<1>1. \A l : Places(c, l) \subseteq Leaders(c)
  BY DEF Places, Leaders
<1> QED
  BY <1>1 DEF Successors

(* Every instruction is in a block. *)
LEMMA EveryInstInBlock ==
  ASSUME NEW c, Len(c) \in Nat, NEW i \in 1 .. Len(c)
  PROVE  \E b \in Leaders(c) : i \in b .. BlockEnd(c, b)
<1> DEFINE T == {k \in 1 .. Len(c) : \E b \in Leaders(c) : k \in b .. BlockEnd(c, b)}
<1>1. 1 \in T
  <2>1. 1 \in Leaders(c)
    BY DEF Leaders
  <2> QED
    BY <2>1, BlockEnds
<1>2. ASSUME NEW k \in 1 + 1 .. Len(c), k - 1 \in T PROVE k \in T
  <2>1. PICK b \in Leaders(c) : k - 1 \in b .. BlockEnd(c, b)
    BY <1>2
  <2>2. b \in 1 .. Len(c) /\ BlockEnd(c, b) \in b .. Len(c)
    BY BlockEnds, LeadersFinite
  <2>3. CASE k - 1 = BlockEnd(c, b)
    <3>1. (k - 1) + 1 = k /\ k - 1 # Len(c)
      OBVIOUS
    <3>2. k \in Leaders(c)
      BY <2>3, <3>1, BlockEnds
    <3>3. k \in k .. BlockEnd(c, k)
      BY <3>2, BlockEnds
    <3> QED
      BY <3>2, <3>3
  <2>4. CASE k - 1 # BlockEnd(c, b)
    <3>1. k \in b .. BlockEnd(c, b)
      BY <2>1, <2>2, <2>4
    <3> QED
      BY <3>1
  <2> QED
    BY <2>3, <2>4
<1> HIDE DEF T
<1>3. \A k \in 1 .. Len(c) : k \in T
  BY <1>1, <1>2, Upward
<1> QED
  BY <1>3 DEF T

-----------------------------------------------------------------------------
(* The liveness of one local does not depend on that of others *)

Unkilled(c, x, i, j) == \A k \in i .. j : x \notin Kills(c, k)

LEMMA LiveBy ==
  ASSUME NEW c, NEW i, NEW e, NEW out, NEW x
  PROVE  x \in Live(c, i, e, out) <=>
           \/ x \in out /\ Unkilled(c, x, i, e)
           \/ \E j \in i .. e : x \in Reads(c, j) /\ Unkilled(c, x, i, j - 1)
  BY DEF Live, Unkilled

LEMMA ScanBy ==
  ASSUME NEW c, NEW b, NEW liveIn, NEW x
  PROVE  x \in ScanBlock(c, b, liveIn) <=>
           \/ /\ \E s \in Successors(c, b) : x \in liveIn[s]
              /\ Unkilled(c, x, b, BlockEnd(c, b))
           \/ \E j \in b .. BlockEnd(c, b) : x \in Reads(c, j) /\ Unkilled(c, x, b, j - 1)
<1>1. x \in LiveOut(c, b, liveIn) <=> \E s \in Successors(c, b) : x \in liveIn[s]
  BY DEF LiveOut
<1>2. x \in Live(c, b, BlockEnd(c, b), LiveOut(c, b, liveIn)) <=>
        \/ x \in LiveOut(c, b, liveIn) /\ Unkilled(c, x, b, BlockEnd(c, b))
        \/ \E j \in b .. BlockEnd(c, b) : x \in Reads(c, j) /\ Unkilled(c, x, b, j - 1)
  BY LiveBy
<1> QED
  BY <1>1, <1>2 DEF ScanBlock

(* Where x is live in l it is live in m. *)
Under(c, l, m, x) == \A b \in Leaders(c) : x \in l[b] => x \in m[b]

LEMMA ScanMonotone ==
  ASSUME NEW c, NEW b, NEW l, NEW m, NEW x, Under(c, l, m, x), x \in ScanBlock(c, b, l)
  PROVE  x \in ScanBlock(c, b, m)
<1>1. \A s \in Successors(c, b) : x \in l[s] => x \in m[s]
  BY SuccessorsLead DEF Under
<1>2. \/ /\ \E s \in Successors(c, b) : x \in l[s]
         /\ Unkilled(c, x, b, BlockEnd(c, b))
      \/ \E j \in b .. BlockEnd(c, b) : x \in Reads(c, j) /\ Unkilled(c, x, b, j - 1)
  BY ScanBy
<1>3. \/ /\ \E s \in Successors(c, b) : x \in m[s]
         /\ Unkilled(c, x, b, BlockEnd(c, b))
      \/ \E j \in b .. BlockEnd(c, b) : x \in Reads(c, j) /\ Unkilled(c, x, b, j - 1)
  BY <1>1, <1>2
<1> QED
  BY <1>3, ScanBy

-----------------------------------------------------------------------------
(* What the iterations compute *)

Maps(c) == [Leaders(c) -> SUBSET Locals(c)]

LEMMA ScanType ==
  ASSUME NEW c, Len(c) \in Nat, NEW l \in Maps(c), NEW b \in Leaders(c)
  PROVE  ScanBlock(c, b, l) \subseteq Locals(c)
<1> SUFFICES ASSUME NEW x \in ScanBlock(c, b, l) PROVE x \in Locals(c)
  OBVIOUS
<1>1. \/ \E s \in Successors(c, b) : x \in l[s]
      \/ \E j \in b .. BlockEnd(c, b) : x \in Reads(c, j)
  BY ScanBy
<1>2. ASSUME NEW s \in Successors(c, b), x \in l[s] PROVE x \in Locals(c)
  BY <1>2, SuccessorsLead DEF Maps
<1>3. ASSUME NEW j \in b .. BlockEnd(c, b), x \in Reads(c, j) PROVE x \in Locals(c)
  <2>1. b \in 1 .. Len(c) /\ BlockEnd(c, b) \in b .. Len(c)
    BY BlockEnds, LeadersFinite
  <2>2. j \in 1 .. Len(c)
    BY <2>1
  <2> QED
    BY <1>3, <2>2 DEF Reads, Locals, NamesLocal
<1> QED
  BY <1>1, <1>2, <1>3

LEMMA TurnIs ==
  ASSUME NEW c, Len(c) \in Nat, NEW l \in Maps(c), NEW p
  PROVE  /\ Turn(c, p, l) \in Maps(c)
         /\ \A b \in Leaders(c) : Turn(c, p, l)[b] = IF b = p THEN ScanBlock(c, b, l) ELSE l[b]
<1>1. CASE p \in Leaders(c)
  <2>1. Turn(c, p, l) = [l EXCEPT ![p] = ScanBlock(c, p, l)]
    BY <1>1 DEF Turn
  <2>2. ScanBlock(c, p, l) \in SUBSET Locals(c)
    BY <1>1, ScanType
  <2> QED
    BY <2>1, <2>2 DEF Maps
<1>2. CASE p \notin Leaders(c)
  BY <1>2 DEF Turn
<1> QED
  BY <1>1, <1>2

LEMMA SweepIs ==
  ASSUME NEW c, Len(c) \in Nat, NEW l \in Maps(c)
  PROVE  /\ \A p \in 0 .. Len(c) : Sweep(c, l)[p] \in Maps(c)
         /\ Sweep(c, l)[0] = l
         /\ \A p \in 1 .. Len(c) : Sweep(c, l)[p] = Turn(c, p, Sweep(c, l)[p - 1])
<1> DEFINE n == Len(c)
           Sweeps(f) == f = [p \in 0 .. n |-> IF p = 0 THEN l ELSE Turn(c, p, f[p - 1])]
           step == [q \in (1 .. n) \X Maps(c) |-> Turn(c, q[1], q[2])]
<1>1. Sweep(c, l) = CHOOSE f : Sweeps(f)
  BY DEF Sweep
<1>2. \A p \in 1 .. n : \A m \in Maps(c) : step[<<p, m>>] = Turn(c, p, m) /\ Turn(c, p, m) \in Maps(c)
  BY TurnIs
<1>3. \E f : Sweeps(f)
  <2> HIDE DEF step
  <2>1. PICK f : Iteration(l, step, n, f)
    BY IterationExists
  <2>2. f = [p \in 0 .. n |-> IF p = 0 THEN l ELSE step[<<p, f[p - 1]>>]]
    BY <2>1 DEF Iteration
  <2>3. f[0] = l /\ \A p \in 1 .. n : f[p] = step[<<p, f[p - 1]>>]
    BY <2>2
  <2>4. \A p \in 0 .. n : f[p] \in Maps(c)
    <3>1. ASSUME NEW p \in 1 .. n, f[p - 1] \in Maps(c) PROVE f[p] \in Maps(c)
      <4>1. step[<<p, f[p - 1]>>] \in Maps(c)
        BY <1>2, <3>1
      <4> QED
        BY <2>3, <4>1
    <3>2. f[0] \in Maps(c)
      BY <2>3
    <3> QED
      BY <3>1, <3>2, StaysIn
  <2>5. \A p \in 0 .. n : p # 0 => step[<<p, f[p - 1]>>] = Turn(c, p, f[p - 1])
    <3> SUFFICES ASSUME NEW p \in 1 .. n PROVE step[<<p, f[p - 1]>>] = Turn(c, p, f[p - 1])
      OBVIOUS
    <3>1. f[p - 1] \in Maps(c)
      BY <2>4
    <3> QED
      BY <1>2, <3>1
  <2>6. f = [p \in 0 .. n |-> IF p = 0 THEN l ELSE Turn(c, p, f[p - 1])]
    BY <2>2, <2>5
  <2> QED
    BY <2>6
<1>4. Sweeps(Sweep(c, l))
  BY <1>1, <1>3
<1>5. Sweep(c, l)[0] = l /\ \A p \in 1 .. n : Sweep(c, l)[p] = Turn(c, p, Sweep(c, l)[p - 1])
  BY <1>4
<1>6. \A p \in 0 .. n : Sweep(c, l)[p] \in Maps(c)
  BY <1>2, <1>5, StaysIn
<1> QED
  BY <1>5, <1>6

LEMMA LimitPositive == IterationLimit \in Nat /\ 1 <= IterationLimit
  BY DEF IterationLimit

LEMMA IteratedIs ==
  ASSUME NEW c, Len(c) \in Nat
  PROVE  /\ \A n \in 0 .. IterationLimit : Iterated(c)[n] \in Maps(c)
         /\ Iterated(c)[0] = [b \in Leaders(c) |-> {}]
         /\ \A n \in 1 .. IterationLimit : Iterated(c)[n] = Sweep(c, Iterated(c)[n - 1])[Len(c)]
<1> DEFINE none == [b \in Leaders(c) |-> {}]
           Iterates(f) ==
             f = [n \in 0 .. IterationLimit |-> IF n = 0 THEN none ELSE Sweep(c, f[n - 1])[Len(c)]]
           step == [q \in (1 .. IterationLimit) \X Maps(c) |-> Sweep(c, q[2])[Len(c)]]
<1>1. Iterated(c) = CHOOSE f : Iterates(f)
  BY DEF Iterated
<1>2. \A n \in 1 .. IterationLimit : \A m \in Maps(c) :
        step[<<n, m>>] = Sweep(c, m)[Len(c)] /\ Sweep(c, m)[Len(c)] \in Maps(c)
  BY SweepIs
<1>3. none \in Maps(c)
  BY DEF Maps
<1> HIDE DEF none
<1>4. \E f : Iterates(f)
  <2> HIDE DEF step
  <2>1. PICK f : Iteration(none, step, IterationLimit, f)
    BY IterationExists, LimitPositive
  <2>2. f = [n \in 0 .. IterationLimit |-> IF n = 0 THEN none ELSE step[<<n, f[n - 1]>>]]
    BY <2>1 DEF Iteration
  <2>3. f[0] = none /\ \A n \in 1 .. IterationLimit : f[n] = step[<<n, f[n - 1]>>]
    BY <2>2, LimitPositive
  <2>4. \A n \in 0 .. IterationLimit : f[n] \in Maps(c)
    <3>1. \A n \in 1 .. IterationLimit : f[n - 1] \in Maps(c) => f[n] \in Maps(c)
      BY <1>2, <2>3
    <3> QED
      BY <1>3, <2>3, <3>1, StaysIn, LimitPositive
  <2>5. ASSUME NEW n \in 1 .. IterationLimit
        PROVE  step[<<n, f[n - 1]>>] = Sweep(c, f[n - 1])[Len(c)]
    <3>1. f[n - 1] \in Maps(c)
      BY <2>4, LimitPositive
    <3> QED
      BY <1>2, <3>1
  <2>6. \A n \in 0 .. IterationLimit : n # 0 => n \in 1 .. IterationLimit
    BY LimitPositive
  <2>7. f = [n \in 0 .. IterationLimit |-> IF n = 0 THEN none ELSE Sweep(c, f[n - 1])[Len(c)]]
    BY <2>2, <2>5, <2>6
  <2> QED
    BY <2>7
<1>5. Iterates(Iterated(c))
  BY <1>1, <1>4
<1>6. /\ Iterated(c)[0] = none
      /\ \A n \in 1 .. IterationLimit : Iterated(c)[n] = Sweep(c, Iterated(c)[n - 1])[Len(c)]
  BY <1>5, LimitPositive
<1>7. \A n \in 0 .. IterationLimit : Iterated(c)[n] \in Maps(c)
  BY <1>2, <1>3, <1>6, StaysIn, LimitPositive
<1> QED
  BY <1>6, <1>7 DEF none

-----------------------------------------------------------------------------
(* The iterations rise, and when one changes nothing they are through *)

(* Each block has no more live than its scan finds. *)
Rising(c, l) == \A b \in Leaders(c) : l[b] \subseteq ScanBlock(c, b, l)

Below(c, l, m) == \A b \in Leaders(c) : l[b] \subseteq m[b]

LEMMA TurnRises ==
  ASSUME NEW c, Len(c) \in Nat, NEW l \in Maps(c), Rising(c, l), NEW p
  PROVE  Below(c, l, Turn(c, p, l)) /\ Rising(c, Turn(c, p, l))
<1> DEFINE m == Turn(c, p, l)
<1>1. \A b \in Leaders(c) : m[b] = IF b = p THEN ScanBlock(c, b, l) ELSE l[b]
  BY TurnIs
<1> HIDE DEF m
<1>2. Below(c, l, m)
  BY <1>1 DEF Below, Rising
<1>3. ASSUME NEW b \in Leaders(c), NEW x \in m[b] PROVE x \in ScanBlock(c, b, m)
  <2>1. Under(c, l, m, x)
    BY <1>2 DEF Below, Under
  <2>2. x \in ScanBlock(c, b, l)
    BY <1>1, <1>3 DEF Rising
  <2> QED
    BY <2>1, <2>2, ScanMonotone
<1>4. Rising(c, m)
  BY <1>3 DEF Rising
<1> QED
  BY <1>2, <1>4 DEF m

LEMMA SweepRises ==
  ASSUME NEW c, Len(c) \in Nat, NEW l \in Maps(c), Rising(c, l), NEW p \in 0 .. Len(c)
  PROVE  /\ Rising(c, Sweep(c, l)[p])
         /\ Below(c, l, Sweep(c, l)[p]) /\ Below(c, Sweep(c, l)[p], Sweep(c, l)[Len(c)])
<1> DEFINE s == Sweep(c, l)
           n == Len(c)
           Good == {k \in 0 .. n : Rising(c, s[k]) /\ Below(c, l, s[k])}
           Low == {k \in 0 .. n : Below(c, s[k], s[n])}
<1>1. /\ \A k \in 0 .. n : s[k] \in Maps(c)
      /\ s[0] = l
      /\ \A k \in 1 .. n : s[k] = Turn(c, k, s[k - 1])
  BY SweepIs
<1> HIDE DEF s
<1>2. ASSUME NEW k \in 1 .. n, Rising(c, s[k - 1])
      PROVE  Below(c, s[k - 1], s[k]) /\ Rising(c, s[k])
  <2>1. s[k - 1] \in Maps(c)
    BY <1>1
  <2> QED
    BY <1>1, <1>2, <2>1, TurnRises
<1>3. \A k \in 0 .. n : k \in Good
  <2>1. 0 \in Good
    BY <1>1 DEF Below
  <2>2. ASSUME NEW k \in 0 + 1 .. n, k - 1 \in Good PROVE k \in Good
    <3>1. k \in 1 .. n /\ Rising(c, s[k - 1]) /\ Below(c, l, s[k - 1])
      BY <2>2
    <3>2. Below(c, s[k - 1], s[k]) /\ Rising(c, s[k])
      BY <1>2, <3>1
    <3>3. Below(c, l, s[k])
      BY <3>1, <3>2 DEF Below
    <3> QED
      BY <3>1, <3>2, <3>3
  <2> HIDE DEF Good
  <2> QED
    BY <2>1, <2>2, Upward
<1>4. \A k \in 0 .. n : k \in Low
  <2>1. n \in Low
    BY DEF Below
  <2>2. ASSUME NEW k \in 0 + 1 .. n, k \in Low PROVE k - 1 \in Low
    <3>1. k \in 1 .. n /\ k - 1 \in 0 .. n
      OBVIOUS
    <3>2. Rising(c, s[k - 1])
      BY <1>3, <3>1
    <3>3. Below(c, s[k - 1], s[k])
      BY <1>2, <3>1, <3>2
    <3>4. Below(c, s[k], s[n])
      BY <2>2
    <3> QED
      BY <3>1, <3>3, <3>4 DEF Below
  <2> HIDE DEF Low
  <2> QED
    BY <2>1, <2>2, Downward
<1> QED
  BY <1>3, <1>4 DEF s

(* The blocks before which x is live. *)
LiveAt(c, l, x) == {b \in Leaders(c) : x \in l[b]}

(* For x the equations of liveness hold. *)
Settled(c, l, x) == \A b \in Leaders(c) : x \in l[b] <=> x \in ScanBlock(c, b, l)

(* An iteration that changes nothing for x found the equations hold for x.  *)
LEMMA UnchangedSettles ==
  ASSUME NEW c, Len(c) \in Nat, NEW l \in Maps(c), Rising(c, l), NEW x,
         LiveAt(c, Sweep(c, l)[Len(c)], x) = LiveAt(c, l, x)
  PROVE  Settled(c, l, x)
<1> SUFFICES ASSUME NEW b \in Leaders(c), x \in ScanBlock(c, b, l) PROVE x \in l[b]
  BY DEF Settled, Rising
<1> DEFINE s == Sweep(c, l)
<1>1. b \in 1 .. Len(c) /\ b - 1 \in 0 .. Len(c) /\ b \in 0 .. Len(c)
  BY LeadersFinite
<1>2. s[b - 1] \in Maps(c) /\ s[b] = Turn(c, b, s[b - 1])
  BY <1>1, SweepIs
<1>3. s[b][b] = ScanBlock(c, b, s[b - 1])
  BY <1>2, TurnIs
<1>4. Below(c, l, s[b - 1]) /\ Below(c, s[b], s[Len(c)])
  BY <1>1, SweepRises
<1> HIDE DEF s
<1>5. Under(c, l, s[b - 1], x)
  BY <1>4 DEF Below, Under
<1>6. x \in s[b][b]
  BY <1>3, <1>5, ScanMonotone
<1>7. x \in s[Len(c)][b]
  BY <1>4, <1>6 DEF Below
<1>8. b \in LiveAt(c, s[Len(c)], x)
  BY <1>7 DEF LiveAt
<1> QED
  BY <1>8 DEF LiveAt, s

(* Where the equations hold for x an iteration changes nothing for x.       *)
LEMMA SettledStays ==
  ASSUME NEW c, Len(c) \in Nat, NEW l \in Maps(c), NEW x, Settled(c, l, x)
  PROVE  Settled(c, Sweep(c, l)[Len(c)], x)
<1> DEFINE s == Sweep(c, l)
           Same(m) == \A b \in Leaders(c) : x \in m[b] <=> x \in l[b]
           T == {k \in 0 .. Len(c) : Same(s[k])}
<1>1. ASSUME NEW m, Same(m), NEW b \in Leaders(c)
      PROVE  x \in ScanBlock(c, b, m) <=> x \in ScanBlock(c, b, l)
  <2>1. Under(c, l, m, x) /\ Under(c, m, l, x)
    BY <1>1 DEF Under
  <2> QED
    BY <2>1, ScanMonotone
<1>2. 0 \in T
  BY SweepIs
<1>3. ASSUME NEW k \in 0 + 1 .. Len(c), k - 1 \in T PROVE k \in T
  <2>1. k \in 1 .. Len(c) /\ k - 1 \in 0 .. Len(c) /\ k \in 0 .. Len(c)
    OBVIOUS
  <2>2. s[k - 1] \in Maps(c) /\ s[k] = Turn(c, k, s[k - 1])
    BY <2>1, SweepIs
  <2>3. \A b \in Leaders(c) : s[k][b] = IF b = k THEN ScanBlock(c, b, s[k - 1]) ELSE s[k - 1][b]
    BY <2>2, TurnIs
  <2>4. Same(s[k - 1])
    BY <1>3
  <2> HIDE DEF s
  <2>5. \A b \in Leaders(c) : x \in ScanBlock(c, b, s[k - 1]) <=> x \in l[b]
    BY <1>1, <2>4 DEF Settled
  <2>6. Same(s[k])
    BY <2>3, <2>4, <2>5
  <2> QED
    BY <2>1, <2>6
<1>4. Len(c) \in T
  <2> HIDE DEF T
  <2>1. \A k \in 0 .. Len(c) : k \in T
    BY <1>2, <1>3, Upward
  <2> QED
    BY <2>1
<1>5. Same(s[Len(c)])
  BY <1>4
<1> HIDE DEF s
<1>6. \A b \in Leaders(c) : x \in ScanBlock(c, b, s[Len(c)]) <=> x \in ScanBlock(c, b, l)
  BY <1>1, <1>5
<1>7. Settled(c, s[Len(c)], x)
  BY <1>5, <1>6 DEF Settled
<1> QED
  BY <1>7 DEF s

(* After n iterations x is settled, or live before at least n blocks. *)
LEMMA IterationsGrow ==
  ASSUME NEW c, Len(c) \in Nat, NEW x
  PROVE  \A n \in 0 .. IterationLimit :
           /\ Iterated(c)[n] \in Maps(c) /\ Rising(c, Iterated(c)[n])
           /\ Settled(c, Iterated(c)[n], x) \/ Cardinality(LiveAt(c, Iterated(c)[n], x)) >= n
<1> DEFINE f == Iterated(c)
           Enough(n) == Settled(c, f[n], x) \/ Cardinality(LiveAt(c, f[n], x)) >= n
           T == {n \in 0 .. IterationLimit : Rising(c, f[n]) /\ Enough(n)}
<1>1. /\ \A n \in 0 .. IterationLimit : f[n] \in Maps(c)
      /\ f[0] = [b \in Leaders(c) |-> {}]
      /\ \A n \in 1 .. IterationLimit : f[n] = Sweep(c, f[n - 1])[Len(c)]
  BY IteratedIs
<1>2. \A l : IsFiniteSet(LiveAt(c, l, x)) /\ Cardinality(LiveAt(c, l, x)) \in Nat
  <2> SUFFICES ASSUME NEW l PROVE IsFiniteSet(LiveAt(c, l, x)) /\ Cardinality(LiveAt(c, l, x)) \in Nat
    OBVIOUS
  <2>1. LiveAt(c, l, x) \in SUBSET Leaders(c)
    BY DEF LiveAt
  <2>2. IsFiniteSet(LiveAt(c, l, x))
    BY <2>1, LeadersFinite, FS_Subset
  <2> QED
    BY <2>2, FS_CardinalityType
<1> HIDE DEF f
<1>3. 0 \in T
  <2>1. Rising(c, f[0])
    BY <1>1 DEF Rising
  <2>2. Cardinality(LiveAt(c, f[0], x)) >= 0
    BY <1>2
  <2> QED
    BY <2>1, <2>2, LimitPositive
<1>4. ASSUME NEW n \in 0 + 1 .. IterationLimit, n - 1 \in T PROVE n \in T
  <2>1. n \in 1 .. IterationLimit /\ n - 1 \in 0 .. IterationLimit /\ n \in 0 .. IterationLimit
    BY LimitPositive
  <2>2. Rising(c, f[n - 1]) /\ Enough(n - 1)
    BY <1>4
  <2>3. f[n - 1] \in Maps(c) /\ f[n] = Sweep(c, f[n - 1])[Len(c)]
    BY <1>1, <2>1
  <2>4. Len(c) \in 0 .. Len(c) /\ 0 \in 0 .. Len(c)
    OBVIOUS
  <2>5. Rising(c, f[n]) /\ Below(c, f[n - 1], f[n])
    BY <2>2, <2>3, <2>4, SweepRises
  <2>6. CASE Settled(c, f[n - 1], x)
    <3>1. Settled(c, f[n], x)
      BY <2>3, <2>6, SettledStays
    <3> QED
      BY <2>1, <2>5, <3>1
  <2>7. CASE ~ Settled(c, f[n - 1], x)
    <3>1. LiveAt(c, f[n], x) # LiveAt(c, f[n - 1], x)
      BY <2>2, <2>3, <2>7, UnchangedSettles
    <3>2. LiveAt(c, f[n - 1], x) \in SUBSET LiveAt(c, f[n], x)
      BY <2>5 DEF Below, LiveAt
    <3>3. /\ Cardinality(LiveAt(c, f[n - 1], x)) <= Cardinality(LiveAt(c, f[n], x))
          /\ Cardinality(LiveAt(c, f[n - 1], x)) # Cardinality(LiveAt(c, f[n], x))
      BY <1>2, <3>1, <3>2, FS_Subset
    <3>4. Cardinality(LiveAt(c, f[n - 1], x)) >= n - 1
      BY <2>2, <2>7
    <3>5. n \in Int
      OBVIOUS
    <3>6. Cardinality(LiveAt(c, f[n], x)) >= n
      BY <1>2, <3>3, <3>4, <3>5
    <3> QED
      BY <2>1, <2>5, <3>6
  <2> QED
    BY <2>6, <2>7
<1>5. \A n \in 0 .. IterationLimit : n \in T
  <2> HIDE DEF T
  <2> QED
    BY <1>3, <1>4, Upward, LimitPositive
<1> QED
  BY <1>1, <1>5 DEF f

(* When there are no more blocks than iterations, what is found to be live  *)
(* solves the equations of liveness.                                       *)
THEOREM LivenessSolved ==
  ASSUME NEW c, Len(c) \in Nat, ~TooManyBlocks(c), NEW x
  PROVE  Settled(c, LiveIn(c), x)
<1> DEFINE f == Iterated(c)
           Stops(n) == n = IterationLimit \/ f[n] = f[n - 1]
           end == CHOOSE n \in 1 .. IterationLimit : Stops(n)
<1>1. LiveIn(c) = f[end]
  BY DEF LiveIn
<1>2. end \in 1 .. IterationLimit /\ Stops(end)
  <2>1. IterationLimit \in 1 .. IterationLimit /\ Stops(IterationLimit)
    BY LimitPositive
  <2> HIDE DEF Stops
  <2> QED
    BY <2>1
<1> HIDE DEF f, end
<1>3. \A n \in 0 .. IterationLimit :
        /\ f[n] \in Maps(c) /\ Rising(c, f[n])
        /\ Settled(c, f[n], x) \/ Cardinality(LiveAt(c, f[n], x)) >= n
  BY IterationsGrow DEF f
<1>4. CASE f[end] = f[end - 1]
  <2>1. end - 1 \in 0 .. IterationLimit
    BY <1>2, LimitPositive
  <2>2. f[end] = Sweep(c, f[end - 1])[Len(c)]
    BY <1>2, IteratedIs DEF f
  <2>3. f[end - 1] \in Maps(c) /\ Rising(c, f[end - 1])
    BY <1>3, <2>1
  <2>4. Settled(c, f[end - 1], x)
    BY <1>4, <2>2, <2>3, UnchangedSettles
  <2> QED
    BY <1>1, <1>4, <2>4
<1>5. CASE end = IterationLimit
  <2>1. IterationLimit \in 0 .. IterationLimit
    BY LimitPositive
  <2> DEFINE l == f[IterationLimit]
             L == LiveAt(c, l, x)
  <2>2. Rising(c, l) /\ (Settled(c, l, x) \/ Cardinality(L) >= IterationLimit)
    BY <1>3, <2>1
  <2>3. CASE Cardinality(L) >= IterationLimit
    <3>1. L \in SUBSET Leaders(c)
      BY DEF LiveAt
    <3>2. IsFiniteSet(Leaders(c)) /\ Cardinality(Leaders(c)) \in Nat
      BY LeadersFinite
    <3> HIDE DEF L
    <3>3. IsFiniteSet(L) /\ Cardinality(L) <= Cardinality(Leaders(c)) /\ Cardinality(L) \in Nat
      BY <3>1, <3>2, FS_Subset, FS_CardinalityType
    <3>4. Cardinality(L) = Cardinality(Leaders(c))
      BY <2>3, <3>2, <3>3, LimitPositive DEF TooManyBlocks
    <3>5. L = Leaders(c)
      BY <3>1, <3>2, <3>4, FS_Subset
    <3>6. Settled(c, l, x)
      BY <2>2, <3>5 DEF L, LiveAt, Settled, Rising
    <3> QED
      BY <1>1, <1>5, <3>6
  <2>4. CASE Settled(c, l, x)
    BY <1>1, <1>5, <2>4
  <2> QED
    BY <2>2, <2>3, <2>4
<1> QED
  BY <1>2, <1>4, <1>5

-----------------------------------------------------------------------------
(* Liveness along the paths of the code *)

InBlock(c, b, i) == b \in Leaders(c) /\ i \in b .. BlockEnd(c, b)

LEMMA OneBlock ==
  ASSUME NEW c, Len(c) \in Nat, NEW i, NEW a, NEW b, InBlock(c, a, i), InBlock(c, b, i)
  PROVE  a = b
<1>1. a \in 1 .. Len(c) /\ b \in 1 .. Len(c) /\ BlockEnd(c, a) \in Int /\ BlockEnd(c, b) \in Int
  BY LeadersFinite, BlockEnds DEF InBlock
<1>2. ~ (a < b)
  <2> SUFFICES ASSUME a < b PROVE FALSE
    OBVIOUS
  <2>1. b \in a + 1 .. BlockEnd(c, a)
    BY <1>1 DEF InBlock
  <2> QED
    BY <2>1, BlockEnds DEF InBlock
<1>3. ~ (b < a)
  <2> SUFFICES ASSUME b < a PROVE FALSE
    OBVIOUS
  <2>1. a \in b + 1 .. BlockEnd(c, b)
    BY <1>1 DEF InBlock
  <2> QED
    BY <2>1, BlockEnds DEF InBlock
<1> QED
  BY <1>1, <1>2, <1>3

(* Live before instruction i, and behind it, as the pass has found it. *)
BeforeInst(c, b, i) == Live(c, i, BlockEnd(c, b), LiveOut(c, b, LiveIn(c)))
BehindInst(c, b, i) == Live(c, i + 1, BlockEnd(c, b), LiveOut(c, b, LiveIn(c)))
LiveBefore(c, i, x) == \E b \in Leaders(c) : InBlock(c, b, i) /\ x \in BeforeInst(c, b, i)

LEMMA LiveBack ==
  ASSUME NEW c, Len(c) \in Nat, NEW b, NEW i, InBlock(c, b, i), NEW x
  PROVE  /\ x \in Reads(c, i) => x \in BeforeInst(c, b, i)
         /\ x \in BehindInst(c, b, i) /\ x \notin Kills(c, i) => x \in BeforeInst(c, b, i)
<1> DEFINE e == BlockEnd(c, b)
           out == LiveOut(c, b, LiveIn(c))
<1>1. b \in 1 .. Len(c) /\ e \in b .. Len(c) /\ i \in b .. e
  BY LeadersFinite, BlockEnds DEF InBlock
<1>2. x \in BeforeInst(c, b, i) <=>
        \/ x \in out /\ Unkilled(c, x, i, e)
        \/ \E j \in i .. e : x \in Reads(c, j) /\ Unkilled(c, x, i, j - 1)
  BY LiveBy DEF BeforeInst
<1>3. x \in BehindInst(c, b, i) <=>
        \/ x \in out /\ Unkilled(c, x, i + 1, e)
        \/ \E j \in i + 1 .. e : x \in Reads(c, j) /\ Unkilled(c, x, i + 1, j - 1)
  BY LiveBy DEF BehindInst
<1> HIDE DEF e, out
<1>4. ASSUME x \in Reads(c, i) PROVE x \in BeforeInst(c, b, i)
  <2>1. Unkilled(c, x, i, i - 1) /\ i \in i .. e
    BY <1>1 DEF Unkilled
  <2> QED
    BY <1>2, <1>4, <2>1
<1>5. ASSUME x \notin Kills(c, i), NEW j \in Int, Unkilled(c, x, i + 1, j) PROVE Unkilled(c, x, i, j)
  <2>1. \A k \in i .. j : k = i \/ k \in i + 1 .. j
    BY <1>1
  <2> QED
    BY <1>5, <2>1 DEF Unkilled
<1>6. ASSUME x \in BehindInst(c, b, i), x \notin Kills(c, i) PROVE x \in BeforeInst(c, b, i)
  <2>1. CASE x \in out /\ Unkilled(c, x, i + 1, e)
    BY <1>1, <1>2, <1>5, <1>6, <2>1
  <2>2. CASE \E j \in i + 1 .. e : x \in Reads(c, j) /\ Unkilled(c, x, i + 1, j - 1)
    <3>1. PICK j \in i + 1 .. e : x \in Reads(c, j) /\ Unkilled(c, x, i + 1, j - 1)
      BY <2>2
    <3>2. j \in i .. e /\ j - 1 \in Int
      BY <1>1
    <3>3. Unkilled(c, x, i, j - 1)
      BY <1>5, <1>6, <3>1, <3>2
    <3> QED
      BY <1>2, <3>1, <3>2, <3>3
  <2> QED
    BY <1>3, <1>6, <2>1, <2>2
<1> QED
  BY <1>4, <1>6

(* What is live where the code goes is live behind the instruction it       *)
(* comes from.                                                             *)
LEMMA LiveAlongPaths ==
  ASSUME NEW c, Len(c) \in Nat, ~HidesJump(c), ~TooManyBlocks(c),
         NEW b, NEW i, InBlock(c, b, i), NEW taken, NEW j \in After(c, i, taken),
         NEW x, LiveBefore(c, j, x)
  PROVE  x \in BehindInst(c, b, i)
<1> DEFINE e == BlockEnd(c, b)
           out == LiveOut(c, b, LiveIn(c))
<1>1. /\ b \in Leaders(c) /\ b \in 1 .. Len(c) /\ e \in b .. Len(c) /\ i \in b .. e
      /\ e = Len(c) \/ e + 1 \in Leaders(c)
      /\ \A k \in b + 1 .. e : k \notin Leaders(c)
  BY LeadersFinite, BlockEnds DEF InBlock
<1>2. PICK d \in Leaders(c) : InBlock(c, d, j) /\ x \in BeforeInst(c, d, j)
  BY DEF LiveBefore
<1>3. d \in 1 .. Len(c) /\ j \in 1 .. Len(c)
  BY <1>2, LeadersFinite, BlockEnds DEF InBlock
<1>4. CASE i # e
  <2>1. i \in 1 .. Len(c) - 1 /\ i + 1 \in b + 1 .. e /\ i + 1 \in 1 .. Len(c)
    BY <1>1, <1>4
  <2>2. c[i + 1].op # "label"
    BY <1>1, <2>1 DEF Leaders
  <2>3. c[i].op \notin {"jump", "branch", "ret"}
    BY <2>1, <2>2 DEF HidesJump
  <2>4. j = i + 1
    BY <2>3 DEF After
  <2>5. InBlock(c, b, j)
    BY <1>1, <2>1, <2>4 DEF InBlock
  <2>6. d = b
    BY <1>2, <2>5, OneBlock
  <2> QED
    BY <1>2, <2>4, <2>6 DEF BeforeInst, BehindInst
<1>5. CASE i = e
  <2>1. j \in Successors(c, b)
    <3>1. CASE c[e].op \in {"jump", "branch", "ret"}
      BY <1>3, <1>5, <3>1 DEF After, Successors
    <3>2. CASE c[e].op \notin {"jump", "branch", "ret"}
      <4>1. j = e + 1
        BY <1>5, <3>2 DEF After
      <4>2. j \in Leaders(c)
        BY <1>1, <1>3, <4>1
      <4> QED
        BY <3>2, <4>1, <4>2 DEF Successors
    <3> QED
      BY <3>1, <3>2
  <2>2. j \in Leaders(c)
    BY <2>1, SuccessorsLead
  <2>3. InBlock(c, j, j)
    BY <1>3, <2>2, BlockEnds DEF InBlock
  <2>4. d = j
    BY <1>2, <2>3, OneBlock
  <2>5. x \in ScanBlock(c, j, LiveIn(c))
    BY <1>2, <2>4 DEF BeforeInst, ScanBlock
  <2>6. x \in LiveIn(c)[j]
    BY <2>2, <2>5, LivenessSolved DEF Settled
  <2>7. x \in out
    BY <2>1, <2>6 DEF LiveOut
  <2>8. Unkilled(c, x, i + 1, e)
    BY <1>1, <1>5 DEF Unkilled
  <2> QED
    BY <2>7, <2>8, LiveBy DEF BehindInst
<1> QED
  BY <1>4, <1>5

LEMMA DeadIs ==
  ASSUME NEW c, Len(c) \in Nat, NEW i \in RemoveDeadLocals(c)
  PROVE  /\ i \in 1 .. Len(c) /\ c[i].op = "store" /\ c[i].x \notin Escaped(c)
         /\ \A b : InBlock(c, b, i) => c[i].x \notin BehindInst(c, b, i)
<1>1. PICK a \in Leaders(c) : i \in DeadIndices(c, a, LiveIn(c))
  BY DEF RemoveDeadLocals
<1>2. /\ InBlock(c, a, i) /\ c[i].op = "store" /\ c[i].x \notin Escaped(c)
      /\ c[i].x \notin BehindInst(c, a, i)
  BY <1>1 DEF DeadIndices, InBlock, BehindInst
<1>3. i \in 1 .. Len(c)
  BY <1>2, LeadersFinite, BlockEnds DEF InBlock
<1> QED
  BY <1>2, <1>3, OneBlock

-----------------------------------------------------------------------------
(* The code at work *)

(* A local whose last store is deleted is not live. *)
LastDeadUnlive ==
  \A x \in Locals(code) : last[x] \in dead => ~LiveBefore(code, pc, x)

DeadStoresInvariant ==
  /\ IsBody(code) /\ dead = RemoveDeadLocals(code)
  /\ DOMAIN last = Locals(code)
  /\ \A x \in Locals(code) : last[x] \in dead => code[last[x]].x = x
  /\ ~HidesJump(code) /\ ~TooManyBlocks(code) => LastDeadUnlive

LEMMA BodyShape ==
  ASSUME NEW c, IsBody(c) PROVE Len(c) \in Nat
  BY DEF IsBody

LEMMA DeadStoresInit == Init => DeadStoresInvariant
<1> SUFFICES ASSUME Init PROVE DeadStoresInvariant
  OBVIOUS
<1>1. IsBody(code) /\ dead = RemoveDeadLocals(code) /\ last = [x \in Locals(code) |-> 0]
  BY CodesAssumption DEF Init, Starts
<1>2. 0 \notin dead
  BY <1>1, DeadIs, BodyShape
<1> QED
  BY <1>1, <1>2 DEF DeadStoresInvariant, LastDeadUnlive

LEMMA DeadStoresStep == DeadStoresInvariant /\ Next => DeadStoresInvariant'
<1> SUFFICES ASSUME DeadStoresInvariant, NEW taken, Runs(taken) PROVE DeadStoresInvariant'
  BY DEF Next
<1>1. /\ IsBody(code) /\ dead = RemoveDeadLocals(code) /\ DOMAIN last = Locals(code)
      /\ \A x \in Locals(code) : last[x] \in dead => code[last[x]].x = x
      /\ Len(code) \in Nat
  BY BodyShape DEF DeadStoresInvariant
<1>2. /\ pc \in 1 .. Len(code) /\ code' = code /\ dead' = dead
      /\ pc' \in After(code, pc, taken)
      /\ last' = IF code[pc].op = "store" THEN [last EXCEPT ![code[pc].x] = pc] ELSE last
  BY DEF Runs, InFunction, Inst
<1>3. \A x \in Locals(code) :
        last'[x] = IF code[pc].op = "store" /\ code[pc].x = x THEN pc ELSE last[x]
  BY <1>1, <1>2
<1>4. DOMAIN last' = Locals(code)
  BY <1>1, <1>2
<1>5. \A x \in Locals(code) : last'[x] \in dead => code[last'[x]].x = x
  BY <1>1, <1>3
<1>6. ASSUME ~HidesJump(code), ~TooManyBlocks(code), NEW x \in Locals(code), last'[x] \in dead,
             LiveBefore(code, pc', x)
      PROVE  FALSE
  <2>1. PICK b \in Leaders(code) : InBlock(code, b, pc)
    BY <1>1, <1>2, EveryInstInBlock DEF InBlock
  <2>2. PICK c : c = code
    OBVIOUS
  <2>3. PICK j : j = pc'
    OBVIOUS
  <2>4. x \in BehindInst(code, b, pc)
    BY <1>1, <1>2, <1>6, <2>1, <2>2, <2>3, LiveAlongPaths
  <2>5. CASE code[pc].op = "store" /\ code[pc].x = x
    <3>1. pc \in RemoveDeadLocals(code)
      BY <1>1, <1>3, <1>6, <2>5
    <3>2. x \notin BehindInst(code, b, pc)
      BY <1>1, <2>1, <2>5, <3>1, DeadIs
    <3> QED
      BY <2>4, <3>2
  <2>6. CASE ~ (code[pc].op = "store" /\ code[pc].x = x)
    <3>1. x \notin Kills(code, pc)
      BY <2>6 DEF Kills
    <3>2. x \in BeforeInst(code, b, pc)
      BY <1>1, <2>1, <2>4, <3>1, LiveBack
    <3>3. LiveBefore(code, pc, x)
      BY <2>1, <3>2 DEF LiveBefore
    <3>4. last[x] \in dead
      BY <1>3, <1>6, <2>6
    <3> QED
      BY <1>6, <3>3, <3>4 DEF DeadStoresInvariant, LastDeadUnlive
  <2> QED
    BY <2>5, <2>6
<1> QED
  BY <1>1, <1>2, <1>4, <1>5, <1>6 DEF DeadStoresInvariant, LastDeadUnlive

(* On every path through the body of every function, a local whose last     *)
(* store remove_dead_locals deletes is not live: nothing reads it before   *)
(* it is written again.                                                    *)
THEOREM LivenessFollowsThePaths == Spec => []DeadStoresInvariant
<1>1. DeadStoresInvariant /\ UNCHANGED flow => DeadStoresInvariant'
  BY DEF DeadStoresInvariant, LastDeadUnlive, flow
<1>2. DeadStoresInvariant /\ [Next]_flow => DeadStoresInvariant'
  BY <1>1, DeadStoresStep
<1> QED
  BY <1>2, DeadStoresInit, PTL DEF Spec

(* What is read, directly, through a pointer or as the slot of a region,    *)
(* was never written by a deleted store: for every body without a hidden   *)
(* jump that has no more blocks than remove_dead_locals makes iterations.  *)
THEOREM DeadStoresAreUnread == Spec => []DeadStoresUnread
<1>1. DeadStoresInvariant => DeadStoresUnread
  <2> SUFFICES ASSUME DeadStoresInvariant, ~HidesJump(code), ~TooManyBlocks(code), pc \in 1 .. Len(code),
                      code[pc].op \in {"load", "deref", "begin", "end"}, last[code[pc].x] \in dead
               PROVE  FALSE
    BY DEF DeadStoresUnread, InFunction, Inst
  <2> DEFINE x == code[pc].x
  <2>1. /\ IsBody(code) /\ Len(code) \in Nat /\ dead = RemoveDeadLocals(code)
        /\ x \in Locals(code)
    BY BodyShape DEF DeadStoresInvariant, Locals, NamesLocal
  <2>2. code[last[x]].x = x /\ ~LiveBefore(code, pc, x)
    BY <2>1 DEF DeadStoresInvariant, LastDeadUnlive
  <2>3. x \notin Escaped(code)
    <3>1. last[x] \in RemoveDeadLocals(code)
      BY <2>1
    <3>2. code[last[x]].x \notin Escaped(code)
      BY <2>1, <3>1, DeadIs
    <3> QED
      BY <2>2, <3>2
  <2>4. CASE code[pc].op = "deref"
    BY <2>1, <2>3, <2>4 DEF IsBody
  <2>5. CASE code[pc].op # "deref"
    <3>1. x \in Reads(code, pc)
      BY <2>5 DEF Reads
    <3>2. PICK b \in Leaders(code) : InBlock(code, b, pc)
      BY <2>1, EveryInstInBlock DEF InBlock
    <3>3. x \in BeforeInst(code, b, pc)
      BY <2>1, <3>1, <3>2, LiveBack
    <3> QED
      BY <2>2, <3>2, <3>3 DEF LiveBefore
  <2> QED
    BY <2>4, <2>5
<1> QED
  BY <1>1, LivenessFollowsThePaths, PTL
===============================================================================
