----------------------------- MODULE NamesProofs -----------------------------
(***************************************************************************)
(* Proofs about the resolution of names, for every program whose braces    *)
(* match: the symbol table's current namespace and the IR generator's      *)
(* stack of namespaces follow the nesting of the text; private symbols     *)
(* stay at home; functions are apart; and where names are apart, both      *)
(* resolutions of a plain name come to the same declaration.               *)
(***************************************************************************)
EXTENDS Names, FiniteSetTheorems, SequenceTheorems, WellFoundedInduction, TLAPS

(* A set of numbers has a least element. *)
LEMMA LeastOf ==
  ASSUME NEW T \in SUBSET Nat, T # {}
  PROVE  \E x \in T : \A y \in T : x <= y
<1> DEFINE R == OpToRel(<, Nat)
<1>1. IsWellFoundedOn(R, Nat)
  BY NatLessThanWellFounded
<1>2. \A x, y \in Nat : y < x => <<y, x>> \in R
  BY DEF OpToRel
<1> HIDE DEF R
<1>3. PICK x \in T : \A y \in T : ~ (<<y, x>> \in R)
  BY <1>1, WFMin
<1>4. ASSUME NEW y \in T PROVE x <= y
  <2>1. ~ (<<y, x>> \in R)
    BY <1>3
  <2>2. ~ (y < x)
    BY <1>2, <2>1, Zenon
  <2> QED
    BY <2>2
<1> QED
  BY <1>4

-----------------------------------------------------------------------------
(* The namespaces that are open at an item *)

Nested(items) ==
  /\ Len(items) \in Nat
  /\ \A i \in 1 .. Len(items) : Depth(items, i) >= 0
  /\ \A i \in 1 .. Len(items) : items[i].kind = "enter" => items[i].name \in STRING

Turn(item) == IF item.kind = "enter" THEN 1 ELSE IF item.kind = "exit" THEN -1 ELSE 0

OfKind(items, kind, n) == {j \in 1 .. n : items[j].kind = kind}

(* One more item is counted, or not. *)
LEMMA CountStep ==
  ASSUME NEW items, NEW kind, NEW i \in Nat, i > 0
  PROVE  /\ Cardinality(OfKind(items, kind, i)) \in Nat
         /\ Cardinality(OfKind(items, kind, i - 1)) \in Nat
         /\ Cardinality(OfKind(items, kind, i)) =
              Cardinality(OfKind(items, kind, i - 1)) + (IF items[i].kind = kind THEN 1 ELSE 0)
<1> DEFINE S(n) == OfKind(items, kind, n)
<1>1. \A n \in Nat : IsFiniteSet(S(n)) /\ Cardinality(S(n)) \in Nat
  <2> TAKE n \in Nat
  <2>1. IsFiniteSet(1 .. n)
    BY FS_Interval
  <2>2. S(n) \subseteq 1 .. n
    BY DEF OfKind
  <2> QED
    BY <2>1, <2>2, FS_Subset, FS_CardinalityType
<1>2. i - 1 \in Nat /\ i \notin S(i - 1)
  BY DEF OfKind
<1>3. CASE items[i].kind = kind
  <2>1. S(i) = S(i - 1) \cup {i}
    BY <1>3 DEF OfKind
  <2>2. IsFiniteSet(S(i - 1))
    BY <1>1, <1>2
  <2> HIDE DEF S
  <2>3. Cardinality(S(i - 1) \cup {i}) = Cardinality(S(i - 1)) + 1
    BY <1>2, <2>2, FS_AddElement
  <2> QED
    BY <1>1, <1>2, <1>3, <2>1, <2>3 DEF S
<1>4. CASE items[i].kind # kind
  <2>1. S(i) = S(i - 1)
    BY <1>4 DEF OfKind
  <2> QED
    BY <1>1, <1>2, <1>4, <2>1
<1> QED
  BY <1>3, <1>4

LEMMA DepthStep ==
  ASSUME NEW items, NEW i \in Nat, i > 0
  PROVE  /\ Depth(items, i) \in Int /\ Depth(items, i - 1) \in Int
         /\ Depth(items, i) = Depth(items, i - 1) + Turn(items[i])
<1> DEFINE C(kind, n) == Cardinality(OfKind(items, kind, n))
<1>1. \A kind : /\ C(kind, i) \in Nat /\ C(kind, i - 1) \in Nat
                /\ C(kind, i) = C(kind, i - 1) + (IF items[i].kind = kind THEN 1 ELSE 0)
  BY CountStep
<1>2. \A n : Depth(items, n) = C("enter", n) - C("exit", n)
  BY DEF Depth, OfKind
<1> HIDE DEF C
<1>3. "enter" # "exit"
  OBVIOUS
<1> QED
  BY <1>1, <1>2, <1>3 DEF Turn

LEMMA DepthZero == ASSUME NEW items PROVE Depth(items, 0) = 0
<1>1. \A kind : {j \in 1 .. 0 : items[j].kind = kind} = {}
  OBVIOUS
<1> QED
  BY <1>1, FS_EmptySet DEF Depth

Open(items, i) ==
  {j \in 1 .. i : items[j].kind = "enter" /\ \A k \in j .. i : Depth(items, k) >= Depth(items, j)}

UpTo(items, i, j) == {k \in Open(items, i) : k <= j}

(* The open namespaces, outermost first, are at the depths from 1 on.      *)
Ranked(items, i) ==
  /\ IsFiniteSet(Open(items, i)) /\ Cardinality(Open(items, i)) = Depth(items, i)
  /\ \A j \in Open(items, i) :
       /\ Depth(items, j) \in 1 .. Depth(items, i)
       /\ Cardinality(UpTo(items, i, j)) = Depth(items, j)
       /\ \A k \in Open(items, i) : j < k => Depth(items, j) < Depth(items, k)
  /\ \A n \in 1 .. Depth(items, i) : \E j \in Open(items, i) : Depth(items, j) = n

LEMMA OpenStep ==
  ASSUME NEW items, NEW i \in Nat, i > 0, Depth(items, i - 1) \in Nat,
         \A j \in Open(items, i - 1) : Depth(items, j) \in 1 .. Depth(items, i - 1)
  PROVE  Open(items, i) =
           IF items[i].kind = "enter" THEN Open(items, i - 1) \cup {i}
           ELSE {j \in Open(items, i - 1) : Depth(items, j) <= Depth(items, i)}
<1> DEFINE D(j) == Depth(items, j)
<1>1. D(i) \in Int /\ D(i) = D(i - 1) + Turn(items[i])
  BY DepthStep
<1>2. \A j \in Open(items, i - 1) : D(j) \in Nat
  OBVIOUS
<1>3. ASSUME NEW j \in 1 .. (i - 1)
      PROVE  j \in Open(items, i) <=> j \in Open(items, i - 1) /\ D(i) >= D(j)
  <2>1. j .. i = (j .. (i - 1)) \cup {i}
    BY <1>3
  <2>2. j \in 1 .. i
    BY <1>3
  <2> HIDE DEF D
  <2> QED
    BY <1>3, <2>1, <2>2 DEF Open, D
<1>4. i \in Open(items, i) <=> items[i].kind = "enter"
  <2>1. i .. i = {i} /\ i \in 1 .. i
    OBVIOUS
  <2> QED
    BY <1>1, <2>1 DEF Open
<1>5. Open(items, i) \subseteq 1 .. i /\ Open(items, i - 1) \subseteq 1 .. (i - 1)
  BY DEF Open
<1>6. 1 .. i = (1 .. (i - 1)) \cup {i}
  OBVIOUS
<1> HIDE DEF D
<1>7. CASE items[i].kind = "enter"
  <2>1. \A j \in Open(items, i - 1) : D(i) >= D(j)
    BY <1>1, <1>2, <1>7 DEF Turn, D
  <2> QED
    BY <1>3, <1>4, <1>5, <1>6, <1>7, <2>1
<1>8. CASE items[i].kind # "enter"
  <2>1. \A j \in Open(items, i - 1) : D(i) >= D(j) <=> D(j) <= D(i)
    BY <1>1, <1>2
  <2>2. Open(items, i) = {j \in Open(items, i - 1) : D(j) <= D(i)}
    BY <1>3, <1>4, <1>5, <1>6, <1>8, <2>1
  <2> QED
    BY <1>8, <2>2 DEF D
<1> QED
  BY <1>7, <1>8

LEMMA RankedStep ==
  ASSUME NEW items, NEW i \in Nat, i > 0, Ranked(items, i - 1),
         Depth(items, i - 1) \in Nat, Depth(items, i) \in Nat
  PROVE  Ranked(items, i)
<1> DEFINE D(j) == Depth(items, j)
           before == Open(items, i - 1)
           now == Open(items, i)
<1>1. /\ now = IF items[i].kind = "enter" THEN before \cup {i} ELSE {j \in before : D(j) <= D(i)}
      /\ D(i) = D(i - 1) + Turn(items[i])
      /\ D(i) \in Nat /\ D(i - 1) \in Nat
  BY OpenStep, DepthStep DEF Ranked
<1>2. /\ IsFiniteSet(before) /\ Cardinality(before) = D(i - 1)
      /\ \A j \in before :
           /\ D(j) \in 1 .. D(i - 1)
           /\ Cardinality(UpTo(items, i - 1, j)) = D(j)
           /\ \A k \in before : j < k => D(j) < D(k)
      /\ \A n \in 1 .. D(i - 1) : \E j \in before : D(j) = n
  BY DEF Ranked
<1>3. before \subseteq 1 .. (i - 1) /\ now \subseteq 1 .. i
  BY DEF Open
<1> HIDE DEF D
<1>4. \A j \in before : j \in Nat /\ j < i /\ D(j) \in Nat
  BY <1>1, <1>2, <1>3
<1>5. CASE items[i].kind = "enter"
  <2>1. now = before \cup {i} /\ i \notin before /\ D(i) = D(i - 1) + 1
    BY <1>1, <1>4, <1>5 DEF Turn
  <2>2. IsFiniteSet(now) /\ Cardinality(now) = D(i)
    BY <1>2, <2>1, FS_AddElement
  <2>3. ASSUME NEW j \in before
        PROVE  /\ D(j) \in 1 .. D(i) /\ Cardinality(UpTo(items, i, j)) = D(j)
               /\ \A k \in now : j < k => D(j) < D(k)
    <3>1. UpTo(items, i, j) = UpTo(items, i - 1, j)
      BY <1>4, <2>1 DEF UpTo
    <3>2. D(j) \in 1 .. D(i - 1) /\ D(j) < D(i)
      BY <1>1, <1>2, <2>1
    <3> QED
      BY <1>1, <1>2, <2>1, <3>1, <3>2
  <2>4. D(i) \in 1 .. D(i) /\ \A k \in now : ~(i < k)
    BY <1>1, <1>4, <2>1
  <2>5. UpTo(items, i, i) = now
    BY <1>4, <2>1 DEF UpTo
  <2>6. \A n \in 1 .. D(i) : \E j \in now : D(j) = n
    <3> TAKE n \in 1 .. D(i)
    <3>1. n = D(i) \/ n \in 1 .. D(i - 1)
      BY <1>1, <2>1
    <3> QED
      BY <1>2, <2>1, <3>1
  <2>7. \A j \in now :
          /\ D(j) \in 1 .. D(i) /\ Cardinality(UpTo(items, i, j)) = D(j)
          /\ \A k \in now : j < k => D(j) < D(k)
    BY <2>1, <2>2, <2>3, <2>4, <2>5
  <2> QED
    BY <2>2, <2>6, <2>7 DEF Ranked, D
<1>6. CASE items[i].kind # "enter"
  <2>1. now = {j \in before : D(j) <= D(i)}
    BY <1>1, <1>6
  <2>2. (now = before /\ D(i) = D(i - 1)) \/ D(i) = D(i - 1) - 1
    BY <1>1, <1>2, <1>6, <2>1 DEF Turn
  <2>3. IsFiniteSet(now) /\ Cardinality(now) = D(i)
    <3>1. CASE now = before /\ D(i) = D(i - 1)
      BY <1>2, <3>1
    <3>2. CASE D(i) = D(i - 1) - 1
      <4>1. PICK top \in before : D(top) = D(i - 1)
        BY <1>1, <1>2, <3>2
      <4>2. \A j \in before : j # top => D(j) < D(i - 1)
        BY <1>2, <1>4, <4>1
      <4>3. \A j \in before : D(j) <= D(i) <=> j # top
        BY <1>1, <1>4, <3>2, <4>1, <4>2
      <4>4. now = before \ {top}
        BY <2>1, <4>3
      <4>5. IsFiniteSet(before \ {top}) /\ Cardinality(before \ {top}) = Cardinality(before) - 1
        BY <1>2, <4>1, FS_RemoveElement
      <4> QED
        BY <1>2, <3>2, <4>4, <4>5
    <3> QED
      BY <2>2, <3>1, <3>2
  <2>4. D(i) <= D(i - 1)
    BY <1>1, <2>2
  <2>5. ASSUME NEW j \in now
        PROVE  /\ D(j) \in 1 .. D(i) /\ Cardinality(UpTo(items, i, j)) = D(j)
               /\ \A k \in now : j < k => D(j) < D(k)
    <3>1. \A k \in before : k <= j => k \in now
      <4> TAKE k \in before
      <4>1. k <= j => D(k) <= D(j)
        BY <1>2, <1>4, <2>1
      <4> QED
        BY <1>1, <1>4, <2>1, <4>1
    <3>2. UpTo(items, i, j) = UpTo(items, i - 1, j)
      BY <2>1, <3>1 DEF UpTo
    <3> QED
      BY <1>1, <1>2, <2>1, <3>2
  <2>6. \A n \in 1 .. D(i) : \E j \in now : D(j) = n
    <3> TAKE n \in 1 .. D(i)
    <3>1. n \in 1 .. D(i - 1) /\ n <= D(i)
      BY <1>1, <2>4
    <3> QED
      BY <1>2, <2>1, <3>1
  <2> QED
    BY <2>3, <2>5, <2>6 DEF Ranked, D
<1> QED
  BY <1>5, <1>6

LEMMA OpenRanked ==
  ASSUME NEW items, Nested(items), NEW i \in 0 .. Len(items)
  PROVE  Depth(items, i) \in Nat /\ Ranked(items, i)
<1> DEFINE T == {n \in 0 .. Len(items) : ~Ranked(items, n)}
<1>1. \A n \in 0 .. Len(items) : Depth(items, n) \in Nat
  <2> TAKE n \in 0 .. Len(items)
  <2>1. CASE n = 0
    BY <2>1, DepthZero
  <2>2. CASE n # 0
    BY <2>2, DepthStep DEF Nested
  <2> QED
    BY <2>1, <2>2
<1> SUFFICES ASSUME T # {} PROVE FALSE
  BY <1>1
<1>2. PICK n \in T : \A m \in T : n <= m
  <2>1. T \subseteq Nat
    OBVIOUS
  <2> HIDE DEF T
  <2> QED
    BY <2>1, LeastOf
<1>3. Ranked(items, 0)
  <2>1. Open(items, 0) = {}
    BY DEF Open
  <2>2. 1 .. Depth(items, 0) = {}
    BY DepthZero
  <2> QED
    BY <2>1, <2>2, DepthZero, FS_EmptySet DEF Ranked
<1>4. n \in 1 .. Len(items)
  BY <1>2, <1>3
<1>5. n - 1 \in 0 .. Len(items) /\ ~(n <= n - 1) /\ Len(items) \in Nat
  BY <1>4 DEF Nested
<1>6. Ranked(items, n - 1)
  BY <1>2, <1>5
<1> QED
  BY <1>1, <1>2, <1>4, <1>5, <1>6, RankedStep

(* The name at each depth is that of the one namespace open there. *)
LEMMA SpaceIs ==
  ASSUME NEW items, Nested(items), NEW i \in 0 .. Len(items)
  PROVE  /\ SpaceOf(items, i) \in Seq(STRING)
         /\ Len(SpaceOf(items, i)) = Depth(items, i)
         /\ \A j \in Open(items, i) : SpaceOf(items, i)[Depth(items, j)] = items[j].name
<1> DEFINE open == Open(items, i)
           d == Depth(items, i)
           at_(n) == CHOOSE j \in open : Cardinality(UpTo(items, i, j)) = n
<1>1. d \in Nat /\ Ranked(items, i)
  BY OpenRanked
<1>2. Cardinality(open) = d /\ open \subseteq 1 .. Len(items)
  BY <1>1 DEF Ranked, Open
<1>3. SpaceOf(items, i) = [n \in 1 .. d |-> items[at_(n)].name]
  BY <1>2 DEF SpaceOf, Open, UpTo
<1>4. ASSUME NEW j \in open PROVE Depth(items, j) \in 1 .. d /\ at_(Depth(items, j)) = j
  <2> DEFINE n == Depth(items, j)
             c == at_(n)
  <2>1. n \in 1 .. d /\ Cardinality(UpTo(items, i, j)) = n
    BY <1>1 DEF Ranked
  <2>2. c \in open /\ Cardinality(UpTo(items, i, c)) = n
    BY <2>1
  <2>3. Depth(items, c) = n
    BY <1>1, <2>2 DEF Ranked
  <2>4. c < j \/ j < c \/ c = j
    BY <1>2, <2>2
  <2> QED
    BY <1>1, <2>1, <2>2, <2>3, <2>4 DEF Ranked
<1>5. \A n \in 1 .. d : items[at_(n)].name \in STRING
  <2> TAKE n \in 1 .. d
  <2>1. PICK j \in open : Depth(items, j) = n
    BY <1>1 DEF Ranked
  <2>2. items[j].kind = "enter" /\ j \in 1 .. Len(items)
    BY <1>2 DEF Open
  <2> QED
    BY <1>4, <2>1, <2>2 DEF Nested
<1> HIDE DEF at_
<1>6. SpaceOf(items, i) \in Seq(STRING) /\ Len(SpaceOf(items, i)) = d
  BY <1>1, <1>3, <1>5
<1> QED
  BY <1>3, <1>4, <1>6

(* The path of namespaces grows by one name, shrinks by one or stays.      *)
LEMMA SpaceStep ==
  ASSUME NEW items, Nested(items), NEW i \in 1 .. Len(items)
  PROVE  LET before == SpaceOf(items, i - 1)
         IN  /\ items[i].kind = "enter" => SpaceOf(items, i) = before \o <<items[i].name>>
             /\ items[i].kind = "exit" => before # <<>> /\ SpaceOf(items, i) = Front(before)
             /\ items[i].kind \notin {"enter", "exit"} => SpaceOf(items, i) = before
<1> DEFINE D(j) == Depth(items, j)
           s == SpaceOf(items, i - 1)
           t == SpaceOf(items, i)
<1>0. i - 1 \in 0 .. Len(items) /\ i \in 0 .. Len(items) /\ Len(items) \in Nat /\ i \in Nat /\ i > 0
  BY DEF Nested
<1>1. /\ s \in Seq(STRING) /\ Len(s) = D(i - 1) /\ \A j \in Open(items, i - 1) : s[D(j)] = items[j].name
      /\ t \in Seq(STRING) /\ Len(t) = D(i) /\ \A j \in Open(items, i) : t[D(j)] = items[j].name
  BY <1>0, SpaceIs
<1>2. /\ D(i - 1) \in Nat /\ D(i) \in Nat /\ Ranked(items, i) /\ Ranked(items, i - 1)
  BY <1>0, OpenRanked
<1>3. /\ Open(items, i) = IF items[i].kind = "enter" THEN Open(items, i - 1) \cup {i}
                          ELSE {j \in Open(items, i - 1) : D(j) <= D(i)}
      /\ D(i) = D(i - 1) + Turn(items[i])
  BY <1>0, <1>2, OpenStep, DepthStep DEF Ranked
<1>4. /\ \A n \in 1 .. D(i - 1) : \E j \in Open(items, i - 1) : D(j) = n
      /\ \A n \in 1 .. D(i) : \E j \in Open(items, i) : D(j) = n
  BY <1>2 DEF Ranked
<1> HIDE DEF s, t, D
(* What is open before and behind the item has the same name. *)
<1>5. ASSUME NEW n \in 1 .. D(i - 1), n <= D(i) PROVE t[n] = s[n]
  <2>1. PICK j \in Open(items, i - 1) : D(j) = n
    BY <1>4
  <2>2. j \in Open(items, i)
    BY <1>3, <1>5, <2>1
  <2> QED
    BY <1>1, <2>1, <2>2
<1>6. CASE items[i].kind = "enter"
  <2>1. D(i) = D(i - 1) + 1 /\ i \in Open(items, i)
    BY <1>3, <1>6 DEF Turn
  <2>2. items[i].name \in STRING /\ <<items[i].name>> \in Seq(STRING)
    BY <1>6 DEF Nested
  <2>3. /\ s \o <<items[i].name>> \in Seq(STRING)
        /\ Len(s \o <<items[i].name>>) = D(i - 1) + 1
        /\ \A n \in 1 .. (D(i - 1) + 1) :
             (s \o <<items[i].name>>)[n] = IF n <= D(i - 1) THEN s[n] ELSE <<items[i].name>>[n - D(i - 1)]
    BY <1>1, <2>2, ConcatProperties
  <2>4. ASSUME NEW n \in 1 .. D(i) PROVE t[n] = (s \o <<items[i].name>>)[n]
    <3>1. CASE n = D(i)
      <4>1. t[n] = items[i].name
        BY <1>1, <2>1, <3>1
      <4>2. n \in 1 .. (D(i - 1) + 1) /\ ~(n <= D(i - 1)) /\ n - D(i - 1) = 1
        BY <1>2, <2>1, <3>1
      <4> QED
        BY <2>3, <4>1, <4>2
    <3>2. CASE n # D(i)
      <4>1. n \in 1 .. D(i - 1) /\ n <= D(i - 1) /\ n <= D(i) /\ n \in 1 .. (D(i - 1) + 1)
        BY <1>2, <2>1, <3>2
      <4> QED
        BY <1>5, <2>3, <4>1
    <3> QED
      BY <3>1, <3>2
  <2>5. t = s \o <<items[i].name>>
    BY <1>1, <2>1, <2>3, <2>4, SeqEqual
  <2> QED
    BY <1>6, <2>5 DEF s, t
<1>7. CASE items[i].kind = "exit"
  <2>1. D(i) = D(i - 1) - 1
    BY <1>2, <1>3, <1>7 DEF Turn
  <2>2. /\ Front(s) \in Seq(STRING) /\ Len(Front(s)) = D(i)
        /\ \A n \in 1 .. D(i) : Front(s)[n] = s[n]
    BY <1>1, <1>2, <2>1 DEF Front
  <2>3. \A n \in 1 .. D(i) : t[n] = Front(s)[n]
    BY <1>2, <1>5, <2>1, <2>2
  <2>4. t = Front(s)
    BY <1>1, <2>2, <2>3, SeqEqual
  <2>5. s # <<>>
    BY <1>1, <1>2, <2>1
  <2> QED
    BY <1>7, <2>4, <2>5 DEF s, t
<1>8. CASE items[i].kind \notin {"enter", "exit"}
  <2>1. D(i) = D(i - 1)
    BY <1>2, <1>3, <1>8 DEF Turn
  <2>2. \A n \in 1 .. Len(t) : t[n] = s[n]
    BY <1>1, <1>2, <1>5, <2>1
  <2>3. t = s
    BY <1>1, <2>1, <2>2, SeqEqual
  <2> QED
    BY <1>8, <2>3 DEF s, t
<1> QED
  BY <1>6, <1>7, <1>8

LEMMA FrontOfAppended ==
  ASSUME NEW S, NEW s \in Seq(S), NEW e \in S
  PROVE  Front(s \o <<e>>) = s
<1>1. <<e>> \in Seq(S) /\ Len(<<e>>) = 1 /\ Len(s) \in Nat
  OBVIOUS
<1>2. /\ s \o <<e>> \in Seq(S) /\ Len(s \o <<e>>) = Len(s) + 1
      /\ \A i \in 1 .. Len(s) : (s \o <<e>>)[i] = s[i]
  BY <1>1, ConcatProperties
<1> DEFINE t == s \o <<e>>
<1>3. \A i \in 1 .. Len(s) : t[i] \in S
  BY <1>2
<1> HIDE DEF t
<1>4. Front(t) = SubSeq(t, 1, Len(s))
  BY <1>1, <1>2 DEF Front, t
<1>5. /\ SubSeq(t, 1, Len(s)) \in Seq(S) /\ Len(SubSeq(t, 1, Len(s))) = Len(s)
      /\ \A i \in 1 .. Len(s) : SubSeq(t, 1, Len(s))[i] = s[i]
  <2>1. /\ SubSeq(t, 1, Len(s)) \in Seq(S)
        /\ Len(SubSeq(t, 1, Len(s))) = IF 1 <= Len(s) THEN Len(s) - 1 + 1 ELSE 0
        /\ \A i \in 1 .. Len(s) - 1 + 1 : SubSeq(t, 1, Len(s))[i] = t[1 + i - 1]
    BY <1>1, <1>3, SubSeqProperties
  <2>2. \A i \in 1 .. Len(s) : i \in 1 .. Len(s) - 1 + 1 /\ 1 + i - 1 = i
    BY <1>1
  <2> QED
    BY <1>1, <1>2, <2>1, <2>2 DEF t
<1>6. SubSeq(t, 1, Len(s)) = s
  BY <1>5, SeqEqual
<1> QED
  BY <1>4, <1>6 DEF t

LEMMA PathsAssociate ==
  \A p, q, r \in Seq(STRING) : (p \o q) \o r = p \o (q \o r)
<1> TAKE p, q, r \in Seq(STRING)
<1> DEFINE S == STRING
<1>1. p \in Seq(S) /\ q \in Seq(S) /\ r \in Seq(S)
  OBVIOUS
<1> HIDE DEF S
<1> QED
  BY <1>1, ConcatAssociative

LEMMA FrontOfConcat ==
  ASSUME NEW S, NEW s \in Seq(S), NEW t \in Seq(S), t # <<>>
  PROVE  s \o t # <<>> /\ Front(s \o t) = s \o Front(t)
<1> DEFINE u == Front(t)
           e == t[Len(t)]
<1>1. Len(t) \in Nat \ {0} /\ Len(s) \in Nat
  BY EmptySeq
<1>2. u \in Seq(S) /\ e \in S /\ t = u \o <<e>>
  <2>1. u = [i \in 1 .. (Len(t) - 1) |-> t[i]]
    BY <1>1 DEF Front
  <2>2. u \in Seq(S) /\ Len(u) = Len(t) - 1 /\ e \in S
    BY <1>1, <2>1
  <2>3. <<e>> \in Seq(S) /\ Len(<<e>>) = 1 /\ <<e>>[1] = e
    BY <2>2
  <2>4. /\ u \o <<e>> \in Seq(S) /\ Len(u \o <<e>>) = Len(t)
        /\ \A i \in 1 .. Len(t) : (u \o <<e>>)[i] = t[i]
    <3> HIDE DEF u, e
    <3>1. /\ u \o <<e>> \in Seq(S) /\ Len(u \o <<e>>) = Len(u) + 1
          /\ \A i \in 1 .. (Len(u) + 1) :
               (u \o <<e>>)[i] = IF i <= Len(u) THEN u[i] ELSE <<e>>[i - Len(u)]
      BY <2>2, <2>3, ConcatProperties
    <3>2. ASSUME NEW i \in 1 .. Len(t) PROVE (u \o <<e>>)[i] = t[i]
      <4>1. CASE i = Len(t)
        BY <1>1, <2>2, <2>3, <3>1, <4>1 DEF e
      <4>2. CASE i # Len(t)
        BY <1>1, <2>1, <2>2, <3>1, <4>2
      <4> QED
        BY <4>1, <4>2
    <3> QED
      BY <1>1, <2>2, <3>1, <3>2
  <2> HIDE DEF u, e
  <2> QED
    BY <2>2, <2>4, SeqEqual
<1> HIDE DEF u, e
<1> DEFINE v == <<e>>
<1>3. v \in Seq(S) /\ s \o u \in Seq(S)
  BY <1>2, ConcatProperties
<1>4. s \o t = (s \o u) \o v
  <2> HIDE DEF v
  <2>1. (s \o u) \o v = s \o (u \o v)
    BY <1>2, <1>3, ConcatAssociative
  <2> QED
    BY <1>2, <2>1 DEF v
<1>5. Front(s \o t) = s \o u
  <2> DEFINE w == s \o u
  <2>1. w \in Seq(S) /\ s \o t = w \o <<e>>
    BY <1>3, <1>4
  <2> HIDE DEF w
  <2>2. Front(w \o <<e>>) = w
    BY <1>2, <2>1, FrontOfAppended
  <2> QED
    BY <2>1, <2>2 DEF w
<1>6. s \o t # <<>>
  BY <1>1, ConcatProperties
<1> QED
  BY <1>5, <1>6 DEF u

-----------------------------------------------------------------------------
(* The inductive invariant *)

(* Where the work is. *)
Placed ==
  /\ program \in Programs
  /\ module \in 1 .. Len(program)
  /\ at \in 1 .. Len(Here.body)
  /\ phase \in {"hide", "leave", "register"} => at = 1
  /\ phase \in {"hide", "register"} => current = <<>>
  /\ phase = "register" => module = 1

(* With a namespace, those around it exist: leaving one leads to another. *)
SpacesClosed ==
  /\ spaces \subseteq Seq(STRING)
  /\ <<>> \in spaces
  /\ \A s \in spaces : s # <<>> => Front(s) \in spaces

(* The generator's own stack holds the namespaces inside of the module. *)
StackFollows ==
  nested = IF phase = "generate" THEN SpaceOf(Here.body, at - 1) ELSE <<>>

NamesInvariant == SpacesFollow /\ Placed /\ SpacesClosed /\ StackFollows /\ ScopesFollow

Listed(items) ==
  \A i \in 1 .. Len(items) :
    /\ items[i].kind = "func" => IsList(items[i].imports)
    /\ items[i].kind = "struct" => /\ IsList(items[i].methods)
                                   /\ \A f \in Range(items[i].methods) : IsList(f.imports)

LEMMA ProgramShape ==
  ASSUME NEW p \in Programs
  PROVE  /\ Len(p) \in Nat \ {0}
         /\ \A m \in 1 .. Len(p) :
              /\ p[m].path \in Seq(STRING) /\ Listed(p[m].body)
              /\ Nested(p[m].body) /\ Len(p[m].body) \in Nat \ {0}
              /\ SpaceOf(p[m].body, 0) = <<>>
              /\ SpaceOf(p[m].body, Len(p[m].body)) = <<>>
<1>1. p \in Seq(Range(p)) /\ p # <<>>
  BY ProgramsAssumption DEF IsList
<1>2. Len(p) \in Nat \ {0}
  BY <1>1, EmptySeq
<1>3. ASSUME NEW m \in 1 .. Len(p)
      PROVE  /\ p[m].path \in Seq(STRING) /\ Listed(p[m].body)
             /\ Nested(p[m].body) /\ Len(p[m].body) \in Nat \ {0}
             /\ SpaceOf(p[m].body, 0) = <<>>
             /\ SpaceOf(p[m].body, Len(p[m].body)) = <<>>
  <2> DEFINE items == p[m].body
  <2>0. IsModule(p[m])
    BY ProgramsAssumption
  <2>1. /\ p[m].path \in Seq(STRING)
        /\ items \in Seq(Range(items)) /\ items # <<>>
        /\ \A i \in 1 .. Len(items) : Depth(items, i) >= 0 /\ IsDeclaration(items[i])
        /\ Depth(items, Len(items)) = 0
    BY <2>0 DEF IsModule, IsList
  <2>7. \A i \in 1 .. Len(items) : items[i].kind = "enter" => items[i].name \in STRING
    BY <2>1 DEF IsDeclaration
  <2>8. Listed(items)
    BY <2>1 DEF Listed, IsDeclaration, IsBody
  <2> HIDE DEF items
  <2>2. Len(items) \in Nat \ {0}
    BY <2>1, EmptySeq
  <2>3. Nested(items)
    BY <2>1, <2>2, <2>7 DEF Nested
  <2>4. 0 \in 0 .. Len(items) /\ Len(items) \in 0 .. Len(items)
    BY <2>2
  <2>5. /\ SpaceOf(items, 0) \in Seq(STRING) /\ Len(SpaceOf(items, 0)) = 0
        /\ SpaceOf(items, Len(items)) \in Seq(STRING) /\ Len(SpaceOf(items, Len(items))) = 0
    BY <2>1, <2>3, <2>4, SpaceIs, DepthZero
  <2>6. SpaceOf(items, 0) = <<>> /\ SpaceOf(items, Len(items)) = <<>>
    BY <2>5, EmptySeq
  <2> QED
    BY <2>1, <2>2, <2>3, <2>6, <2>8 DEF items
<1> QED
  BY <1>2, <1>3

(* enter_namespace makes every namespace on the way. *)
LEMMA EnterKeeps ==
  ASSUME SpacesClosed, NEW s \in spaces, NEW path \in Seq(STRING), EnterFrom(s, path)
  PROVE  /\ SpacesClosed' /\ spaces \subseteq spaces'
         /\ current' = s \o path /\ current' \in spaces'
<1> DEFINE way(n) == s \o SubSeq(path, 1, n)
<1>1. current' = s \o path /\ spaces' = spaces \cup {way(n) : n \in 0 .. Len(path)}
  BY DEF EnterFrom
<1>2. s \in Seq(STRING) /\ Len(path) \in Nat /\ Len(s) \in Nat
  BY DEF SpacesClosed
<1>3. SubSeq(path, 1, Len(path)) = path /\ SubSeq(path, 1, 0) = <<>> /\ way(0) = s
  BY <1>2, SubSeqFull, SubSeqEmpty, ConcatEmptySeq
<1>4. current' \in spaces'
  <2>1. Len(path) \in 0 .. Len(path)
    BY <1>2
  <2>2. way(Len(path)) = s \o path
    BY <1>3
  <2> HIDE DEF way
  <2> QED
    BY <1>1, <2>1, <2>2
<1>5. ASSUME NEW n \in 0 .. Len(path)
      PROVE  SubSeq(path, 1, n) \in Seq(STRING) /\ Len(SubSeq(path, 1, n)) = n
  <2>1. \A i \in 1 .. n : path[i] \in STRING
    BY <1>2
  <2> QED
    BY <1>2, <2>1, SubSeqProperties
<1>6. ASSUME NEW n \in 0 .. Len(path) PROVE way(n) \in Seq(STRING)
  BY <1>2, <1>5, ConcatProperties
<1>7. ASSUME NEW n \in 1 .. Len(path) PROVE Front(way(n)) = way(n - 1)
  <2>1. n \in 0 .. Len(path) /\ n - 1 \in 0 .. Len(path)
    BY <1>2
  <2>2. SubSeq(path, 1, n) = SubSeq(path, 1, n - 1) \o <<path[n]>>
    BY <1>2, SubSeqRecursiveSecond
  <2>3. path[n] \in STRING /\ <<path[n]>> \in Seq(STRING)
    BY <1>2
  <2>4. way(n) = way(n - 1) \o <<path[n]>>
    <3>1. SubSeq(path, 1, n - 1) \in Seq(STRING)
      BY <1>5, <2>1
    <3> DEFINE u == SubSeq(path, 1, n - 1)
               e == <<path[n]>>
    <3>2. u \in Seq(STRING) /\ e \in Seq(STRING)
      BY <2>3, <3>1
    <3>3. way(n) = s \o (u \o e) /\ way(n - 1) \o <<path[n]>> = (s \o u) \o e
      BY <2>2
    <3> HIDE DEF u, e, way
    <3>4. (s \o u) \o e = s \o (u \o e)
      BY <1>2, <3>2, PathsAssociate
    <3> QED
      BY <3>3, <3>4
  <2>5. way(n - 1) \in Seq(STRING)
    BY <1>6, <2>1
  <2> HIDE DEF way
  <2> QED
    BY <2>3, <2>4, <2>5, FrontOfAppended
<1> HIDE DEF way
<1>8. ASSUME NEW t \in spaces', t # <<>> PROVE Front(t) \in spaces'
  <2>1. CASE t \in spaces
    BY <1>1, <1>8, <2>1 DEF SpacesClosed
  <2>2. ASSUME NEW n \in 0 .. Len(path), t = way(n) PROVE Front(t) \in spaces'
    <3>1. CASE n = 0
      BY <1>1, <1>3, <1>8, <2>2, <3>1 DEF SpacesClosed
    <3>2. CASE n # 0
      <4>1. n \in 1 .. Len(path) /\ n - 1 \in 0 .. Len(path)
        BY <1>2, <3>2
      <4> QED
        BY <1>1, <1>7, <2>2, <4>1
    <3> QED
      BY <3>1, <3>2
  <2> QED
    BY <1>1, <2>1, <2>2
<1> QED
  BY <1>1, <1>4, <1>6, <1>8 DEF SpacesClosed

(* A symbol is only ever made in the namespace of the work, by a copy or   *)
(* by a declaration; the others stay where they are.                       *)
KeysGrow ==
  /\ DOMAIN symbols \subseteq DOMAIN symbols'
  /\ \A key \in DOMAIN symbols' : key \in DOMAIN symbols \/ key[1] = current

LEMMA ExtendDomain == ASSUME NEW f, NEW g PROVE DOMAIN Extend(f, g) = DOMAIN f \cup DOMAIN g
  BY DEF Extend

LEMMA WithDomain == ASSUME NEW key, NEW s PROVE DOMAIN With(key, s) = DOMAIN symbols \cup {key}
<1> DEFINE f == [k \in {key} |-> s]
<1>1. With(key, s) = Extend(f, symbols) /\ DOMAIN f = {key}
  BY DEF With
<1> HIDE DEF f
<1>2. DOMAIN Extend(f, symbols) = DOMAIN f \cup DOMAIN symbols
  BY ExtendDomain
<1> QED
  BY <1>1, <1>2

LEMMA DeclareKeys == ASSUME NEW entries, Declare(entries) PROVE KeysGrow
<1> DEFINE made == [key \in {current} \X DOMAIN entries |-> entries[key[2]]]
<1>1. CASE scopes = <<>>
  <2>1. symbols' = Extend(symbols, made)
    BY <1>1 DEF Declare
  <2>2. DOMAIN made = {current} \X DOMAIN entries
    OBVIOUS
  <2>3. \A key \in DOMAIN made : key[1] = current
    BY <2>2
  <2> HIDE DEF made
  <2>4. DOMAIN symbols' = DOMAIN symbols \cup DOMAIN made
    BY <2>1, ExtendDomain
  <2> QED
    BY <2>3, <2>4 DEF KeysGrow
<1>2. CASE scopes # <<>>
  BY <1>2 DEF Declare, KeysGrow
<1> QED
  BY <1>1, <1>2

LEMMA UsingKeys == ASSUME NEW path, Using(path) PROVE KeysGrow
<1>1. CASE path \in spaces
  BY <1>1, DeclareKeys DEF Using
<1>2. CASE path \notin spaces
  BY <1>2 DEF Using, KeysGrow
<1> QED
  BY <1>1, <1>2

LEMMA FunctionKeys == ASSUME NEW f, CollectFunction(f) PROVE KeysGrow
<1> DEFINE keys == {n \in 0 .. Len(current) : <<SubSeq(current, 1, n), <<f.name>>>> \in DOMAIN symbols}
           key == <<SubSeq(current, 1, Max(keys)), <<f.name>>>>
           here == <<current, <<f.name>>>>
<1>1. \/ symbols' = With(here, Symbol("func", <<f.name>>, f.defined, <<at, 0>>))
      \/ UNCHANGED symbols
      \/ symbols' = [symbols EXCEPT ![key].defined = TRUE, ![key].private = <<at, 0>> \in private]
  BY DEF CollectFunction
<1>2. CASE symbols' = With(here, Symbol("func", <<f.name>>, f.defined, <<at, 0>>))
  <2>1. DOMAIN symbols' = DOMAIN symbols \cup {here}
    BY <1>2, WithDomain
  <2> QED
    BY <2>1 DEF KeysGrow
<1>3. CASE symbols' = [symbols EXCEPT ![key].defined = TRUE, ![key].private = <<at, 0>> \in private]
  <2> HIDE DEF key
  <2>1. DOMAIN symbols' = DOMAIN symbols
    BY <1>3
  <2> QED
    BY <2>1 DEF KeysGrow
<1>4. CASE UNCHANGED symbols
  BY <1>4 DEF KeysGrow
<1> HIDE DEF key, here
<1> QED
  BY <1>1, <1>2, <1>3, <1>4

LEMMA StructKeys == ASSUME NEW s, CollectStruct(s) PROVE KeysGrow
<1>1. CASE Free(<<s.name>>)
  <2>1. PICK own, methods :
          symbols' = Extend(With(<<current, <<s.name>>>>, own), methods)
          /\ \A key \in DOMAIN methods : key[1] = current
    <3> DEFINE Method(m) == Symbol("func", <<s.name, s.methods[m].name>>, TRUE, <<at, m>>)
               First(name) == CHOOSE m \in DOMAIN s.methods :
                                s.methods[m].name = name /\ \A l \in 1 .. m - 1 : s.methods[l].name # name
               names == {s.methods[m].name : m \in DOMAIN s.methods}
               own == Extend([methods |-> names], Symbol("struct", <<s.name>>, TRUE, <<at, 0>>))
               methods == [key \in {<<current, <<s.name, m>>>> : m \in names} |-> Method(First(key[2][2]))]
    <3>1. symbols' = Extend(With(<<current, <<s.name>>>>, own), methods)
      BY <1>1 DEF CollectStruct
    <3>2. \A key \in DOMAIN methods : key[1] = current
      OBVIOUS
    <3> HIDE DEF own, methods
    <3> QED
      BY <3>1, <3>2
  <2>2. DOMAIN symbols' = DOMAIN symbols \cup {<<current, <<s.name>>>>} \cup DOMAIN methods
    <3> DEFINE grown == With(<<current, <<s.name>>>>, own)
    <3>1. DOMAIN grown = DOMAIN symbols \cup {<<current, <<s.name>>>>}
      BY WithDomain
    <3> HIDE DEF grown
    <3>2. DOMAIN Extend(grown, methods) = DOMAIN grown \cup DOMAIN methods
      BY ExtendDomain
    <3> QED
      BY <2>1, <3>1, <3>2 DEF grown
  <2> QED
    BY <2>1, <2>2 DEF KeysGrow
<1>2. CASE ~Free(<<s.name>>)
  BY <1>2 DEF CollectStruct, KeysGrow
<1> QED
  BY <1>1, <1>2

LEMMA EnumKeys == ASSUME NEW e, CollectEnum(e) PROVE KeysGrow
<1>1. CASE Free(<<e.name>>)
  <2>1. PICK own, variants :
          symbols' = Extend(With(<<current, <<e.name>>>>, own), variants)
          /\ \A key \in DOMAIN variants : key[1] = current
    <3> DEFINE own == Symbol("enum", <<e.name>>, TRUE, <<at, 0>>)
               variants == [key \in {<<current, <<v>>>> : v \in Range(e.variants)} |->
                              Symbol("const", <<key[2][1]>>, TRUE, << >>)]
    <3>1. symbols' = Extend(With(<<current, <<e.name>>>>, own), variants)
      BY <1>1 DEF CollectEnum
    <3>2. \A key \in DOMAIN variants : key[1] = current
      OBVIOUS
    <3> HIDE DEF own, variants
    <3> QED
      BY <3>1, <3>2
  <2>2. DOMAIN symbols' = DOMAIN symbols \cup {<<current, <<e.name>>>>} \cup DOMAIN variants
    <3> DEFINE grown == With(<<current, <<e.name>>>>, own)
    <3>1. DOMAIN grown = DOMAIN symbols \cup {<<current, <<e.name>>>>}
      BY WithDomain
    <3> HIDE DEF grown
    <3>2. DOMAIN Extend(grown, variants) = DOMAIN grown \cup DOMAIN variants
      BY ExtendDomain
    <3> QED
      BY <2>1, <3>1, <3>2 DEF grown
  <2> QED
    BY <2>1, <2>2 DEF KeysGrow
<1>2. CASE ~Free(<<e.name>>)
  BY <1>2 DEF CollectEnum, KeysGrow
<1> QED
  BY <1>1, <1>2

LEMMA GlobalKeys == ASSUME NEW g, AnalyzeGlobal(g) PROVE KeysGrow
<1>1. (\E entries : Declare(entries)) \/ UNCHANGED symbols
  BY DEF AnalyzeGlobal
<1>2. UNCHANGED symbols => KeysGrow
  BY DEF KeysGrow
<1> QED
  BY <1>1, <1>2, DeclareKeys

(* The scopes stay, but for what the last one holds. *)
ScopesChange ==
  \/ scopes' = scopes
  \/ scopes # <<>> /\ \E s : scopes' = Append(Front(scopes), s)

LEMMA DeclareScopes == ASSUME NEW entries, Declare(entries) PROVE ScopesChange
  BY DEF Declare, ScopesChange

LEMMA UsingScopes == ASSUME NEW path, Using(path) PROVE ScopesChange
<1>1. (\E entries : Declare(entries)) \/ UNCHANGED scopes
  BY DEF Using
<1> QED
  BY <1>1, DeclareScopes DEF ScopesChange

LEMMA GlobalScopes == ASSUME NEW g, AnalyzeGlobal(g) PROVE ScopesChange
<1>1. (\E entries : Declare(entries)) \/ UNCHANGED scopes
  BY DEF AnalyzeGlobal
<1> QED
  BY <1>1, DeclareScopes DEF ScopesChange

LEMMA ListIs == ASSUME NEW S, NEW s \in Seq(S) PROVE IsList(s)
<1>1. \A i \in 1 .. Len(s) : s[i] \in Range(s)
  BY DEF Range
<1>2. s = [i \in 1 .. Len(s) |-> s[i]] /\ Len(s) \in Nat
  OBVIOUS
<1>3. s \in Seq(Range(s))
  BY <1>1, <1>2
<1> QED
  BY <1>3 DEF IsList

LEMMA ListFront ==
  ASSUME NEW s, IsList(s), s # <<>>
  PROVE  IsList(Front(s)) /\ Len(Front(s)) = Len(s) - 1 /\ Len(s) \in Nat \ {0}
<1> DEFINE S == Range(s)
<1>1. s \in Seq(S) /\ s # <<>>
  BY DEF IsList
<1> HIDE DEF S
<1>2. Len(s) \in Nat \ {0}
  BY <1>1, EmptySeq
<1>3. SubSeq(s, 1, Len(s) - 1) \in Seq(S) /\ Len(SubSeq(s, 1, Len(s) - 1)) = Len(s) - 1
  <2>1. \A i \in 1 .. Len(s) - 1 : s[i] \in S
    BY <1>1, <1>2
  <2>2. Len(s) - 1 \in Int /\ 1 \in Int
    BY <1>2
  <2> DEFINE n == Len(s) - 1
  <2>3. /\ SubSeq(s, 1, Len(s) - 1) \in Seq(S)
        /\ Len(SubSeq(s, 1, Len(s) - 1)) = IF 1 <= Len(s) - 1 THEN (Len(s) - 1) - 1 + 1 ELSE 0
    <3>1. n \in Int /\ \A i \in 1 .. n : s[i] \in S
      BY <2>1, <2>2
    <3> HIDE DEF n, S
    <3>2. /\ SubSeq(s, 1, n) \in Seq(S)
          /\ Len(SubSeq(s, 1, n)) = IF 1 <= n THEN n - 1 + 1 ELSE 0
      BY <3>1, SubSeqProperties
    <3> QED
      BY <3>2 DEF n
  <2>4. (IF 1 <= Len(s) - 1 THEN (Len(s) - 1) - 1 + 1 ELSE 0) = Len(s) - 1
    <3>1. \A k \in Nat \ {0} : (IF 1 <= k - 1 THEN (k - 1) - 1 + 1 ELSE 0) = k - 1
      OBVIOUS
    <3> QED
      BY ONLY <1>2, <3>1
  <2> QED
    BY ONLY <2>3, <2>4
<1> QED
  BY <1>2, <1>3, ListIs DEF Front

LEMMA ListAppend ==
  ASSUME NEW s, NEW e, IsList(s)
  PROVE  IsList(Append(s, e)) /\ Len(Append(s, e)) = Len(s) + 1
<1> DEFINE S == Range(s) \cup {e}
<1>1. s \in Seq(Range(s))
  BY DEF IsList
<1>2. s \in Seq(S) /\ e \in S
  BY <1>1
<1> HIDE DEF S
<1>3. Append(s, e) \in Seq(S) /\ Len(Append(s, e)) = Len(s) + 1
  BY <1>2, AppendProperties
<1> QED
  BY <1>3, ListIs

(* The item leads the table where the text leads, and analysis opens and   *)
(* closes the scopes.                                                      *)
Moves ==
  /\ Item.kind = "enter" => EnterFrom(current, <<Item.name>>)
  /\ Item.kind = "exit" => current' = Front(current) /\ UNCHANGED spaces
  /\ Item.kind \notin {"enter", "exit"} => UNCHANGED <<current, spaces>>

ScopesMove ==
  IF phase = "collect" THEN UNCHANGED scopes
  ELSE /\ Item.kind = "enter" => scopes' = Append(scopes, << >>)
       /\ Item.kind = "exit" => scopes' = Front(scopes)
       /\ Item.kind \notin {"enter", "exit"} => ScopesChange

LEMMA MovesFollow ==
  ASSUME SpacesFollow, Placed, SpacesClosed, phase \in {"collect", "analyze"}, Moves
  PROVE  /\ SpacesClosed' /\ spaces \subseteq spaces'
         /\ current' = Here.path \o SpaceOf(Here.body, at) /\ current' \in spaces'
<1> DEFINE items == Here.body
           s == SpaceOf(items, at - 1)
<1>1. /\ Here.path \in Seq(STRING) /\ Nested(items) /\ Len(items) \in Nat \ {0}
      /\ at \in 1 .. Len(items) /\ Item = items[at]
  BY ProgramShape DEF Placed, Here, Item
<1>2. current = Here.path \o s
  <2>1. at = 1 => at - 1 = 0
    OBVIOUS
  <2> QED
    BY <2>1 DEF SpacesFollow
<1>3. s \in Seq(STRING)
  BY <1>1, SpaceIs
<1>4. current \in spaces
  BY DEF SpacesFollow
<1>5. /\ Item.kind = "enter" => SpaceOf(items, at) = s \o <<Item.name>> /\ Item.name \in STRING
      /\ Item.kind = "exit" => s # <<>> /\ SpaceOf(items, at) = Front(s)
      /\ Item.kind \notin {"enter", "exit"} => SpaceOf(items, at) = s
  BY <1>1, SpaceStep DEF Nested
<1> HIDE DEF s, items
<1>6. CASE Item.kind = "enter"
  <2>1. Item.name \in STRING /\ <<Item.name>> \in Seq(STRING)
    BY <1>5, <1>6
  <2>2. EnterFrom(current, <<Item.name>>)
    BY <1>6 DEF Moves
  <2>3. /\ SpacesClosed' /\ spaces \subseteq spaces'
        /\ current' = current \o <<Item.name>> /\ current' \in spaces'
    BY <1>4, <2>1, <2>2, EnterKeeps
  <2> DEFINE e == <<Item.name>>
  <2>4. (Here.path \o s) \o e = Here.path \o (s \o e)
    <3>1. e \in Seq(STRING)
      BY <2>1
    <3> HIDE DEF e
    <3> QED
      BY <1>1, <1>3, <3>1, PathsAssociate
  <2> QED
    BY <1>2, <1>5, <1>6, <2>3, <2>4 DEF items
<1>7. CASE Item.kind = "exit"
  <2>1. s # <<>> /\ current' = Front(current) /\ spaces' = spaces
    BY <1>5, <1>7 DEF Moves
  <2>2. current # <<>> /\ Front(current) = Here.path \o Front(s)
    BY <1>1, <1>2, <1>3, <2>1, FrontOfConcat
  <2>3. SpacesClosed' /\ current' \in spaces'
    BY <1>4, <2>1, <2>2 DEF SpacesClosed
  <2> QED
    BY <1>5, <1>7, <2>1, <2>2, <2>3 DEF items
<1>8. CASE Item.kind \notin {"enter", "exit"}
  <2>1. UNCHANGED <<current, spaces>>
    BY <1>8 DEF Moves
  <2> QED
    BY <1>2, <1>4, <1>5, <1>8, <2>1 DEF SpacesClosed, items
<1> QED
  BY <1>6, <1>7, <1>8

-----------------------------------------------------------------------------
(* The actions keep the invariant *)

(* What the type invariant says of the work after a step, for the states   *)
(* in which symbols and spaces grew as above. *)
LEMMA KeysStay ==
  ASSUME SpacesFollow, KeysGrow, spaces \subseteq spaces'
  PROVE  \A key \in DOMAIN symbols' : key[1] \in spaces'
<1> TAKE key \in DOMAIN symbols'
<1>1. CASE key \in DOMAIN symbols
  BY <1>1 DEF SpacesFollow
<1>2. CASE key[1] = current
  BY <1>2 DEF SpacesFollow
<1> QED
  BY <1>1, <1>2 DEF KeysGrow

LEMMA ScopesMoveOn ==
  ASSUME Placed, ScopesFollow, phase = "analyze", ScopesMove
  PROVE  /\ IsList(scopes') /\ Len(scopes') = Depth(Here.body, at)
         /\ scopes' = <<>> <=> Depth(Here.body, at) = 0
<1> DEFINE items == Here.body
<1>1. Nested(items) /\ Len(items) \in Nat /\ at \in 1 .. Len(items) /\ Item = items[at]
  BY ProgramShape DEF Placed, Here, Item
<1>2. IsList(scopes) /\ Len(scopes) = Depth(items, at - 1)
  BY DEF ScopesFollow
<1>3. Depth(items, at - 1) \in Nat /\ Depth(items, at) \in Nat
  BY <1>1, OpenRanked DEF Nested
<1>4. Depth(items, at) = Depth(items, at - 1) + Turn(Item)
  BY <1>1, DepthStep
<1> HIDE DEF items
<1>10. Len(scopes) # 0 => scopes # <<>>
  OBVIOUS
<1>5. CASE Item.kind = "enter"
  <2>1. scopes' = Append(scopes, << >>)
    BY <1>5 DEF ScopesMove
  <2>2. Depth(items, at) = Depth(items, at - 1) + 1
    BY <1>4, <1>5 DEF Turn
  <2>3. IsList(scopes') /\ Len(scopes') = Len(scopes) + 1
    BY ONLY <1>2, <2>1, ListAppend
  <2> QED
    BY <1>2, <2>2, <2>3 DEF items
<1>6. CASE Item.kind = "exit"
  <2>1. scopes' = Front(scopes) /\ Depth(items, at) = Depth(items, at - 1) - 1
    BY <1>3, <1>4, <1>6 DEF ScopesMove, Turn
  <2>2. scopes # <<>>
    BY <1>2, <1>3, <1>10, <2>1
  <2>3. IsList(scopes') /\ Len(scopes') = Len(scopes) - 1
    BY ONLY <1>2, <2>1, <2>2, ListFront
  <2> QED
    BY <1>2, <2>1, <2>3 DEF items
<1>7. CASE Item.kind \notin {"enter", "exit"}
  <2>1. ScopesChange /\ Depth(items, at) = Depth(items, at - 1)
    BY <1>3, <1>4, <1>7 DEF ScopesMove, Turn
  <2>2. IsList(scopes') /\ Len(scopes') = Len(scopes)
    <3>1. CASE scopes' = scopes
      BY ONLY <1>2, <3>1
    <3>2. ASSUME NEW s, scopes # <<>>, scopes' = Append(Front(scopes), s)
          PROVE  IsList(scopes') /\ Len(scopes') = Len(scopes)
      <4>1. /\ IsList(Front(scopes)) /\ Len(Front(scopes)) = Len(scopes) - 1
            /\ Len(scopes) \in Nat
        BY ONLY <1>2, <3>2, ListFront
      <4>2. IsList(scopes') /\ Len(scopes') = Len(Front(scopes)) + 1
        BY ONLY <3>2, <4>1, ListAppend
      <4> QED
        BY ONLY <4>1, <4>2
    <3> QED
      BY <2>1, <3>1, <3>2 DEF ScopesChange
  <2> QED
    BY <1>2, <2>1, <2>2 DEF items
<1>8. IsList(scopes') /\ Len(scopes') = Depth(items, at)
  BY <1>5, <1>6, <1>7 DEF items
<1>9. scopes' = <<>> <=> Len(scopes') = 0
  BY <1>8, EmptySeq DEF IsList
<1> QED
  BY <1>8, <1>9 DEF items

LEMMA ExitOpen ==
  ASSUME NamesInvariant, phase = "analyze", Item.kind = "exit"
  PROVE  scopes # <<>>
<1>1. Nested(Here.body) /\ Len(Here.body) \in Nat /\ at \in 1 .. Len(Here.body) /\ Item = Here.body[at]
  BY ProgramShape DEF NamesInvariant, Placed, Here, Item
<1>2. Depth(Here.body, at - 1) \in Nat /\ Depth(Here.body, at) \in Nat
  BY <1>1, OpenRanked DEF Nested
<1>3. Depth(Here.body, at) = Depth(Here.body, at - 1) - 1
  BY <1>1, <1>2, DepthStep DEF Turn
<1>4. Len(scopes) # 0
  BY <1>2, <1>3 DEF NamesInvariant, ScopesFollow
<1> QED
  BY <1>4

LEMMA InitHolds == Init => NamesInvariant
<1> SUFFICES ASSUME Init PROVE NamesInvariant
  OBVIOUS
<1>1. program \in Programs /\ module = 1 /\ at = 1
  BY DEF Init
<1>2. /\ Len(program) \in Nat \ {0}
      /\ \A m \in 1 .. Len(program) : Len(program[m].body) \in Nat \ {0}
  BY <1>1, ProgramShape
<1>3. SpacesFollow
  BY DEF Init, SpacesFollow
<1>4. module \in 1 .. Len(program) /\ at \in 1 .. Len(Here.body)
  BY <1>1, <1>2 DEF Here
<1>5. Placed
  BY <1>4 DEF Init, Placed
<1>6. SpacesClosed
  BY EmptySeq DEF Init, SpacesClosed
<1>7. StackFollows
  BY DEF Init, StackFollows
<1>8. ScopesFollow
  BY EmptySeq, ListIs DEF Init, ScopesFollow
<1> QED
  BY <1>3, <1>5, <1>6, <1>7, <1>8 DEF NamesInvariant

(* The item and its module, while both stay the same. *)
LEMMA HereShape ==
  ASSUME Placed
  PROVE  /\ Here.path \in Seq(STRING) /\ Nested(Here.body) /\ Len(Here.body) \in Nat \ {0}
         /\ SpaceOf(Here.body, 0) = <<>> /\ SpaceOf(Here.body, Len(Here.body)) = <<>>
         /\ at \in 1 .. Len(Here.body) /\ module \in 1 .. Len(program) /\ Len(program) \in Nat \ {0}
  BY ProgramShape DEF Placed, Here

LEMMA HideKeeps == NamesInvariant /\ Hide => NamesInvariant'
<1> SUFFICES ASSUME NamesInvariant, Hide PROVE NamesInvariant'
  OBVIOUS
<1> USE DEF NamesInvariant
<1>1. /\ phase = "hide" /\ phase' = "import" /\ EnterFrom(current, Here.path)
      /\ UNCHANGED <<program, module, at, symbols, scopes, nested>> /\ at = 1 /\ current = <<>>
      /\ Here' = Here
  BY DEF Hide, code, Placed, Here
<1>2. Here.path \in Seq(STRING)
  BY HereShape
<1>3. SpacesClosed' /\ spaces \subseteq spaces' /\ current' = current \o Here.path /\ current' \in spaces'
  BY <1>1, <1>2, EnterKeeps DEF SpacesFollow
<1>4. current' = Here.path
  BY <1>1, <1>2, <1>3, ConcatEmptySeq
<1>5. KeysGrow
  BY <1>1 DEF KeysGrow
<1>6. \A key \in DOMAIN symbols' : key[1] \in spaces'
  BY <1>3, <1>5, KeysStay
<1>7. SpacesFollow'
  BY <1>1, <1>3, <1>4, <1>6 DEF SpacesFollow
<1>8. Placed'
  BY <1>1 DEF Placed
<1>9. StackFollows' /\ ScopesFollow'
  BY <1>1 DEF StackFollows, ScopesFollow
<1> QED
  BY <1>3, <1>7, <1>8, <1>9

LEMMA ImportKeeps == NamesInvariant /\ Import => NamesInvariant'
<1> SUFFICES ASSUME NamesInvariant, Import PROVE NamesInvariant'
  OBVIOUS
<1> USE DEF NamesInvariant
<1>1. /\ phase = "import" /\ Advance("collect") /\ Here' = Here
      /\ UNCHANGED <<program, module, current, spaces, nested>>
  BY DEF Import, code, Here
<1>2. /\ Here.path \in Seq(STRING) /\ Len(Here.body) \in Nat \ {0} /\ at \in 1 .. Len(Here.body)
      /\ SpaceOf(Here.body, 0) = <<>>
  BY HereShape
<1>3. KeysGrow
  <2>1. Using(Item.path) \/ UNCHANGED symbols
    BY DEF Import
  <2>2. CASE Using(Item.path)
    BY <2>2, UsingKeys
  <2>3. CASE UNCHANGED symbols
    BY <2>3 DEF KeysGrow
  <2> QED
    BY <2>1, <2>2, <2>3
<1>4. \A key \in DOMAIN symbols' : key[1] \in spaces'
  BY <1>1, <1>3, KeysStay
<1>5. current' = Here.path /\ current' \in spaces'
  BY <1>1 DEF SpacesFollow
<1>6. Here.path \o <<>> = Here.path
  BY <1>2, ConcatEmptySeq
<1>7. \/ at < Len(Here.body) /\ at' = at + 1 /\ phase' = "import"
      \/ at' = 1 /\ phase' = "collect"
  BY <1>1 DEF Advance
<1>8. SpacesFollow'
  BY <1>1, <1>2, <1>4, <1>5, <1>6, <1>7 DEF SpacesFollow
<1>9. Placed'
  BY <1>1, <1>2, <1>7 DEF Placed
<1>10. SpacesClosed' /\ StackFollows'
  BY <1>1, <1>7 DEF SpacesClosed, StackFollows
<1>11. ScopesFollow'
  <2>1. scopes = <<>> /\ IsList(scopes) /\ Len(scopes) = 0
    BY <1>1, EmptySeq DEF ScopesFollow, IsList
  <2>2. ScopesChange
    BY UsingScopes DEF Import, ScopesChange
  <2>3. scopes' = scopes
    BY <2>1, <2>2 DEF ScopesChange
  <2>4. Depth(Here.body, 0) = 0
    BY DepthZero
  <2> QED
    BY <1>1, <1>7, <2>1, <2>3, <2>4 DEF ScopesFollow
<1> QED
  BY <1>8, <1>9, <1>10, <1>11

(* The two passes that follow the nesting go on to the next item, or to    *)
(* the next phase where everything is closed again.                        *)
LEMMA PassKeeps ==
  ASSUME NamesInvariant, phase \in {"collect", "analyze"}, Moves, ScopesMove, KeysGrow,
         UNCHANGED <<program, module, nested>>,
         Advance(IF phase = "collect" THEN "analyze" ELSE "leave")
  PROVE  NamesInvariant'
<1> USE DEF NamesInvariant
<1>1. /\ SpacesClosed' /\ spaces \subseteq spaces' /\ current' \in spaces'
      /\ current' = Here.path \o SpaceOf(Here.body, at) /\ Here' = Here
  BY MovesFollow DEF Here
<1>2. /\ Len(Here.body) \in Nat \ {0} /\ at \in 1 .. Len(Here.body)
      /\ SpaceOf(Here.body, 0) = <<>> /\ SpaceOf(Here.body, Len(Here.body)) = <<>>
  BY HereShape
<1>3. \A key \in DOMAIN symbols' : key[1] \in spaces'
  BY <1>1, KeysStay
<1>4. \/ at < Len(Here.body) /\ at' = at + 1 /\ phase' = phase
      \/ at' = 1 /\ at = Len(Here.body) /\ phase = "collect" /\ phase' = "analyze"
      \/ at' = 1 /\ phase = "analyze" /\ phase' = "leave"
  BY <1>2 DEF Advance
<1>5. SpacesFollow'
  <2>1. CASE at < Len(Here.body) /\ at' = at + 1 /\ phase' = phase
    <3>1. at' # 1 /\ at' - 1 = at
      BY <1>2, <2>1
    <3> QED
      BY <1>1, <1>3, <2>1, <3>1 DEF SpacesFollow
  <2>2. CASE at' = 1 /\ at = Len(Here.body) /\ phase = "collect" /\ phase' = "analyze"
    BY <1>1, <1>2, <1>3, <2>2 DEF SpacesFollow
  <2>3. CASE at' = 1 /\ phase = "analyze" /\ phase' = "leave"
    BY <1>1, <1>3, <2>3 DEF SpacesFollow
  <2> QED
    BY <1>4, <2>1, <2>2, <2>3
<1>6. Placed'
  BY <1>1, <1>2, <1>4 DEF Placed
<1>7. StackFollows'
  BY <1>4 DEF StackFollows
<1>8. ScopesFollow'
  <2>1. Depth(Here.body, 0) = 0 /\ Depth(Here.body, Len(Here.body)) = 0
    BY DepthZero, ProgramsAssumption DEF Placed, Here, IsModule
  <2>2. CASE phase = "collect"
    BY <1>1, <1>4, <2>1, <2>2 DEF ScopesFollow, ScopesMove
  <2>3. CASE phase = "analyze"
    <3>1. IsList(scopes') /\ Len(scopes') = Depth(Here.body, at)
      BY <2>3, ScopesMoveOn
    <3>2. \/ at' - 1 = at /\ phase' = "analyze"
          \/ at = Len(Here.body) /\ phase' = "leave"
      BY <1>2, <2>3 DEF Advance
    <3> QED
      BY <1>1, <2>1, <3>1, <3>2 DEF ScopesFollow
  <2> QED
    BY <2>2, <2>3
<1> QED
  BY <1>1, <1>5, <1>6, <1>7, <1>8

LEMMA CollectKeeps == NamesInvariant /\ Collect => NamesInvariant'
<1> SUFFICES ASSUME NamesInvariant, Collect PROVE NamesInvariant'
  OBVIOUS
<1>1. phase = "collect" /\ Advance("analyze") /\ UNCHANGED <<program, module, nested>>
  BY DEF Collect, code
<1>2. Moves /\ ScopesMove
  BY DEF Collect, Moves, ScopesMove, table
<1>3. KeysGrow
  <2>1. \/ UNCHANGED symbols \/ CollectFunction(Item) \/ CollectStruct(Item) \/ CollectEnum(Item)
    BY DEF Collect, table
  <2>2. UNCHANGED symbols => KeysGrow
    BY DEF KeysGrow
  <2> QED
    BY <2>1, <2>2, FunctionKeys, StructKeys, EnumKeys
<1> QED
  BY <1>1, <1>2, <1>3, PassKeeps

LEMMA AnalyzeKeeps == NamesInvariant /\ Analyze => NamesInvariant'
<1> SUFFICES ASSUME NamesInvariant, Analyze PROVE NamesInvariant'
  OBVIOUS
<1>1. phase = "analyze" /\ Advance("leave") /\ UNCHANGED <<program, module, nested>>
  BY DEF Analyze, code
<1>2. Moves /\ ScopesMove
  <2>1. Moves
    BY DEF Analyze, Moves, table
  <2>2. Item.kind \notin {"enter", "exit"} => UNCHANGED scopes \/ AnalyzeGlobal(Item) \/ Using(Item.path)
    BY DEF Analyze, table
  <2>3. Item.kind \notin {"enter", "exit"} => ScopesChange
    BY <2>2, GlobalScopes, UsingScopes DEF ScopesChange
  <2> QED
    BY <1>1, <2>1, <2>3 DEF Analyze, ScopesMove
<1>3. KeysGrow
  <2>1. \/ UNCHANGED symbols \/ AnalyzeGlobal(Item) \/ Using(Item.path)
    BY DEF Analyze, table
  <2>2. UNCHANGED symbols => KeysGrow
    BY DEF KeysGrow
  <2> QED
    BY <2>1, <2>2, GlobalKeys, UsingKeys
<1> QED
  BY <1>1, <1>2, <1>3, PassKeeps

LEMMA LeaveKeeps == NamesInvariant /\ Leave => NamesInvariant'
<1> SUFFICES ASSUME NamesInvariant, Leave PROVE NamesInvariant'
  OBVIOUS
<1> USE DEF NamesInvariant
<1>1. /\ phase = "leave" /\ current' = <<>> /\ at = 1
      /\ UNCHANGED <<program, at, spaces, symbols, scopes, nested>>
  BY DEF Leave, code, Placed
<1>2. \/ phase' = "failed" /\ module' = module
      \/ module < Len(program) /\ phase' = "hide" /\ module' = module + 1
      \/ phase' = "register" /\ module' = 1
  BY DEF Leave
<1>3. module \in 1 .. Len(program) /\ Len(program) \in Nat \ {0} /\ program \in Programs
  BY HereShape DEF Placed
<1>4. module' \in 1 .. Len(program)
  BY <1>2, <1>3
<1>5. Here' = program[module']
  BY <1>1 DEF Here
<1>6. at' \in 1 .. Len(Here'.body)
  BY <1>1, <1>3, <1>4, <1>5, ProgramShape
<1>7. SpacesFollow'
  BY <1>1, <1>2 DEF SpacesFollow, SpacesClosed
<1>8. Placed'
  BY <1>1, <1>2, <1>3, <1>4, <1>6 DEF Placed
<1>9. SpacesClosed' /\ StackFollows' /\ ScopesFollow'
  BY <1>1, <1>2 DEF SpacesClosed, StackFollows, ScopesFollow
<1> QED
  BY <1>7, <1>8, <1>9

LEMMA RegisterKeeps == NamesInvariant /\ Register => NamesInvariant'
<1> SUFFICES ASSUME NamesInvariant, Register PROVE NamesInvariant'
  OBVIOUS
<1> USE DEF NamesInvariant
<1>1. /\ phase = "register" /\ phase' = "generate" /\ EnterFrom(current, Here.path)
      /\ UNCHANGED <<program, module, at, symbols, scopes, nested>> /\ at = 1 /\ current = <<>>
      /\ Here' = Here
  BY DEF Register, Placed, Here
<1>2. /\ Here.path \in Seq(STRING) /\ Len(Here.body) \in Nat \ {0}
      /\ SpaceOf(Here.body, 0) = <<>>
  BY HereShape
<1>3. SpacesClosed' /\ spaces \subseteq spaces' /\ current' = current \o Here.path /\ current' \in spaces'
  BY <1>1, <1>2, EnterKeeps DEF SpacesFollow
<1>4. current' = Here.path
  BY <1>1, <1>2, <1>3, ConcatEmptySeq
<1>5. KeysGrow
  BY <1>1 DEF KeysGrow
<1>6. \A key \in DOMAIN symbols' : key[1] \in spaces'
  BY <1>3, <1>5, KeysStay
<1>7. SpacesFollow'
  BY <1>1, <1>2, <1>3, <1>4, <1>6 DEF SpacesFollow
<1>8. Placed'
  BY <1>1 DEF Placed
<1>9. StackFollows' /\ ScopesFollow'
  BY <1>1, <1>2 DEF StackFollows, ScopesFollow
<1> QED
  BY <1>3, <1>7, <1>8, <1>9

LEMMA GenerateKeeps == NamesInvariant /\ Generate => NamesInvariant'
<1> SUFFICES ASSUME NamesInvariant, Generate PROVE NamesInvariant'
  OBVIOUS
<1> USE DEF NamesInvariant
<1> DEFINE items == Here.body
<1>1. phase = "generate" /\ UNCHANGED <<program, symbols>>
  BY DEF Generate
<1>8. ScopesFollow'
  <2>1. phase' \in {"generate", "compiled", "failed"} /\ UNCHANGED scopes
    BY <1>1 DEF Generate
  <2> QED
    BY <1>1, <2>1 DEF ScopesFollow
<1>2. /\ Nested(items) /\ Len(items) \in Nat \ {0} /\ at \in 1 .. Len(items) /\ Item = items[at]
      /\ SpaceOf(items, Len(items)) = <<>>
      /\ module \in 1 .. Len(program) /\ Len(program) \in Nat \ {0} /\ program \in Programs
  BY HereShape DEF Item, Placed
<1>3. nested = SpaceOf(items, at - 1) /\ current = Here.path /\ current \in spaces
  BY <1>1 DEF StackFollows, SpacesFollow
<1>4. nested' = SpaceOf(items, at)
  <2>1. /\ Item.kind = "enter" => nested' = Append(nested, Item.name)
        /\ Item.kind = "exit" => nested' = Front(nested)
        /\ Item.kind \notin {"enter", "exit"} => nested' = nested
    BY DEF Generate, GenerateBodies
  <2>2. /\ Item.kind = "enter" => SpaceOf(items, at) = nested \o <<Item.name>> /\ Item.name \in STRING
        /\ Item.kind = "exit" => SpaceOf(items, at) = Front(nested)
        /\ Item.kind \notin {"enter", "exit"} => SpaceOf(items, at) = nested
    BY <1>2, <1>3, SpaceStep DEF Nested
  <2>3. nested \in Seq(STRING)
    BY <1>2, <1>3, SpaceIs
  <2>4. Item.kind = "enter" => Append(nested, Item.name) = nested \o <<Item.name>>
    BY <2>2, <2>3, AppendIsConcat
  <2> QED
    BY <2>1, <2>2, <2>4
<1>5. CASE at < Len(items)
  <2>1. at' = at + 1 /\ UNCHANGED <<phase, module, current, spaces>> /\ Here' = Here
    BY <1>1, <1>5 DEF Generate, Here
  <2>2. at' - 1 = at /\ at' \in 1 .. Len(items)
    BY <1>2, <1>5, <2>1
  <2>3. SpacesFollow'
    BY <1>1, <1>2, <1>3, <1>5, <2>1, <2>2 DEF SpacesFollow
  <2>4. Placed' /\ StackFollows' /\ SpacesClosed'
    BY <1>1, <1>2, <1>4, <2>1, <2>2 DEF Placed, StackFollows, SpacesClosed
  <2> QED
    BY <1>8, <2>3, <2>4
<1>6. CASE ~(at < Len(items)) /\ module < Len(program)
  <2> DEFINE next == program[module + 1]
  <2>1. /\ at' = 1 /\ module' = module + 1 /\ UNCHANGED phase /\ EnterFrom(<<>>, next.path)
        /\ Here' = next
    BY <1>1, <1>6 DEF Generate, Here
  <2>2. /\ module' \in 1 .. Len(program) /\ next.path \in Seq(STRING)
        /\ Len(next.body) \in Nat \ {0} /\ SpaceOf(next.body, 0) = <<>>
    BY <1>2, <1>6, <2>1, ProgramShape
  <2> HIDE DEF next
  <2>3. SpacesClosed' /\ spaces \subseteq spaces' /\ current' = <<>> \o next.path /\ current' \in spaces'
    BY <2>1, <2>2, EnterKeeps DEF SpacesClosed
  <2>4. current' = next.path
    BY <2>2, <2>3, ConcatEmptySeq
  <2>5. at = Len(items) /\ nested' = <<>>
    BY <1>2, <1>4, <1>6
  <2>6. KeysGrow
    BY <1>1 DEF KeysGrow
  <2>7. \A key \in DOMAIN symbols' : key[1] \in spaces'
    BY <2>3, <2>6, KeysStay
  <2>8. SpacesFollow'
    BY <1>1, <2>1, <2>2, <2>3, <2>4, <2>7 DEF SpacesFollow
  <2>9. Placed' /\ StackFollows'
    BY <1>1, <1>2, <2>1, <2>2, <2>5 DEF Placed, StackFollows
  <2> QED
    BY <1>8, <2>3, <2>8, <2>9
<1>7. CASE ~(at < Len(items)) /\ ~(module < Len(program))
  <2>1. /\ at' = 1 /\ phase' \in {"compiled", "failed"} /\ current' = <<>>
        /\ UNCHANGED <<module, spaces>> /\ Here' = Here
    BY <1>1, <1>7 DEF Generate, Here
  <2>2. nested' = <<>>
    BY <1>2, <1>4, <1>7
  <2>3. SpacesFollow'
    BY <1>1, <2>1 DEF SpacesFollow, SpacesClosed
  <2>4. Placed' /\ StackFollows' /\ SpacesClosed'
    BY <1>1, <1>2, <2>1, <2>2 DEF Placed, StackFollows, SpacesClosed
  <2> QED
    BY <1>8, <2>3, <2>4
<1> QED
  BY <1>5, <1>6, <1>7

LEMMA StutterKeeps == NamesInvariant /\ UNCHANGED vars => NamesInvariant'
  BY DEF NamesInvariant, vars, table, code, SpacesFollow, Placed, SpacesClosed, StackFollows,
         ScopesFollow, Here

(* The inductive invariant: the namespaces the compiler is in are those    *)
(* the text is in, in each of its passes over each of the modules.         *)
THEOREM NamespacesFollowTheText == Spec => []NamesInvariant
<1>1. Init => NamesInvariant
  BY InitHolds
<1>2. NamesInvariant /\ [Next]_vars => NamesInvariant'
  BY HideKeeps, ImportKeeps, CollectKeeps, AnalyzeKeeps, LeaveKeeps, RegisterKeeps, GenerateKeeps,
     StutterKeeps DEF Next
<1> QED
  BY <1>1, <1>2, PTL DEF Spec

(* Whatever the program: the current namespace is one that exists, so is   *)
(* that of each symbol, and collection and analysis are in the namespace   *)
(* of the item they are at: enter_namespace and leave_namespace pair up.   *)
THEOREM NamesTypeCorrect == Spec => []TypeOK
<1>1. NamesInvariant => TypeOK
  BY DEF NamesInvariant, TypeOK
<1> QED
  BY <1>1, NamespacesFollowTheText, PTL

-----------------------------------------------------------------------------
(* Both passes see every use *)

(* The uses in the bodies of item i of module m, with their namespaces as  *)
(* the text has them. *)
Bodies(d) == IF d.kind = "func" THEN {d} ELSE IF d.kind = "struct" THEN Range(d.methods) ELSE {}

Use(m, i, f, u) ==
  [module |-> program[m].path, space |-> program[m].path \o SpaceOf(program[m].body, i),
   struct |-> f.struct, func |-> f.name, use |-> f.uses[u], imports |-> f.imports, number |-> u]

UsesOf(m, i) ==
  UNION {{Use(m, i, f, u) : u \in DOMAIN f.uses} : f \in {g \in Bodies(program[m].body[i]) : g.defined}}

Before(k, i, m, n) ==
  k \in 1 .. Len(program) /\ i \in 1 .. Len(program[k].body) /\ (k < m \/ (k = m /\ i < n))

Analyzed(m, n) ==
  errors = {} => \A k, i \in Nat : Before(k, i, m, n) => UsesOf(k, i) \subseteq {b.site : b \in bound}

Written(m, n) ==
  \A s : s \in {g.site : g \in generated} <=> \E k, i \in Nat : Before(k, i, m, n) /\ s \in UsesOf(k, i)

(* What analysis found, is of the kind of the use, and is visible there.   *)
Accepted(b) ==
  /\ b.symbol # Nothing /\ Fits(b.site.use, b.symbol)
  /\ ~(b.symbol.private /\ b.symbol.owner # b.site.module)

(* What the code refers to exists. *)
Known(g) ==
  /\ g.symbol # Nothing
  /\ g.site.use.call => g.symbol.kind = "func"
  /\ g.symbol.kind = "func" => g.symbol.home \in functions
  /\ g.symbol.kind = "global" => g.symbol.home \in globals

BoundInOrder ==
  /\ phase \in {"hide", "import", "collect"} => Analyzed(module, 1)
  /\ phase = "analyze" => Analyzed(module, at)
  /\ phase = "leave" => Analyzed(module + 1, 1)
  /\ phase \in {"register", "generate", "compiled"} => Analyzed(Len(program) + 1, 1)

WrittenInOrder ==
  /\ phase \in {"hide", "import", "collect", "analyze", "leave", "register"} => generated = {}
  /\ phase = "generate" => Written(module, at)
  /\ phase = "compiled" => Written(Len(program) + 1, 1)

CleanUses ==
  /\ phase = "register" => errors = {}
  /\ phase = "compiled" => errors = {}
  /\ errors = {} => (\A b \in bound : Accepted(b)) /\ (\A g \in generated : Known(g))

UsesInvariant == NamesInvariant /\ BoundInOrder /\ WrittenInOrder /\ CleanUses

(* The functions and values a compiled program refers to: each exists, and *)
(* each reference is one analysis found a declaration for, of the right    *)
(* kind and visible; no body of the text is left out.                      *)
CompiledUsesChecked ==
  phase = "compiled" =>
    /\ \A g \in generated : Known(g) /\ \E b \in bound : b.site = g.site /\ Accepted(b)
    /\ \A m \in 1 .. Len(program) : \A i \in 1 .. Len(program[m].body) :
         UsesOf(m, i) \subseteq {g.site : g \in generated}

(* One item further, or at the next module once all of the items are done. *)
LEMMA BeforeNext ==
  ASSUME NamesInvariant
  PROVE  /\ \A k, i \in Nat : Before(k, i, module, at + 1) <=>
              Before(k, i, module, at) \/ (k = module /\ i = at)
         /\ at = Len(Here.body) => \A k, i \in Nat :
              Before(k, i, module + 1, 1) <=> Before(k, i, module, at + 1)
  BY HereShape DEF NamesInvariant, Before, Here

LEMMA LookupKind == ASSUME NEW path, NEW s PROVE FunctionId(path, s) = Nothing
                      \/ (FunctionId(path, s).kind = "func" /\ FunctionId(path, s).home \in functions)
<1> DEFINE first == << path, current \o nested \o path, current \o path >>
           owned == << s.owner \o path >>
           candidates == first \o (IF s.kind = "func" THEN owned ELSE << >>)
           known == {i \in DOMAIN candidates : candidates[i] \in functions}
<1>1. DOMAIN candidates \subseteq Nat
  <2> DEFINE S == {path, current \o nested \o path, current \o path, s.owner \o path}
  <2>1. first \in Seq(S) /\ owned \in Seq(S) /\ << >> \in Seq(S)
    OBVIOUS
  <2> HIDE DEF first, owned, S
  <2>2. candidates \in Seq(S)
    BY <2>1, ConcatProperties
  <2> QED
    BY <2>2
<1>2. FunctionId(path, s) = IF known = {} THEN Nothing ELSE [kind |-> "func", home |-> candidates[Min(known)]]
  BY DEF FunctionId
<1> HIDE DEF candidates
<1>3. known # {} => Min(known) \in known
  <2> SUFFICES ASSUME known # {} PROVE Min(known) \in known
    OBVIOUS
  <2>1. known \subseteq Nat
    BY <1>1
  <2> HIDE DEF known
  <2>2. \E x \in known : \A y \in known : x <= y
    BY <2>1, LeastOf
  <2> QED
    BY <2>2 DEF Min
<1>4. known # {} => candidates[Min(known)] \in functions
  BY <1>3
<1> HIDE DEF known
<1> QED
  BY <1>2, <1>4

LEMMA ReferenceKnown ==
  ASSUME NEW f, NEW use, Reference(f, use) # Nothing
  PROVE  LET r == Reference(f, use)
         IN  /\ use.call => r.kind = "func"
             /\ r.kind = "func" => r.home \in functions
             /\ r.kind = "global" => r.home \in globals
<1>1. CASE use.call
  <2>1. \E path, s : Reference(f, use) = FunctionId(path, s)
    BY <1>1 DEF Reference, CallId
  <2>2. PICK path, s : Reference(f, use) = FunctionId(path, s)
    BY <2>1
  <2>3. FunctionId(path, s).kind = "func" /\ FunctionId(path, s).home \in functions
    BY <2>2, LookupKind
  <2> QED
    BY <2>2, <2>3
<1>2. CASE ~use.call
  <2> DEFINE symbol == Resolve(symbols, << >>, current, use.path)
  <2>1. \/ Reference(f, use) = [kind |-> "const", home |-> symbol.home]
        \/ /\ symbol.owner \o use.path \in globals
           /\ Reference(f, use) = [kind |-> "global", home |-> symbol.owner \o use.path]
    BY <1>2 DEF Reference, ValueId
  <2> DEFINE h == symbol.home
             full == symbol.owner \o use.path
  <2>2. \/ Reference(f, use) = [kind |-> "const", home |-> h]
        \/ full \in globals /\ Reference(f, use) = [kind |-> "global", home |-> full]
    BY <2>1
  <2> HIDE DEF h, full
  <2>3. CASE Reference(f, use) = [kind |-> "const", home |-> h]
    BY <1>2, <2>3
  <2>4. CASE full \in globals /\ Reference(f, use) = [kind |-> "global", home |-> full]
    BY <1>2, <2>4
  <2> QED
    BY <2>2, <2>3, <2>4
<1> QED
  BY <1>1, <1>2

(* At an item with bodies the passes are in the namespace of its text. *)
LEMMA UseHere ==
  ASSUME NamesInvariant, Item.kind \in {"func", "struct"}, NEW f, NEW u
  PROVE  /\ phase = "analyze" => Site(current, f, u) = Use(module, at, f, u)
         /\ phase = "generate" => Site(current \o nested, f, u) = Use(module, at, f, u)
<1>1. /\ Nested(Here.body) /\ at \in 1 .. Len(Here.body) /\ Len(Here.body) \in Nat
      /\ Item = Here.body[at] /\ Here = program[module]
  BY HereShape DEF NamesInvariant, Item, Here
<1>2. Item.kind \notin {"enter", "exit"}
  OBVIOUS
<1>3. SpaceOf(Here.body, at) = SpaceOf(Here.body, at - 1)
  BY <1>1, <1>2, SpaceStep
<1>4. phase = "analyze" => current = Here.path \o SpaceOf(Here.body, at)
  <2>1. at = 1 => at - 1 = 0
    OBVIOUS
  <2> QED
    BY <1>3, <2>1 DEF NamesInvariant, SpacesFollow
<1>5. phase = "generate" => current \o nested = Here.path \o SpaceOf(Here.body, at)
  BY <1>3 DEF NamesInvariant, SpacesFollow, StackFollows
<1> QED
  BY <1>1, <1>4, <1>5 DEF Site, Use

LEMMA NoWrongUse ==
  ASSUME NEW f, NEW use, Wrong(f, use) = {}
  PROVE  LET symbol == Target(f, use)
         IN  /\ symbol # Nothing /\ Fits(use, symbol)
             /\ ~(symbol.private /\ symbol.owner # Here.path)
  BY DEF Wrong, CheckVisibility

LEMMA AnalyzeItem ==
  ASSUME NamesInvariant, Analyze
  PROVE  /\ bound \subseteq bound' /\ errors \subseteq errors'
         /\ errors' = {} => /\ UsesOf(module, at) \subseteq {b.site : b \in bound'}
                            /\ \A b \in bound' \ bound : Accepted(b)
<1>1. phase = "analyze" /\ Item = program[module].body[at]
  BY DEF Analyze, Item, Here
<1> DEFINE Found(f, u) == [site |-> Site(current, f, u), symbol |-> Target(f, f.uses[u])]
(* What holds of a use without an error. *)
<1>2. ASSUME NEW f, NEW u, Wrong(f, f.uses[u]) = {} PROVE Accepted(Found(f, u))
  <2>1. /\ Found(f, u).site.use = f.uses[u] /\ Found(f, u).site.module = Here.path
        /\ Found(f, u).symbol = Target(f, f.uses[u])
    BY DEF Site
  <2> HIDE DEF Found
  <2> QED
    BY <1>2, <2>1, NoWrongUse DEF Accepted
<1>3. CASE Item.kind = "func"
  <2> DEFINE uses == IF Item.defined THEN DOMAIN Item.uses ELSE {}
  <2>1. AnalyzeFunction(Item)
    BY <1>3 DEF Analyze
  <2>2. /\ errors' = errors \cup {Error("namespace not found") : i \in Missing(Item)}
                       \cup UNION {Wrong(Item, Item.uses[u]) : u \in uses}
        /\ bound' = bound \cup {Found(Item, u) : u \in uses}
    BY <2>1 DEF AnalyzeFunction
  <2>3. ASSUME errors' = {}, NEW s \in UsesOf(module, at) PROVE s \in {b.site : b \in bound'}
    <3>1. PICK u \in DOMAIN Item.uses : Item.defined /\ s = Use(module, at, Item, u)
      BY <1>1, <1>3 DEF UsesOf, Bodies
    <3>2. s = Found(Item, u).site /\ Found(Item, u) \in bound'
      BY <1>1, <1>3, <2>2, <3>1, UseHere
    <3> QED
      BY <3>2
  <2>4. ASSUME errors' = {}, NEW b \in bound' \ bound PROVE Accepted(b)
    <3>1. PICK u \in uses : b = Found(Item, u)
      BY <2>2, <2>4
    <3>2. Wrong(Item, Item.uses[u]) = {}
      BY <2>2, <2>4
    <3> HIDE DEF Found
    <3> QED
      BY <1>2, <3>1, <3>2
  <2> QED
    BY <2>2, <2>3, <2>4
<1>4. CASE Item.kind = "struct"
  <2>1. AnalyzeStruct(Item)
    BY <1>4 DEF Analyze
  <2> DEFINE met == {m \in DOMAIN Item.methods : IsMethod(Item.methods[m])}
  <2>2. /\ errors' = errors \cup {Error("no method of the struct") : m \in DOMAIN Item.methods \ met}
                       \cup (UNION {{Error("namespace not found") : i \in Missing(Item.methods[m])} : m \in met})
                       \cup UNION {UNION {Wrong(Item.methods[m], Item.methods[m].uses[u]) :
                                     u \in DOMAIN Item.methods[m].uses} : m \in met}
        /\ bound' = bound \cup UNION {{Found(Item.methods[m], u) :
                                   u \in DOMAIN Item.methods[m].uses} : m \in met}
    BY <2>1 DEF AnalyzeStruct
  <2>5. errors' = {} => met = DOMAIN Item.methods
    <3>1. {Error("no method of the struct") : m \in DOMAIN Item.methods \ met} \subseteq errors'
      BY <2>2
    <3> HIDE DEF met
    <3>2. errors' = {} => DOMAIN Item.methods \ met = {}
      BY <3>1
    <3>3. met \subseteq DOMAIN Item.methods
      BY DEF met
    <3> QED
      BY <3>2, <3>3
  <2> HIDE DEF met
  <2>3. ASSUME errors' = {}, NEW s \in UsesOf(module, at) PROVE s \in {b.site : b \in bound'}
    <3>1. PICK f \in Range(Item.methods) : \E u \in DOMAIN f.uses : s = Use(module, at, f, u)
      BY <1>1, <1>4 DEF UsesOf, Bodies
    <3>2. PICK m \in DOMAIN Item.methods : f = Item.methods[m]
      BY DEF Range
    <3>3. PICK u \in DOMAIN Item.methods[m].uses : s = Use(module, at, Item.methods[m], u)
      BY <3>1, <3>2
    <3>4. s = Found(Item.methods[m], u).site
      BY <1>1, <1>4, <3>3, UseHere
    <3>6. m \in met
      BY <2>3, <2>5
    <3>7. Found(Item.methods[m], u) \in {Found(Item.methods[m], v) : v \in DOMAIN Item.methods[m].uses}
      OBVIOUS
    <3>5. Found(Item.methods[m], u) \in bound'
      BY <2>2, <3>6, <3>7
    <3> HIDE DEF Found
    <3> QED
      BY <3>4, <3>5
  <2>4. ASSUME errors' = {}, NEW b \in bound' \ bound PROVE Accepted(b)
    <3>1. PICK m \in met : \E u \in DOMAIN Item.methods[m].uses :
            b = Found(Item.methods[m], u)
      <4> HIDE DEF Found
      <4> DEFINE new == UNION {{Found(Item.methods[k], v) : v \in DOMAIN Item.methods[k].uses} : k \in met}
      <4>1. b \in new
        <5>1. bound' = bound \cup new
          BY <2>2
        <5> HIDE DEF new
        <5> QED
          BY <2>4, <5>1
      <4> QED
        BY <4>1
    <3>2. PICK u \in DOMAIN Item.methods[m].uses : b = Found(Item.methods[m], u)
      BY <3>1
    <3>3. Wrong(Item.methods[m], Item.methods[m].uses[u]) \subseteq errors'
      <4>1. UNION {UNION {Wrong(Item.methods[k], Item.methods[k].uses[v]) :
                            v \in DOMAIN Item.methods[k].uses} : k \in met} \subseteq errors'
        BY <2>2
      <4> QED
        BY <4>1
    <3>4. Wrong(Item.methods[m], Item.methods[m].uses[u]) = {}
      BY <2>4, <3>3
    <3> HIDE DEF Found
    <3> QED
      BY <1>2, <3>2, <3>4
  <2> QED
    BY <2>2, <2>3, <2>4
<1>5. CASE Item.kind \notin {"func", "struct"}
  <2>1. bound' = bound
    BY <1>5 DEF Analyze
  <2>2. errors \subseteq errors'
    BY <1>5 DEF Analyze, AnalyzeGlobal, Using
  <2>3. UsesOf(module, at) = {}
    BY <1>1, <1>5 DEF UsesOf, Bodies
  <2> QED
    BY <2>1, <2>2, <2>3
<1> QED
  BY <1>3, <1>4, <1>5

LEMMA GenerateItem ==
  ASSUME NamesInvariant, Generate
  PROVE  /\ \A s : s \in {g.site : g \in generated'} <=>
                     s \in {g.site : g \in generated} \/ s \in UsesOf(module, at)
         /\ errors \subseteq errors'
         /\ generated \subseteq generated'
         /\ errors' = {} => \A g \in generated' \ generated : Known(g)
<1>1. phase = "generate" /\ Item = program[module].body[at]
  BY DEF Generate, Item, Here
<1> DEFINE Made(f, u) == [site |-> Site(current \o nested, f, u), symbol |-> Reference(f, f.uses[u])]
<1>2. ASSUME NEW f, NEW u, Reference(f, f.uses[u]) # Nothing PROVE Known(Made(f, u))
  <2>1. Made(f, u).site.use = f.uses[u] /\ Made(f, u).symbol = Reference(f, f.uses[u])
    BY DEF Site
  <2> HIDE DEF Made
  <2> QED
    BY <1>2, <2>1, ReferenceKnown DEF Known
<1>3. ASSUME Item.kind \in {"func", "struct"}
      PROVE  GenerateBodies(Bodies(Item))
  <2>1. CASE Item.kind = "func"
    BY <2>1 DEF Generate, Bodies
  <2>2. CASE Item.kind = "struct"
    BY <2>2 DEF Generate, Bodies
  <2> QED
    BY <1>3, <2>1, <2>2
<1>4. CASE Item.kind \in {"func", "struct"}
  <2> DEFINE fs == {g \in Bodies(Item) : g.defined}
             new == Generated(Bodies(Item))
  <2>1. new = UNION {{Made(f, u) : u \in DOMAIN f.uses} : f \in fs}
    BY DEF Generated
  <2>2. /\ generated' = generated \cup new
        /\ errors' = errors \cup {Error("undefined") : x \in {y \in new : y.symbol = Nothing}}
    BY <1>3, <1>4 DEF GenerateBodies
  <2>3. UsesOf(module, at) = UNION {{Use(module, at, f, u) : u \in DOMAIN f.uses} : f \in fs}
    BY <1>1 DEF UsesOf
  <2>4. \A f, u : Made(f, u).site = Use(module, at, f, u)
    BY <1>1, <1>4, UseHere
  <2>5. \A f, u : Made(f, u).symbol = Reference(f, f.uses[u])
    OBVIOUS
  <2> HIDE DEF new, fs, Made
  <2>6. ASSUME NEW s PROVE s \in {g.site : g \in new} <=> s \in UsesOf(module, at)
    <3>1. ASSUME NEW g \in new, s = g.site PROVE s \in UsesOf(module, at)
      <4>1. PICK f \in fs : \E u \in DOMAIN f.uses : g = Made(f, u)
        BY <2>1
      <4> QED
        BY <2>3, <2>4, <3>1, <4>1
    <3>2. ASSUME s \in UsesOf(module, at) PROVE s \in {g.site : g \in new}
      <4>1. PICK f \in fs : \E u \in DOMAIN f.uses : s = Use(module, at, f, u)
        BY <2>3, <3>2
      <4>2. PICK u \in DOMAIN f.uses : s = Use(module, at, f, u)
        BY <4>1
      <4>3. Made(f, u) \in new
        BY <2>1
      <4> QED
        BY <2>4, <4>2, <4>3
    <3> QED
      BY <3>1, <3>2
  <2>7. ASSUME errors' = {}, NEW g \in new PROVE Known(g)
    <3>1. PICK f \in fs : \E u \in DOMAIN f.uses : g = Made(f, u)
      BY <2>1
    <3>2. PICK u \in DOMAIN f.uses : g = Made(f, u)
      BY <3>1
    <3>3. g.symbol # Nothing
      BY <2>2, <2>7
    <3> QED
      BY <1>2, <2>5, <3>2, <3>3
  <2> QED
    BY <2>2, <2>6, <2>7
<1>5. CASE Item.kind \notin {"func", "struct"}
  <2>1. generated' = generated /\ errors' = errors
    BY <1>5 DEF Generate
  <2>2. UsesOf(module, at) = {}
    BY <1>1, <1>5 DEF UsesOf, Bodies
  <2> QED
    BY <2>1, <2>2
<1> QED
  BY <1>4, <1>5

(* What was analyzed and accepted stays so while the table grows. *)
LEMMA AnalyzedGrows ==
  ASSUME NEW m, NEW n, Analyzed(m, n), bound \subseteq bound', errors \subseteq errors', UNCHANGED program
  PROVE  Analyzed(m, n)'
<1> SUFFICES ASSUME errors' = {}, NEW k \in Nat, NEW i \in Nat, Before(k, i, m, n)'
             PROVE  UsesOf(k, i)' \subseteq {b.site : b \in bound'}
  BY DEF Analyzed
<1>1. Before(k, i, m, n) /\ UsesOf(k, i)' = UsesOf(k, i) /\ errors = {}
  BY DEF Before, UsesOf, Use
<1> QED
  BY <1>1 DEF Analyzed

LEMMA AnalyzedShifts ==
  ASSUME NEW m, NEW n, NEW l, NEW o, Analyzed(m, n),
         \A k, i \in Nat : Before(k, i, l, o) => Before(k, i, m, n)
  PROVE  Analyzed(l, o)
  BY DEF Analyzed

LEMMA UsesInit == Init => UsesInvariant
<1> SUFFICES ASSUME Init PROVE UsesInvariant
  OBVIOUS
<1>1. NamesInvariant
  BY InitHolds
<1>2. BoundInOrder
  <2>1. \A k, i \in Nat : ~Before(k, i, module, 1)
    BY DEF Init, Before
  <2> QED
    BY <2>1 DEF Init, BoundInOrder, Analyzed
<1>3. WrittenInOrder /\ CleanUses
  BY DEF Init, WrittenInOrder, CleanUses
<1> QED
  BY <1>1, <1>2, <1>3 DEF UsesInvariant

(* A step of the analysis that leaves the place of its uses as they are.   *)
LEMMA HideUses == UsesInvariant /\ Hide => UsesInvariant'
<1> SUFFICES ASSUME UsesInvariant, Hide PROVE UsesInvariant'
  OBVIOUS
<1>1. /\ phase = "hide" /\ phase' = "import"
      /\ UNCHANGED <<program, module, errors, bound, generated, functions, globals>>
  BY DEF Hide, code
<1>2. NamesInvariant'
  BY HideKeeps DEF UsesInvariant
<1>3. Analyzed(module, 1)'
  BY <1>1, AnalyzedGrows DEF UsesInvariant, BoundInOrder
<1>4. BoundInOrder'
  BY <1>1, <1>3 DEF BoundInOrder
<1>5. WrittenInOrder' /\ CleanUses'
  BY <1>1 DEF UsesInvariant, WrittenInOrder, CleanUses, Accepted, Known
<1> QED
  BY <1>2, <1>4, <1>5 DEF UsesInvariant

LEMMA ImportUses == UsesInvariant /\ Import => UsesInvariant'
<1> SUFFICES ASSUME UsesInvariant, Import PROVE UsesInvariant'
  OBVIOUS
<1>1. /\ phase = "import" /\ phase' \in {"import", "collect"} /\ errors \subseteq errors'
      /\ UNCHANGED <<program, module, bound, generated, functions, globals>>
  BY DEF Import, code, Advance, Using
<1>2. NamesInvariant'
  BY ImportKeeps DEF UsesInvariant
<1>3. Analyzed(module, 1)'
  BY <1>1, AnalyzedGrows DEF UsesInvariant, BoundInOrder
<1>4. BoundInOrder'
  BY <1>1, <1>3 DEF BoundInOrder
<1>5. WrittenInOrder' /\ CleanUses'
  BY <1>1 DEF UsesInvariant, WrittenInOrder, CleanUses, Accepted, Known
<1> QED
  BY <1>2, <1>4, <1>5 DEF UsesInvariant

LEMMA CollectUses == UsesInvariant /\ Collect => UsesInvariant'
<1> SUFFICES ASSUME UsesInvariant, Collect PROVE UsesInvariant'
  OBVIOUS
<1>1. /\ phase = "collect" /\ errors \subseteq errors'
      /\ UNCHANGED <<program, module, bound, generated, functions, globals>>
  BY DEF Collect, code, CollectFunction, CollectStruct, CollectEnum
<1>2. phase' = "collect" \/ (phase' = "analyze" /\ at' = 1)
  BY <1>1 DEF Collect, Advance
<1>3. NamesInvariant'
  BY CollectKeeps DEF UsesInvariant
<1>4. Analyzed(module, 1)'
  BY <1>1, AnalyzedGrows DEF UsesInvariant, BoundInOrder
<1>5. BoundInOrder'
  BY <1>1, <1>2, <1>4 DEF BoundInOrder, Analyzed, Before
<1>6. WrittenInOrder' /\ CleanUses'
  BY <1>1, <1>2 DEF UsesInvariant, WrittenInOrder, CleanUses, Accepted, Known
<1> QED
  BY <1>3, <1>5, <1>6 DEF UsesInvariant

LEMMA AnalyzeUses == UsesInvariant /\ Analyze => UsesInvariant'
<1> SUFFICES ASSUME UsesInvariant, Analyze PROVE UsesInvariant'
  OBVIOUS
<1>0. NamesInvariant /\ Analyzed(module, at) /\ phase = "analyze"
  BY DEF UsesInvariant, BoundInOrder, Analyze
<1>1. UNCHANGED <<program, module, generated, functions, globals>>
  BY DEF Analyze, code
<1>2. \/ phase' = "analyze" /\ at' = at + 1
      \/ phase' = "leave" /\ at = Len(Here.body)
  <2>1. Len(Here.body) \in Nat /\ at \in 1 .. Len(Here.body)
    BY <1>0, HereShape DEF NamesInvariant
  <2> QED
    BY <1>0, <2>1 DEF Analyze, Advance
<1>3. NamesInvariant'
  BY <1>0, AnalyzeKeeps
<1>4. /\ bound \subseteq bound' /\ errors \subseteq errors'
      /\ errors' = {} => UsesOf(module, at) \subseteq {b.site : b \in bound'}
      /\ errors' = {} => \A b \in bound' \ bound : Accepted(b)
  BY <1>0, AnalyzeItem
<1>5. PICK m, n : m = module /\ n = at
  OBVIOUS
<1>6. Analyzed(m, n + 1)'
  <2> SUFFICES ASSUME errors' = {}, NEW k \in Nat, NEW i \in Nat, Before(k, i, m, n + 1)'
               PROVE  UsesOf(k, i)' \subseteq {b.site : b \in bound'}
    BY DEF Analyzed
  <2>4. errors = {}
    BY <1>4
  <2>1. Before(k, i, m, n + 1) /\ UsesOf(k, i)' = UsesOf(k, i)
    BY <1>1 DEF Before, UsesOf, Use
  <2>2. Before(k, i, m, n) \/ (k = m /\ i = n)
    BY <1>0, <1>5, <2>1, BeforeNext
  <2>3. Before(k, i, m, n) => UsesOf(k, i) \subseteq {b.site : b \in bound}
    BY <1>0, <1>5, <2>4 DEF Analyzed
  <2> QED
    BY <1>4, <1>5, <2>1, <2>2, <2>3
<1>7. BoundInOrder'
  <2>1. CASE phase' = "analyze" /\ at' = at + 1
    BY <1>1, <1>5, <1>6, <2>1 DEF BoundInOrder
  <2>2. CASE phase' = "leave" /\ at = Len(Here.body)
    <3>1. \A k, i \in Nat : Before(k, i, m + 1, 1) <=> Before(k, i, m, n + 1)
      BY <1>0, <1>5, <2>2, BeforeNext
    <3>2. \A k, i \in Nat : Before(k, i, m + 1, 1)' => Before(k, i, m, n + 1)'
      BY <1>1, <3>1 DEF Before
    <3>3. Analyzed(m + 1, 1)'
      BY <1>6, <3>2 DEF Analyzed
    <3> QED
      BY <1>1, <1>5, <2>2, <3>3 DEF BoundInOrder
  <2> QED
    BY <1>2, <2>1, <2>2
<1>8. WrittenInOrder' /\ CleanUses'
  BY <1>0, <1>1, <1>2, <1>4 DEF UsesInvariant, WrittenInOrder, CleanUses, Accepted, Known
<1> QED
  BY <1>3, <1>7, <1>8 DEF UsesInvariant

LEMMA LeaveUses == UsesInvariant /\ Leave => UsesInvariant'
<1> SUFFICES ASSUME UsesInvariant, Leave PROVE UsesInvariant'
  OBVIOUS
<1>0. NamesInvariant /\ Analyzed(module + 1, 1) /\ phase = "leave"
  BY DEF UsesInvariant, BoundInOrder, Leave
<1>1. UNCHANGED <<program, errors, bound, generated, functions, globals>>
  BY DEF Leave, code
<1>2. /\ module \in 1 .. Len(program) /\ Len(program) \in Nat
  BY <1>0, HereShape DEF NamesInvariant
<1>3. \/ phase' = "failed"
      \/ phase' = "hide" /\ module' = module + 1
      \/ phase' = "register" /\ module + 1 = Len(program) + 1 /\ errors = {}
  BY <1>2 DEF Leave
<1>4. NamesInvariant'
  BY <1>0, LeaveKeeps
<1>5. PICK m : m = module + 1
  OBVIOUS
<1>6. Analyzed(m, 1)'
  BY <1>0, <1>1, <1>5, AnalyzedGrows
<1>7. BoundInOrder'
  BY <1>1, <1>3, <1>5, <1>6 DEF BoundInOrder
<1>8. WrittenInOrder' /\ CleanUses'
  BY <1>0, <1>1, <1>3 DEF UsesInvariant, WrittenInOrder, CleanUses, Accepted, Known
<1> QED
  BY <1>4, <1>7, <1>8 DEF UsesInvariant

LEMMA RegisterUses == UsesInvariant /\ Register => UsesInvariant'
<1> SUFFICES ASSUME UsesInvariant, Register PROVE UsesInvariant'
  OBVIOUS
<1>0. /\ NamesInvariant /\ Analyzed(Len(program) + 1, 1) /\ phase = "register"
      /\ errors = {} /\ generated = {} /\ at = 1
  BY DEF UsesInvariant, BoundInOrder, WrittenInOrder, CleanUses, Register, NamesInvariant, Placed
<1>1. phase' = "generate" /\ UNCHANGED <<program, module, at, errors, bound, generated>>
  BY DEF Register
<1>2. NamesInvariant'
  BY <1>0, RegisterKeeps
<1>3. PICK m : m = Len(program) + 1
  OBVIOUS
<1>4. Analyzed(m, 1)'
  BY <1>0, <1>1, <1>3, AnalyzedGrows
<1>5. BoundInOrder'
  BY <1>1, <1>3, <1>4 DEF BoundInOrder
<1>6. WrittenInOrder'
  <2>1. module = 1
    BY <1>0 DEF NamesInvariant, Placed
  <2>2. \A k, i \in Nat : ~Before(k, i, module, at)'
    BY <1>0, <1>1, <2>1 DEF Before
  <2> QED
    BY <1>0, <1>1, <2>2 DEF WrittenInOrder, Written
<1>7. CleanUses'
  BY <1>0, <1>1 DEF UsesInvariant, CleanUses, Accepted
<1> QED
  BY <1>2, <1>5, <1>6, <1>7 DEF UsesInvariant

LEMMA GenerateUses == UsesInvariant /\ Generate => UsesInvariant'
<1> SUFFICES ASSUME UsesInvariant, Generate PROVE UsesInvariant'
  OBVIOUS
<1>0. /\ NamesInvariant /\ Analyzed(Len(program) + 1, 1) /\ phase = "generate"
      /\ Written(module, at)
  BY DEF UsesInvariant, BoundInOrder, WrittenInOrder, Generate
<1>1. UNCHANGED <<program, bound, functions, globals>>
  BY DEF Generate
<1>2. NamesInvariant'
  BY <1>0, GenerateKeeps
<1>3. /\ \A s : s \in {g.site : g \in generated'} <=>
                  s \in {g.site : g \in generated} \/ s \in UsesOf(module, at)
      /\ errors \subseteq errors' /\ generated \subseteq generated'
      /\ errors' = {} => \A g \in generated' \ generated : Known(g)
  BY <1>0, GenerateItem
<1>4. /\ Len(Here.body) \in Nat /\ at \in 1 .. Len(Here.body)
      /\ module \in 1 .. Len(program) /\ Len(program) \in Nat
  BY <1>0, HereShape DEF NamesInvariant
<1>5. \/ phase' = "generate" /\ module' = module /\ at' = at + 1
      \/ phase' = "generate" /\ module' = module + 1 /\ at' = 1 /\ at = Len(Here.body)
      \/ phase' = "compiled" /\ module = Len(program) /\ at = Len(Here.body) /\ errors' = {}
      \/ phase' = "failed"
  BY <1>0, <1>4 DEF Generate
<1>6. PICK m, n, l : m = module /\ n = at /\ l = Len(program) + 1
  OBVIOUS
<1>7. Analyzed(l, 1)'
  <2>1. Analyzed(l, 1)
    BY <1>0, <1>6
  <2>2. bound \subseteq bound' /\ errors \subseteq errors' /\ UNCHANGED program
    BY <1>1, <1>3
  <2> QED
    BY <2>1, <2>2, AnalyzedGrows
<1>8. BoundInOrder'
  BY <1>1, <1>5, <1>6, <1>7 DEF BoundInOrder
<1>9. Written(m, n + 1)'
  <2>1. \A k, i \in Nat : Before(k, i, m, n + 1)' <=> Before(k, i, m, n) \/ (k = m /\ i = n)
    <3>1. \A k, i \in Nat : Before(k, i, m, n + 1) <=> Before(k, i, m, n) \/ (k = m /\ i = n)
      BY <1>0, <1>6, BeforeNext
    <3> QED
      BY <1>1, <3>1 DEF Before
  <2>2. \A k, i : UsesOf(k, i)' = UsesOf(k, i)
    BY <1>1 DEF UsesOf, Use
  <2>3. m \in Nat /\ n \in Nat
    BY <1>4, <1>6
  <2>4. ASSUME NEW s
        PROVE  s \in {g.site : g \in generated'} <=>
                 \E k, i \in Nat : Before(k, i, m, n + 1)' /\ s \in UsesOf(k, i)'
    <3>1. s \in {g.site : g \in generated} <=> \E k, i \in Nat : Before(k, i, m, n) /\ s \in UsesOf(k, i)
      BY <1>0, <1>6 DEF Written
    <3>2. s \in {g.site : g \in generated'} <=> s \in {g.site : g \in generated} \/ s \in UsesOf(m, n)
      BY <1>3, <1>6
    <3> QED
      BY <2>1, <2>2, <2>3, <3>1, <3>2
  <2> QED
    BY <2>4 DEF Written
<1>10. WrittenInOrder'
  <2>1. CASE phase' = "generate" /\ module' = module /\ at' = at + 1
    BY <1>6, <1>9, <2>1 DEF WrittenInOrder
  <2>2. CASE at = Len(Here.body)
    <3>1. \A k, i \in Nat : Before(k, i, m + 1, 1)' <=> Before(k, i, m, n + 1)'
      <4>1. \A k, i \in Nat : Before(k, i, m + 1, 1) <=> Before(k, i, m, n + 1)
        BY <1>0, <1>6, <2>2, BeforeNext
      <4> QED
        BY <1>1, <4>1 DEF Before
    <3>2. Written(m + 1, 1)'
      BY <1>9, <3>1 DEF Written
    <3>3. CASE phase' = "generate" /\ module' = module + 1 /\ at' = 1
      BY <1>6, <3>2, <3>3 DEF WrittenInOrder
    <3>4. CASE phase' = "compiled" /\ module = Len(program)
      BY <1>1, <1>6, <3>2, <3>4 DEF WrittenInOrder
    <3>5. CASE phase' = "failed"
      BY <3>5 DEF WrittenInOrder
    <3> QED
      BY <1>5, <2>1, <3>3, <3>4, <3>5
  <2>3. CASE phase' = "failed"
    BY <2>3 DEF WrittenInOrder
  <2> QED
    BY <1>5, <2>1, <2>2, <2>3
<1>11. CleanUses'
  BY <1>1, <1>3, <1>5 DEF UsesInvariant, CleanUses, Accepted, Known
<1> QED
  BY <1>2, <1>8, <1>10, <1>11 DEF UsesInvariant

LEMMA UsesStutter == UsesInvariant /\ UNCHANGED vars => UsesInvariant'
<1> SUFFICES ASSUME UsesInvariant, UNCHANGED vars PROVE UsesInvariant'
  OBVIOUS
<1>1. NamesInvariant'
  BY StutterKeeps DEF UsesInvariant
<1>2. UNCHANGED <<program, phase, module, at, functions, globals, errors, bound, generated>>
  BY DEF vars, code
<1> PICK m, n, l : m = module /\ n = at /\ l = Len(program) + 1
  OBVIOUS
<1>3. /\ \A k, i : UsesOf(k, i)' = UsesOf(k, i)
      /\ \A k, i, a, b : Before(k, i, a, b)' <=> Before(k, i, a, b)
  BY <1>2 DEF UsesOf, Use, Before
<1>4. \A a, b : (Analyzed(a, b)' <=> Analyzed(a, b)) /\ (Written(a, b)' <=> Written(a, b))
  BY <1>2, <1>3 DEF Analyzed, Written
<1>5. BoundInOrder'
  <2>1. /\ phase \in {"hide", "import", "collect"} => Analyzed(m, 1)
        /\ phase = "analyze" => Analyzed(m, n)
        /\ phase = "leave" => Analyzed(m + 1, 1)
        /\ phase \in {"register", "generate", "compiled"} => Analyzed(l, 1)
    BY DEF UsesInvariant, BoundInOrder
  <2> QED
    BY <1>2, <1>4, <2>1 DEF BoundInOrder
<1>6. WrittenInOrder'
  <2>1. /\ phase \in {"hide", "import", "collect", "analyze", "leave", "register"} => generated = {}
        /\ phase = "generate" => Written(m, n)
        /\ phase = "compiled" => Written(l, 1)
    BY DEF UsesInvariant, WrittenInOrder
  <2> QED
    BY <1>2, <1>4, <2>1 DEF WrittenInOrder
<1>7. CleanUses'
  BY <1>2 DEF UsesInvariant, CleanUses, Accepted, Known
<1> QED
  BY <1>1, <1>5, <1>6, <1>7 DEF UsesInvariant

LEMMA UsesKept == Spec => []UsesInvariant
<1>1. UsesInvariant /\ [Next]_vars => UsesInvariant'
  BY HideUses, ImportUses, CollectUses, AnalyzeUses, LeaveUses, RegisterUses, GenerateUses,
     UsesStutter DEF Next
<1> QED
  BY <1>1, UsesInit, PTL DEF Spec

(* A program compiles only when every use in every body was looked up in   *)
(* the namespace of its text, in both passes, and analysis found it        *)
(* declared, of its kind and visible; nothing the code refers to is        *)
(* missing from the tables of functions and globals.                       *)
THEOREM CompiledMeansChecked == Spec => []CompiledUsesChecked
<1>1. UsesInvariant => CompiledUsesChecked
  <2> SUFFICES ASSUME UsesInvariant, phase = "compiled" PROVE CompiledUsesChecked
    BY DEF CompiledUsesChecked
  <2>1. /\ Analyzed(Len(program) + 1, 1) /\ Written(Len(program) + 1, 1) /\ errors = {}
        /\ \A b \in bound : Accepted(b)
        /\ \A g \in generated : Known(g)
    BY DEF UsesInvariant, BoundInOrder, WrittenInOrder, CleanUses
  <2>2. ASSUME NEW g \in generated PROVE \E b \in bound : b.site = g.site
    <3>1. g.site \in {h.site : h \in generated}
      OBVIOUS
    <3>2. PICK k \in Nat, i \in Nat : Before(k, i, Len(program) + 1, 1) /\ g.site \in UsesOf(k, i)
      BY <2>1, <3>1 DEF Written
    <3> QED
      BY <2>1, <3>2 DEF Analyzed
  <2>3. ASSUME NEW m \in 1 .. Len(program), NEW i \in 1 .. Len(program[m].body), NEW s \in UsesOf(m, i)
        PROVE  s \in {g.site : g \in generated}
    <3>1. Len(program) \in Nat /\ Len(program[m].body) \in Nat
      BY ProgramShape DEF UsesInvariant, NamesInvariant, Placed
    <3>2. m \in Nat /\ i \in Nat /\ Before(m, i, Len(program) + 1, 1)
      BY <3>1 DEF Before
    <3> QED
      BY <2>1, <3>2 DEF Written
  <2> QED
    BY <2>1, <2>2, <2>3 DEF CompiledUsesChecked
<1> QED
  BY <1>1, UsesKept, PTL

-----------------------------------------------------------------------------
(* Functions defined by recursion over an interval *)

Iteration(start, step, a, n, f) ==
  f = [i \in a .. n |-> IF i = a THEN start ELSE step[<<i, f[i - 1]>>]]

LEMMA IterationExists ==
  ASSUME NEW start, NEW step, NEW a \in Nat, NEW n \in Nat, a <= n
  PROVE  \E f : Iteration(start, step, a, n, f)
<1> DEFINE T == {k \in Nat : a <= k /\ ~ \E f : Iteration(start, step, a, k, f)}
<1> SUFFICES ASSUME T # {} PROVE FALSE
  OBVIOUS
<1>1. PICK k \in T : \A j \in T : k <= j
  BY LeastOf
<1>2. k # a
  <2>1. Iteration(start, step, a, a, [i \in a .. a |-> start])
    BY DEF Iteration
  <2> QED
    BY <1>1, <2>1
<1>3. k - 1 \in Nat /\ a <= k - 1 /\ k - 1 \notin T
  BY <1>1, <1>2
<1>4. PICK g : Iteration(start, step, a, k - 1, g)
  BY <1>3
<1> DEFINE h == [i \in a .. k |-> IF i = k THEN step[<<k, g[k - 1]>>] ELSE g[i]]
<1>5. ASSUME NEW i \in a .. k
      PROVE  h[i] = IF i = a THEN start ELSE step[<<i, h[i - 1]>>]
  <2>1. CASE i = k
    <3>1. k - 1 \in a .. k /\ k - 1 # k /\ i # a
      BY <1>2, <1>3, <2>1
    <3> QED
      BY <2>1, <3>1
  <2>2. CASE i # k
    <3>1. i \in a .. (k - 1)
      BY <1>3, <2>2
    <3>2. g[i] = IF i = a THEN start ELSE step[<<i, g[i - 1]>>]
      BY <1>4, <3>1 DEF Iteration
    <3>3. i # a => i - 1 \in a .. k /\ i - 1 # k
      BY <1>3, <3>1
    <3> QED
      BY <2>2, <3>2, <3>3
  <2> QED
    BY <2>1, <2>2
<1>6. Iteration(start, step, a, k, h)
  <2> DEFINE e == [i \in a .. k |-> IF i = a THEN start ELSE step[<<i, h[i - 1]>>]]
  <2>1. DOMAIN h = a .. k /\ h = [i \in a .. k |-> h[i]]
    OBVIOUS
  <2> HIDE DEF h
  <2>2. h = e
    BY <1>5, <2>1
  <2> QED
    BY <2>2 DEF Iteration
<1> QED
  BY <1>1, <1>6

(* Its values stay where the step stays. *)
LEMMA IterationType ==
  ASSUME NEW V, NEW start \in V, NEW a \in Nat, NEW n \in Nat, NEW step, NEW f,
         Iteration(start, step, a, n, f),
         \A i \in a .. n : \A x \in V : step[<<i, x>>] \in V
  PROVE  f \in [a .. n -> V]
<1> DEFINE T == {k \in a .. n : f[k] \notin V}
<1>1. DOMAIN f = a .. n /\ \A i \in a .. n : f[i] = IF i = a THEN start ELSE step[<<i, f[i - 1]>>]
  BY DEF Iteration
<1>2. T = {}
  <2> SUFFICES ASSUME T # {} PROVE FALSE
    OBVIOUS
  <2>1. T \in SUBSET Nat
    OBVIOUS
  <2>2. PICK k \in T : \A j \in T : k <= j
    BY <2>1, LeastOf
  <2>3. k \in a .. n /\ f[k] \notin V
    BY <2>2
  <2>4. k # a
    BY <1>1, <2>3
  <2>5. k - 1 \in a .. n /\ k - 1 \notin T
    BY <2>2, <2>3, <2>4
  <2>6. f[k - 1] \in V
    BY <2>5
  <2> QED
    BY <1>1, <2>3, <2>4, <2>6
<1>3. f = [i \in a .. n |-> f[i]]
  BY DEF Iteration
<1> QED
  BY <1>2, <1>3

-----------------------------------------------------------------------------
(* The declarations that carry attributes *)

CarriersAt(items, i) ==
  LET d == items[i]
  IN  CASE d.kind = "struct" ->
             << <<i, 0, d.attrs>> >> \o [m \in DOMAIN d.methods |-> <<i, m, d.methods[m].attrs>>]
        [] d.kind \in {"func", "enum", "global", "module"} -> << <<i, 0, d.attrs>> >>
        [] OTHER -> << >>

(* FlattenSeq puts one sequence behind the other. *)
LEMMA FlattenSteps ==
  ASSUME NEW S, NEW ss, Len(ss) \in Nat \ {0}, \A i \in 1 .. Len(ss) : ss[i] \in Seq(S)
  PROVE  \E f \in [1 .. Len(ss) -> Seq(S)] :
           /\ FlattenSeq(ss) = f[Len(ss)] /\ f[1] = ss[1]
           /\ \A i \in 2 .. Len(ss) : f[i] = f[i - 1] \o ss[i]
<1> DEFINE n == Len(ss)
           Flattens(f) == f = [i \in 1 .. n |-> IF i = 1 THEN ss[i] ELSE f[i - 1] \o ss[i]]
           W(f) == Seq(S) \cup {f[i] : i \in 1 .. n}
           step(f) == [p \in (1 .. n) \X W(f) |-> p[2] \o ss[p[1]]]
           flatten == CHOOSE f : Flattens(f)
<1>1. FlattenSeq(ss) = flatten[n]
  BY DEF FlattenSeq
<1>2. ASSUME NEW f, NEW i \in 1 .. n, NEW x \in W(f) PROVE step(f)[<<i, x>>] = x \o ss[i]
  OBVIOUS
<1>3. ASSUME NEW f, NEW i \in 1 .. n, NEW x \in Seq(S) PROVE step(f)[<<i, x>>] \in Seq(S)
  BY <1>2, ConcatProperties
<1>4. ss[1] \in Seq(S) /\ 1 \in Nat /\ n \in Nat /\ 1 <= n /\ \A f : Seq(S) \subseteq W(f)
  OBVIOUS
<1> HIDE DEF step
<1>5. \E f : Flattens(f)
  <2> DEFINE g == [i \in 1 .. n |-> << >>]
  <2>1. PICK f : Iteration(ss[1], step(g), 1, n, f)
    BY <1>4, IterationExists
  <2>2. \A i \in 1 .. n : \A x \in Seq(S) : step(g)[<<i, x>>] \in Seq(S)
    BY <1>3
  <2>3. f \in [1 .. n -> Seq(S)]
    <3> HIDE DEF g
    <3> QED
      BY <1>4, <2>1, <2>2, IterationType
  <2>4. f = [i \in 1 .. n |-> IF i = 1 THEN ss[1] ELSE step(g)[<<i, f[i - 1]>>]]
    BY <2>1 DEF Iteration
  <2>5. ASSUME NEW i \in 1 .. n, i # 1 PROVE step(g)[<<i, f[i - 1]>>] = f[i - 1] \o ss[i]
    <3>1. f[i - 1] \in W(g)
      BY <2>3, <2>5
    <3> QED
      BY <1>2, <3>1
  <2>6. f = [i \in 1 .. n |-> IF i = 1 THEN ss[i] ELSE f[i - 1] \o ss[i]]
    BY <2>4, <2>5
  <2> QED
    BY <2>6
<1>6. Flattens(flatten)
  BY <1>5
<1>7. Iteration(ss[1], step(flatten), 1, n, flatten)
  <2> HIDE DEF flatten
  <2>1. ASSUME NEW i \in 1 .. n, i # 1 PROVE step(flatten)[<<i, flatten[i - 1]>>] = flatten[i - 1] \o ss[i]
    <3>1. flatten[i - 1] \in W(flatten)
      BY <2>1
    <3> QED
      BY <1>2, <3>1
  <2>2. flatten = [i \in 1 .. n |-> IF i = 1 THEN ss[1] ELSE step(flatten)[<<i, flatten[i - 1]>>]]
    BY <1>6, <2>1
  <2> QED
    BY <2>2 DEF Iteration
<1>8. \A i \in 1 .. n : \A x \in Seq(S) : step(flatten)[<<i, x>>] \in Seq(S)
  BY <1>3
<1>9. flatten \in [1 .. n -> Seq(S)]
  <2> HIDE DEF flatten
  <2> QED
    BY <1>4, <1>7, <1>8, IterationType
<1> HIDE DEF flatten
<1>10. \A i \in 1 .. n : flatten[i] = IF i = 1 THEN ss[i] ELSE flatten[i - 1] \o ss[i]
  BY <1>6
<1>11. flatten[1] = ss[1] /\ \A i \in 2 .. n : flatten[i] = flatten[i - 1] \o ss[i]
  <2>1. 1 \in 1 .. n /\ \A i \in 2 .. n : i \in 1 .. n /\ i # 1
    BY <1>4
  <2> QED
    BY <1>10, <2>1
<1> QED
  BY <1>1, <1>9, <1>11

(* Which carriers an item has. *)
IsCarrier(items, c) ==
  /\ c[1] \in 1 .. Len(items)
  /\ LET d == items[c[1]]
     IN  \/ c[2] = 0 /\ d.kind \in {"struct", "func", "enum", "global", "module"}
         \/ d.kind = "struct" /\ c[2] \in DOMAIN d.methods

LEMMA CarriersOfItem ==
  ASSUME NEW items, Listed(items), NEW i \in 1 .. Len(items)
  PROVE  /\ CarriersAt(items, i) \in Seq(Range(CarriersAt(items, i)))
         /\ \A c \in Range(CarriersAt(items, i)) : IsCarrier(items, c)
<1> DEFINE d == items[i]
           own == << <<i, 0, d.attrs>> >>
           methods == [m \in DOMAIN d.methods |-> <<i, m, d.methods[m].attrs>>]
<1>1. CASE d.kind = "struct"
  <2>1. d.methods \in Seq(Range(d.methods))
    BY <1>1 DEF Listed, IsList
  <2>2. DOMAIN d.methods = 1 .. Len(d.methods) /\ Len(d.methods) \in Nat
    BY <2>1
  <2> DEFINE C == {<<i, 0, d.attrs>>} \cup {<<i, m, d.methods[m].attrs>> : m \in DOMAIN d.methods}
  <2>3. own \in Seq(C) /\ methods \in Seq(C)
    BY <2>2
  <2>4. \A c \in C : IsCarrier(items, c)
    BY <1>1 DEF IsCarrier
  <2>5. CarriersAt(items, i) = own \o methods
    BY <1>1 DEF CarriersAt
  <2> HIDE DEF own, methods, C
  <2>6. CarriersAt(items, i) \in Seq(C)
    BY <2>3, <2>5, ConcatProperties
  <2> DEFINE t == CarriersAt(items, i)
  <2> HIDE DEF t
  <2>7. t \in Seq(C) => t \in Seq(Range(t)) /\ Range(t) \subseteq C
    BY DEF Range
  <2> QED
    BY <2>4, <2>6, <2>7 DEF t
<1>2. CASE d.kind \in {"func", "enum", "global", "module"}
  <2>1. CarriersAt(items, i) = own
    BY <1>2 DEF CarriersAt
  <2>2. own \in Seq({<<i, 0, d.attrs>>}) /\ Range(own) = {<<i, 0, d.attrs>>}
    BY DEF Range
  <2>3. IsCarrier(items, <<i, 0, d.attrs>>)
    BY <1>2 DEF IsCarrier
  <2> HIDE DEF own
  <2> QED
    BY <2>1, <2>2, <2>3
<1>3. CASE d.kind \notin {"struct", "func", "enum", "global", "module"}
  <2>1. CarriersAt(items, i) = << >>
    BY <1>3 DEF CarriersAt
  <2>2. << >> \in Seq(Range(<< >>)) /\ Range(<< >>) = {}
    BY DEF Range
  <2> QED
    BY <2>1, <2>2
<1> QED
  BY <1>1, <1>2, <1>3

LEMMA CarriersAre ==
  ASSUME NEW items, Len(items) \in Nat \ {0},
         Listed(items)
  PROVE  /\ Len(Carriers(items)) \in Nat
         /\ \A k \in 1 .. Len(Carriers(items)) : IsCarrier(items, Carriers(items)[k])
         /\ DOMAIN Carriers(items) = 1 .. Len(Carriers(items))
<1> DEFINE ss == [i \in 1 .. Len(items) |-> CarriersAt(items, i)]
           S == UNION {Range(ss[i]) : i \in 1 .. Len(items)}
<1>1. Carriers(items) = FlattenSeq(ss)
  BY DEF Carriers, CarriersAt
<1>2. ASSUME NEW i \in 1 .. Len(items)
      PROVE  /\ CarriersAt(items, i) \in Seq(Range(CarriersAt(items, i)))
             /\ \A c \in Range(CarriersAt(items, i)) : IsCarrier(items, c)
  BY CarriersOfItem
<1>3. Len(ss) = Len(items)
  OBVIOUS
<1>4. ASSUME NEW i \in 1 .. Len(ss) PROVE ss[i] \in Seq(S)
  <2>1. ss[i] = CarriersAt(items, i) /\ i \in 1 .. Len(items)
    BY <1>3
  <2>2. ss[i] \in Seq(Range(ss[i])) /\ Range(ss[i]) \subseteq S
    BY <1>2, <2>1
  <2> HIDE DEF ss, S
  <2> QED
    BY <2>2
<1>5. \A c \in S : IsCarrier(items, c)
  BY <1>2
<1>6. Carriers(items) \in Seq(S)
  <2> HIDE DEF ss, S
  <2>1. PICK f \in [1 .. Len(ss) -> Seq(S)] : FlattenSeq(ss) = f[Len(ss)]
    BY <1>3, <1>4, FlattenSteps
  <2>2. Len(ss) \in 1 .. Len(ss)
    BY <1>3
  <2> QED
    BY <1>1, <2>1, <2>2
<1> HIDE DEF S
<1>7. \A k \in 1 .. Len(Carriers(items)) : Carriers(items)[k] \in S
  BY <1>6
<1> QED
  BY <1>5, <1>6, <1>7

(* No two carriers are one: those of an item are numbered, and those of    *)
(* the items come one item behind the other.                               *)
Apart(s, i) ==
  /\ \A k \in 1 .. Len(s) : s[k][1] \in Nat /\ s[k][1] <= i
  /\ \A k, l \in 1 .. Len(s) : s[k][1] = s[l][1] /\ s[k][2] = s[l][2] => k = l

LEMMA CarriersNumbered ==
  ASSUME NEW items, Listed(items), NEW i \in 1 .. Len(items)
  PROVE  \A k \in 1 .. Len(CarriersAt(items, i)) :
           CarriersAt(items, i)[k][1] = i /\ CarriersAt(items, i)[k][2] = k - 1
<1> DEFINE d == items[i]
           own == << <<i, 0, d.attrs>> >>
           methods == [m \in DOMAIN d.methods |-> <<i, m, d.methods[m].attrs>>]
<1>1. Len(own) = 1 /\ own[1][1] = i /\ own[1][2] = 0
  OBVIOUS
<1>2. CASE d.kind = "struct"
  <2>1. d.methods \in Seq(Range(d.methods))
    BY <1>2 DEF Listed, IsList
  <2>2. DOMAIN d.methods = 1 .. Len(d.methods) /\ Len(d.methods) \in Nat
    BY <2>1
  <2> DEFINE C == {<<i, 0, d.attrs>>} \cup {<<i, m, d.methods[m].attrs>> : m \in DOMAIN d.methods}
  <2>3. own \in Seq(C) /\ methods \in Seq(C) /\ Len(methods) = Len(d.methods)
    BY <2>2
  <2>4. \A m \in 1 .. Len(methods) : methods[m][1] = i /\ methods[m][2] = m
    BY <2>2, <2>3
  <2>5. CarriersAt(items, i) = own \o methods
    BY <1>2 DEF CarriersAt
  <2> HIDE DEF own, methods, C
  <2>6. /\ Len(own \o methods) = 1 + Len(methods) /\ Len(methods) \in Nat
        /\ (own \o methods)[1] = own[1]
        /\ \A k \in 2 .. 1 + Len(methods) : (own \o methods)[k] = methods[k - 1]
    <3>1. Len(methods) \in Nat /\ 1 \in 1 .. Len(own)
      BY <1>1, <2>3
    <3>2. /\ Len(own \o methods) = Len(own) + Len(methods)
          /\ \A k \in 1 .. Len(own) + Len(methods) :
               (own \o methods)[k] = IF k <= Len(own) THEN own[k] ELSE methods[k - Len(own)]
      BY <2>3, ConcatProperties
    <3>3. \A k \in 2 .. 1 + Len(methods) : k \in 1 .. Len(own) + Len(methods) /\ ~(k <= Len(own))
      BY <1>1, <3>1
    <3>4. 1 \in 1 .. Len(own) + Len(methods) /\ 1 <= Len(own)
      BY <1>1, <3>1
    <3> QED
      BY <1>1, <3>1, <3>2, <3>3, <3>4
  <2> TAKE k \in 1 .. Len(CarriersAt(items, i))
  <2>7. CASE k = 1
    BY <1>1, <2>5, <2>6, <2>7
  <2>8. CASE k # 1
    <3>1. k \in 2 .. 1 + Len(methods) /\ k - 1 \in 1 .. Len(methods)
      BY <2>5, <2>6, <2>8
    <3> QED
      BY <2>4, <2>5, <2>6, <3>1
  <2> QED
    BY <2>7, <2>8
<1>3. CASE d.kind \in {"func", "enum", "global", "module"}
  <2>1. CarriersAt(items, i) = own
    BY <1>3 DEF CarriersAt
  <2> HIDE DEF own
  <2>2. Len(CarriersAt(items, i)) = 1
    BY <1>1, <2>1
  <2> TAKE k \in 1 .. Len(CarriersAt(items, i))
  <2>3. k \in 1 .. 1
    BY <2>2
  <2>4. k = 1 /\ k - 1 = 0
    BY <2>3
  <2> QED
    BY <1>1, <2>1, <2>4
<1>4. CASE d.kind \notin {"struct", "func", "enum", "global", "module"}
  <2>1. CarriersAt(items, i) = << >>
    BY <1>4 DEF CarriersAt
  <2>2. Len(<< >>) = 0
    OBVIOUS
  <2> QED
    BY <2>1, <2>2
<1> QED
  BY <1>2, <1>3, <1>4

LEMMA ConcatApart ==
  ASSUME NEW S, NEW s \in Seq(S), NEW t \in Seq(S), NEW i \in Nat, Apart(s, i - 1),
         \A k \in 1 .. Len(t) : t[k][1] = i /\ t[k][2] = k - 1
  PROVE  Apart(s \o t, i)
<1> DEFINE u == s \o t
           n == Len(s)
<1>1. /\ n \in Nat /\ Len(t) \in Nat /\ Len(u) = n + Len(t)
      /\ \A k \in 1 .. n : u[k] = s[k]
      /\ \A k \in n + 1 .. n + Len(t) : u[k] = t[k - n]
  BY ConcatProperties
<1> HIDE DEF u, n
<1>2. ASSUME NEW k \in 1 .. Len(u)
      PROVE  \/ k \in 1 .. n /\ u[k] = s[k] /\ u[k][1] \in Nat /\ u[k][1] <= i - 1
             \/ k \notin 1 .. n /\ u[k][1] = i /\ u[k][2] = (k - n) - 1
  <2>1. CASE k \in 1 .. n
    BY <1>1, <2>1 DEF Apart, n
  <2>2. CASE k \notin 1 .. n
    <3>1. k \in n + 1 .. n + Len(t) /\ k - n \in 1 .. Len(t)
      BY <1>1, <2>2
    <3>2. u[k] = t[k - n]
      BY <1>1, <3>1
    <3>3. t[k - n][1] = i /\ t[k - n][2] = (k - n) - 1
      BY <3>1
    <3> QED
      BY <2>2, <3>2, <3>3
  <2> QED
    BY <2>1, <2>2
<1>3. ASSUME NEW k \in 1 .. Len(u), NEW l \in 1 .. Len(u), u[k][1] = u[l][1], u[k][2] = u[l][2]
      PROVE  k = l
  <2>1. CASE k \in 1 .. n /\ l \in 1 .. n
    BY <1>1, <1>3, <2>1 DEF Apart, n
  <2>2. CASE k \notin 1 .. n /\ l \notin 1 .. n
    <3>1. u[k][2] = (k - n) - 1 /\ u[l][2] = (l - n) - 1
      BY <1>2, <2>2
    <3>2. k \in Nat /\ l \in Nat /\ n \in Nat
      BY <1>1
    <3>3. (k - n) - 1 = (l - n) - 1
      BY <1>3, <3>1
    <3> QED
      BY <3>2, <3>3
  <2>3. CASE k \in 1 .. n /\ l \notin 1 .. n
    <3>1. u[k][1] \in Nat /\ u[k][1] <= i - 1 /\ u[l][1] = i
      BY <1>1, <1>2, <2>3
    <3> QED
      BY <1>3, <3>1
  <2>4. CASE k \notin 1 .. n /\ l \in 1 .. n
    <3>1. u[l][1] \in Nat /\ u[l][1] <= i - 1 /\ u[k][1] = i
      BY <1>1, <1>2, <2>4
    <3> QED
      BY <1>3, <3>1
  <2> QED
    BY <2>1, <2>2, <2>3, <2>4
<1>4. \A k \in 1 .. Len(u) : u[k][1] \in Nat /\ u[k][1] <= i
  <2> TAKE k \in 1 .. Len(u)
  <2>1. u[k][1] = i \/ (u[k][1] \in Nat /\ u[k][1] <= i - 1)
    BY <1>2
  <2> QED
    BY <2>1
<1>5. Apart(u, i)
  BY <1>3, <1>4 DEF Apart
<1> QED
  BY <1>5 DEF u

LEMMA CarriersApart ==
  ASSUME NEW items, Len(items) \in Nat \ {0}, Listed(items)
  PROVE  Apart(Carriers(items), Len(items))
<1> DEFINE ss == [i \in 1 .. Len(items) |-> CarriersAt(items, i)]
           n == Len(ss)
           S == UNION {Range(ss[i]) : i \in 1 .. n}
<1>1. Carriers(items) = FlattenSeq(ss) /\ n = Len(items) /\ n \in Nat \ {0}
  BY DEF Carriers, CarriersAt
<1>2. ASSUME NEW i \in 1 .. n PROVE ss[i] = CarriersAt(items, i) /\ ss[i] \in Seq(S)
  <2>1. ss[i] = CarriersAt(items, i)
    OBVIOUS
  <2>2. CarriersAt(items, i) \in Seq(Range(CarriersAt(items, i)))
    BY <1>1, CarriersOfItem
  <2>3. Range(ss[i]) \subseteq S
    OBVIOUS
  <2> HIDE DEF ss, S
  <2> QED
    BY <2>1, <2>2, <2>3
<1> HIDE DEF ss, S
<1>3. PICK f \in [1 .. n -> Seq(S)] : /\ FlattenSeq(ss) = f[n] /\ f[1] = ss[1]
                                      /\ \A i \in 2 .. n : f[i] = f[i - 1] \o ss[i]
  <2>1. \A i \in 1 .. Len(ss) : ss[i] \in Seq(S)
    BY <1>2
  <2>2. Len(ss) \in Nat \ {0}
    BY <1>1
  <2> QED
    BY <2>1, <2>2, FlattenSteps
<1> DEFINE T == {i \in 1 .. n : ~Apart(f[i], i)}
<1>4. T = {}
  <2> SUFFICES ASSUME T # {} PROVE FALSE
    OBVIOUS
  <2>1. T \in SUBSET Nat
    OBVIOUS
  <2>2. PICK i \in T : \A j \in T : i <= j
    BY <2>1, LeastOf
  <2>3. i \in 1 .. n /\ i \in Nat /\ ~Apart(f[i], i)
    BY <2>2
  <2>4. ss[i] \in Seq(S) /\ \A k \in 1 .. Len(ss[i]) : ss[i][k][1] = i /\ ss[i][k][2] = k - 1
    BY <1>1, <1>2, <2>3, CarriersNumbered
  <2>5. CASE i = 1
    <3>1. Len(ss[i]) \in Nat
      BY <2>4
    <3>2. ASSUME NEW k \in 1 .. Len(ss[i]), NEW l \in 1 .. Len(ss[i]), ss[i][k][2] = ss[i][l][2] PROVE k = l
      <4>1. ss[i][k][2] = k - 1 /\ ss[i][l][2] = l - 1
        BY <2>4
      <4>2. k - 1 = l - 1
        BY <3>2, <4>1
      <4>3. k \in Nat /\ l \in Nat
        BY <3>1
      <4> QED
        BY <4>2, <4>3
    <3>3. \A k \in 1 .. Len(ss[i]) : ss[i][k][1] \in Nat /\ ss[i][k][1] <= i
      BY <2>3, <2>4
    <3>4. Apart(ss[i], i)
      BY <3>2, <3>3 DEF Apart
    <3> QED
      BY <1>3, <2>3, <2>5, <3>4
  <2>6. CASE i # 1
    <3>1. i \in 2 .. n /\ i - 1 \in 1 .. n /\ i - 1 \notin T
      BY <2>2, <2>3, <2>6
    <3>2. Apart(f[i - 1], i - 1) /\ f[i - 1] \in Seq(S) /\ f[i] = f[i - 1] \o ss[i]
      BY <1>3, <3>1
    <3> DEFINE before == f[i - 1]
               more == ss[i]
    <3>3. /\ before \in Seq(S) /\ more \in Seq(S) /\ Apart(before, i - 1)
          /\ \A k \in 1 .. Len(more) : more[k][1] = i /\ more[k][2] = k - 1
      BY <2>4, <3>2
    <3> HIDE DEF before, more
    <3>4. Apart(before \o more, i)
      BY <2>3, <3>3, ConcatApart
    <3> QED
      BY <2>3, <3>2, <3>4 DEF before, more
  <2> QED
    BY <2>5, <2>6
<1>5. n \in 1 .. n
  BY <1>1
<1> QED
  BY <1>1, <1>3, <1>4, <1>5

(* The switch as the loop of the code has it. *)
Top(items, k) == Depth(items, Carriers(items)[k][1]) = 0

Attributes(items, k) == Carriers(items)[k][3]

Switched(items, k, before) ==
  IF Top(items, k)
  THEN ("hide" \in Attributes(items, k) \/ before) /\ "unhide" \notin Attributes(items, k)
  ELSE before

Hides(items, h) == h = [k \in 0 .. Len(Carriers(items)) |-> k > 0 /\ Switched(items, k, h[k - 1])]

LEMMA SwitchExists ==
  ASSUME NEW items, Len(Carriers(items)) \in Nat
  PROVE  \E h : Hides(items, h)
<1> DEFINE n == Len(Carriers(items))
           step == [p \in (0 .. n) \X BOOLEAN |-> Switched(items, p[1], p[2])]
<1>1. PICK f : Iteration(FALSE, step, 0, n, f)
  <2>1. n \in Nat /\ 0 \in Nat /\ 0 <= n
    OBVIOUS
  <2> HIDE DEF step, n
  <2> QED
    BY <2>1, IterationExists
<1>2. ASSUME NEW i \in 0 .. n, NEW x \in BOOLEAN
      PROVE  step[<<i, x>>] = Switched(items, i, x) /\ Switched(items, i, x) \in BOOLEAN
  BY DEF Switched
<1> HIDE DEF step
<1>3. f \in [0 .. n -> BOOLEAN]
  <2>1. FALSE \in BOOLEAN /\ n \in Nat /\ 0 \in Nat
        /\ \A i \in 0 .. n : \A x \in BOOLEAN : step[<<i, x>>] \in BOOLEAN
    BY <1>2
  <2> HIDE DEF n
  <2> QED
    BY <1>1, <2>1, IterationType
<1>4. \A i \in 0 .. n : f[i] = IF i = 0 THEN FALSE ELSE step[<<i, f[i - 1]>>]
  BY <1>1 DEF Iteration
<1> DEFINE h == [k \in 0 .. n |-> k > 0 /\ Switched(items, k, f[k - 1])]
<1>5. ASSUME NEW i \in 0 .. n PROVE f[i] = (i > 0 /\ Switched(items, i, f[i - 1]))
  <2>1. CASE i = 0
    <3>1. f[i] = FALSE
      BY <1>4, <2>1
    <3>2. ~(i > 0)
      BY <2>1
    <3> QED
      BY <3>1, <3>2, Zenon
  <2>2. CASE i # 0
    <3>1. i > 0 /\ i - 1 \in 0 .. n
      BY <2>2
    <3>2. f[i - 1] \in BOOLEAN
      BY <1>3, <3>1
    <3>3. f[i] = Switched(items, i, f[i - 1])
      BY <1>2, <1>4, <2>2, <3>2
    <3>4. Switched(items, i, f[i - 1]) \in BOOLEAN
      BY <1>2, <3>2
    <3> QED
      BY <3>1, <3>3, <3>4
  <2> QED
    BY <2>1, <2>2
<1>6. f = h
  BY <1>3, <1>5
<1> QED
  BY <1>6 DEF Hides

(* What the documentation has private, the loop makes private. *)
LEMMA HiddenIsPrivate ==
  ASSUME NEW items, Len(Carriers(items)) \in Nat, DOMAIN Carriers(items) = 1 .. Len(Carriers(items)),
         \A j \in 1 .. Len(Carriers(items)) : ~ {"hide", "unhide"} \subseteq Attributes(items, j),
         NEW k \in 1 .. Len(Carriers(items)),
         \/ "private" \in Attributes(items, k)
         \/ /\ Top(items, k) /\ "public" \notin Attributes(items, k)
            /\ \E j \in 1 .. k : /\ Top(items, j) /\ "hide" \in Attributes(items, j)
                                 /\ \A l \in j + 1 .. k : Top(items, l) => "unhide" \notin Attributes(items, l)
  PROVE  <<Carriers(items)[k][1], Carriers(items)[k][2]>> \in HidePass(items)
<1> DEFINE cs == Carriers(items)
           n == Len(cs)
           hidden == CHOOSE h : Hides(items, h)
<1>1. HidePass(items) =
        {<<cs[j][1], cs[j][2]>> :
           j \in {j \in DOMAIN cs : \/ "private" \in cs[j][3]
                                    \/ Top(items, j) /\ {"public", "private"} \cap cs[j][3] = {} /\ hidden[j]}}
  BY DEF HidePass, Hides, Switched, Top, Attributes
<1>2. Hides(items, hidden)
  BY SwitchExists
<1> HIDE DEF hidden
<1>3. CASE "private" \in Attributes(items, k)
  BY <1>1, <1>3 DEF Attributes
<1>4. CASE "private" \notin Attributes(items, k)
  <2>1. PICK j \in 1 .. k : /\ Top(items, j) /\ "hide" \in Attributes(items, j)
                            /\ \A l \in j + 1 .. k : Top(items, l) => "unhide" \notin Attributes(items, l)
    BY <1>4
  <2>2. ASSUME NEW i \in 1 .. n PROVE hidden[i] <=> Switched(items, i, hidden[i - 1])
    <3>1. i \in 0 .. n /\ i > 0
      OBVIOUS
    <3>2. hidden[i] = (i > 0 /\ Switched(items, i, hidden[i - 1]))
      BY <1>2, <3>1 DEF Hides
    <3> QED
      BY <3>1, <3>2
  <2> DEFINE T == {l \in j .. k : ~hidden[l]}
  <2>3. T = {}
    <3> SUFFICES ASSUME T # {} PROVE FALSE
      OBVIOUS
    <3>1. T \in SUBSET Nat
      OBVIOUS
    <3>2. PICK l \in T : \A i \in T : l <= i
      BY <3>1, LeastOf
    <3>3. l \in j .. k /\ l \in 1 .. n /\ ~hidden[l]
      BY <3>2
    <3>4. CASE l = j
      <4>1. Top(items, l) /\ "hide" \in Attributes(items, l) /\ "unhide" \notin Attributes(items, l)
        BY <2>1, <3>3, <3>4
      <4>2. Switched(items, l, hidden[l - 1])
        BY <4>1 DEF Switched
      <4> QED
        BY <2>2, <3>3, <4>2
    <3>5. CASE l # j
      <4>1. l - 1 \in j .. k /\ l - 1 \notin T /\ l \in j + 1 .. k
        BY <3>2, <3>3, <3>5
      <4>2. hidden[l - 1]
        BY <4>1
      <4>3. Top(items, l) => "unhide" \notin Attributes(items, l)
        BY <2>1, <4>1
      <4> QED
        BY <2>2, <3>3, <4>2, <4>3 DEF Switched
    <3> QED
      BY <3>4, <3>5
  <2>4. hidden[k]
    BY <2>3
  <2>5. Top(items, k) /\ "public" \notin Attributes(items, k)
    BY <1>4
  <2> QED
    BY <1>1, <1>4, <2>4, <2>5 DEF Attributes
<1> QED
  BY <1>3, <1>4

-----------------------------------------------------------------------------
(* What lookups find *)

LEMMA MostOf ==
  ASSUME NEW n \in Nat, NEW T \in SUBSET (0 .. n), T # {}
  PROVE  Max(T) \in T
<1> DEFINE M == {n - x : x \in T}
<1>1. M \in SUBSET Nat /\ M # {}
  <2>1. \A x \in T : n - x \in Nat
    OBVIOUS
  <2> QED
    BY <2>1
<1>2. PICK y \in M : \A z \in M : y <= z
  BY <1>1, LeastOf
<1>3. PICK x \in T : y = n - x
  BY <1>2
<1>4. ASSUME NEW z \in T PROVE x >= z
  <2>1. n - z \in M /\ z \in 0 .. n /\ x \in 0 .. n
    OBVIOUS
  <2> QED
    BY <1>2, <1>3, <2>1
<1>5. \E w \in T : \A z \in T : w >= z
  BY <1>4
<1> QED
  BY <1>5 DEF Max

(* A symbol of the table or of an open scope, or none. *)
InTable(s) == \E key \in DOMAIN symbols : s = symbols[key]

Stored(s) ==
  \/ s = Nothing \/ InTable(s)
  \/ \E n \in DOMAIN scopes : \E local \in DOMAIN scopes[n] : s = scopes[n][local]

StoredScopes(open) == \A n \in DOMAIN open : \A local \in DOMAIN open[n] : Stored(open[n][local])

LEMMA ListItems ==
  ASSUME NEW s, IsList(s)
  PROVE  Len(s) \in Nat /\ DOMAIN s = 1 .. Len(s)
  BY DEF IsList

LEMMA AppendItems ==
  ASSUME NEW s, IsList(s), NEW e
  PROVE  /\ DOMAIN Append(s, e) = 1 .. Len(s) + 1 /\ Append(s, e)[Len(s) + 1] = e
         /\ \A n \in 1 .. Len(s) : Append(s, e)[n] = s[n]
<1> DEFINE S == Range(s) \cup {e}
<1>1. s \in Seq(Range(s))
  BY DEF IsList
<1>2. s \in Seq(S) /\ e \in S
  BY <1>1
<1> HIDE DEF S
<1> QED
  BY <1>2

LEMMA FrontItems ==
  ASSUME NEW s, IsList(s), s # <<>>
  PROVE  /\ DOMAIN Front(s) = 1 .. Len(s) - 1 /\ Last(s) = s[Len(s)]
         /\ \A n \in 1 .. Len(s) - 1 : Front(s)[n] = s[n]
<1> DEFINE S == Range(s)
<1>1. s \in Seq(S) /\ s # <<>>
  BY DEF IsList
<1> HIDE DEF S
<1>2. Len(s) \in Nat \ {0}
  BY <1>1, EmptySeq
<1>3. Front(s) = [n \in 1 .. Len(s) - 1 |-> s[n]]
  BY <1>1, <1>2 DEF Front
<1> QED
  BY <1>3 DEF Last

(* Without open scopes it is the table that answers. *)
LEMMA LookupOutside ==
  ASSUME NEW p, Len(p) \in Nat, NEW local
  PROVE  /\ Lookup(symbols, << >>, p, local) = Climb(symbols, p, LAMBDA ns : <<ns, local>>)
         /\ Lookup(symbols, << >>, p, local) = Nothing \/ InTable(Lookup(symbols, << >>, p, local))
         /\ <<SubSeq(p, 1, Len(p)), local>> \in DOMAIN symbols => InTable(Lookup(symbols, << >>, p, local))
<1> DEFINE found == {n \in 0 .. Len(p) : <<SubSeq(p, 1, n), local>> \in DOMAIN symbols}
           x == Lookup(symbols, << >>, p, local)
<1>0. x = Climb(symbols, p, LAMBDA ns : <<ns, local>>)
  <2>1. {n \in DOMAIN << >> : local \in DOMAIN (<< >>[n])} = {}
    OBVIOUS
  <2> QED
    BY <2>1 DEF Lookup
<1>1. x = IF found = {} THEN Nothing ELSE symbols[<<SubSeq(p, 1, Max(found)), local>>]
  BY <1>0 DEF Climb
<1>2. found # {} => <<SubSeq(p, 1, Max(found)), local>> \in DOMAIN symbols
  <2> SUFFICES ASSUME found # {} PROVE Max(found) \in found
    OBVIOUS
  <2>1. found \in SUBSET (0 .. Len(p))
    OBVIOUS
  <2> HIDE DEF found
  <2> QED
    BY <2>1, MostOf
<1>3. <<SubSeq(p, 1, Len(p)), local>> \in DOMAIN symbols => found # {}
  <2>1. Len(p) \in 0 .. Len(p)
    OBVIOUS
  <2> QED
    BY <2>1
<1> HIDE DEF found
<1> QED
  BY <1>0, <1>1, <1>2, <1>3 DEF InTable

LEMMA LookupStored ==
  ASSUME NEW open, IsList(open), StoredScopes(open), NEW p, Len(p) \in Nat, NEW local
  PROVE  Stored(Lookup(symbols, open, p, local))
<1> DEFINE found == {n \in DOMAIN open : local \in DOMAIN open[n]}
           x == Lookup(symbols, open, p, local)
           y == Lookup(symbols, << >>, p, local)
<1>1. x = IF found # {} THEN open[Max(found)][local] ELSE y
  <2>1. {n \in DOMAIN << >> : local \in DOMAIN (<< >>[n])} = {}
    OBVIOUS
  <2> QED
    BY <2>1 DEF Lookup, Climb
<1>3. found # {} => Max(found) \in found
  <2>1. found \in SUBSET (0 .. Len(open)) /\ Len(open) \in Nat
    BY ListItems
  <2> HIDE DEF found
  <2> QED
    BY <2>1, MostOf
<1>4. found # {} => Stored(open[Max(found)][local])
  BY <1>3 DEF StoredScopes
<1>5. Stored(y)
  BY LookupOutside DEF Stored
<1> HIDE DEF found, y
<1> QED
  BY <1>1, <1>4, <1>5

LEMMA ResolveStored ==
  ASSUME NEW open, IsList(open), StoredScopes(open), NEW p, Len(p) \in Nat, NEW path
  PROVE  Stored(Resolve(symbols, open, p, path))
<1> DEFINE key(n) == <<SubSeq(p, 1, n) \o Front(path), <<Last(path)>>>>
           found == {n \in 0 .. Len(p) : key(n) \in DOMAIN symbols}
           inner == IF found = {} THEN Nothing ELSE symbols[key(Max(found))]
<1>1. Stored(inner)
  <2>1. found # {} => Max(found) \in found
    <3>1. found \in SUBSET (0 .. Len(p))
      OBVIOUS
    <3> HIDE DEF found
    <3> QED
      BY <3>1, MostOf
  <2> QED
    BY <2>1 DEF Stored, InTable
<1>2. \/ Resolve(symbols, open, p, path) = inner
      \/ \E local : Resolve(symbols, open, p, path) = Lookup(symbols, open, p, local)
  BY DEF Resolve, Climb
<1> HIDE DEF inner
<1> QED
  BY <1>1, <1>2, LookupStored

KeysPaired == \A key \in DOMAIN symbols : key = <<key[1], key[2]>>

(* The scope of a body holds symbols of the table. *)
LEMMA ScopeStored ==
  ASSUME KeysPaired, NEW f, IsList(f.imports)
  PROVE  \A local \in DOMAIN Scope(f) : Stored(Scope(f)[local])
<1> DEFINE n == Len(f.imports)
           keys(path) == Copies(path)
           copied(i) == Imported(f.imports[i])
           R == {symbols[key] : key \in DOMAIN symbols}
           V == UNION {[D -> R] : D \in SUBSET {key[2] : key \in DOMAIN symbols}}
           Copying(s) == s = [i \in 0 .. n |-> IF i = 0 THEN << >> ELSE Extend(s[i - 1], copied(i))]
           W(s) == V \cup {s[i] : i \in 0 .. n}
           step(s) == [p \in (0 .. n) \X W(s) |-> Extend(p[2], copied(p[1]))]
           scope == CHOOSE s : Copying(s)
<1>1. Scope(f) = scope[n]
  BY DEF Scope
<1>2. n \in Nat /\ 0 \in Nat /\ 0 <= n /\ n \in 0 .. n
  BY DEF IsList
<1>3. << >> \in V
  <2>1. << >> \in [{} -> R] /\ {} \in SUBSET {key[2] : key \in DOMAIN symbols}
    OBVIOUS
  <2> HIDE DEF R
  <2> QED
    BY <2>1
<1>4. ASSUME NEW i \in 0 .. n PROVE copied(i) \in V
  <2>1. \A local \in Copies(f.imports[i]) : <<f.imports[i], local>> \in DOMAIN symbols
    BY DEF KeysPaired, Copies
  <2>2. keys(f.imports[i]) \subseteq {key[2] : key \in DOMAIN symbols}
    BY DEF Copies
  <2>3. \A local \in keys(f.imports[i]) : symbols[<<f.imports[i], local>>] \in R
    BY <2>1
  <2> HIDE DEF R, keys
  <2>4. copied(i) \in [keys(f.imports[i]) -> R]
    BY <2>3 DEF Imported, keys
  <2> HIDE DEF copied
  <2> QED
    BY <2>2, <2>4
<1>5. ASSUME NEW g \in V, NEW h \in V PROVE Extend(g, h) \in V
  <2> DEFINE K == {key[2] : key \in DOMAIN symbols}
  <2> HIDE DEF R
  <2>1. PICK D \in SUBSET K : g \in [D -> R]
    OBVIOUS
  <2>2. PICK E \in SUBSET K : h \in [E -> R]
    OBVIOUS
  <2>3. Extend(g, h) \in [D \cup E -> R] /\ D \cup E \in SUBSET K
    BY <2>1, <2>2 DEF Extend
  <2> QED
    BY <2>3
<1> HIDE DEF V, copied
<1>6. ASSUME NEW s, NEW i \in 0 .. n, NEW x \in W(s) PROVE step(s)[<<i, x>>] = Extend(x, copied(i))
  OBVIOUS
<1>7. ASSUME NEW s, NEW i \in 0 .. n, NEW x \in V PROVE step(s)[<<i, x>>] \in V
  BY <1>4, <1>5, <1>6
<1> HIDE DEF step
<1>8. \E s : Copying(s)
  <2> DEFINE g == [i \in 0 .. n |-> << >>]
  <2>1. PICK s : Iteration(<< >>, step(g), 0, n, s)
    <3> HIDE DEF g, n
    <3> QED
      BY <1>2, IterationExists
  <2>2. \A i \in 0 .. n : \A x \in V : step(g)[<<i, x>>] \in V
    BY <1>7
  <2>3. s \in [0 .. n -> V]
    <3> HIDE DEF g, n
    <3> QED
      BY <1>2, <1>3, <2>1, <2>2, IterationType
  <2>4. s = [i \in 0 .. n |-> IF i = 0 THEN << >> ELSE step(g)[<<i, s[i - 1]>>]]
    BY <2>1 DEF Iteration
  <2>5. ASSUME NEW i \in 0 .. n, i # 0 PROVE step(g)[<<i, s[i - 1]>>] = Extend(s[i - 1], copied(i))
    <3>1. s[i - 1] \in W(g)
      BY <1>2, <2>3, <2>5
    <3> QED
      BY <1>6, <3>1
  <2>6. s = [i \in 0 .. n |-> IF i = 0 THEN << >> ELSE Extend(s[i - 1], copied(i))]
    BY <2>4, <2>5
  <2> QED
    BY <2>6
<1>9. Copying(scope)
  BY <1>8
<1> HIDE DEF scope
<1>10. Iteration(<< >>, step(scope), 0, n, scope)
  <2>1. ASSUME NEW i \in 0 .. n, i # 0 PROVE step(scope)[<<i, scope[i - 1]>>] = Extend(scope[i - 1], copied(i))
    <3>1. scope[i - 1] \in W(scope)
      BY <1>2, <2>1
    <3> QED
      BY <1>6, <3>1
  <2>2. scope = [i \in 0 .. n |-> IF i = 0 THEN << >> ELSE step(scope)[<<i, scope[i - 1]>>]]
    BY <1>9, <2>1
  <2> QED
    BY <2>2 DEF Iteration
<1>11. \A i \in 0 .. n : \A x \in V : step(scope)[<<i, x>>] \in V
  BY <1>7
<1>12. scope \in [0 .. n -> V]
  <2> HIDE DEF n
  <2> QED
    BY <1>2, <1>3, <1>10, <1>11, IterationType
<1>13. \A g \in V : \A local \in DOMAIN g : Stored(g[local])
  BY DEF V, Stored, InTable
<1> QED
  BY <1>1, <1>2, <1>12, <1>13

-----------------------------------------------------------------------------
(* Private declarations stay at home *)

(* Declaration k = 0 of item i of module m of program p, and method k of a *)
(* struct. *)
Declared(p, m, i, k) ==
  /\ m \in 1 .. Len(p) /\ i \in 1 .. Len(p[m].body)
  /\ LET d == p[m].body[i]
     IN  \/ k = 0 /\ d.kind \in {"func", "struct", "enum", "global"}
         \/ d.kind = "struct" /\ k \in DOMAIN d.methods

HomeOf(p, m, i, k) ==
  LET d == p[m].body[i]
  IN  (p[m].path \o SpaceOf(p[m].body, i))
        \o (IF k = 0 THEN <<d.name>> ELSE <<d.name, d.methods[k].name>>)

VariantAt(p, m, i, v) ==
  /\ m \in 1 .. Len(p) /\ i \in 1 .. Len(p[m].body)
  /\ p[m].body[i].kind = "enum" /\ v \in Range(p[m].body[i].variants)

VariantHome(p, m, i, v) == (p[m].path \o SpaceOf(p[m].body, i)) \o <<v>>

DeclaredOnce(p) ==
  /\ \A m, n, i, j, k, l \in Nat :
       (Declared(p, m, i, k) /\ Declared(p, n, j, l) /\ HomeOf(p, m, i, k) = HomeOf(p, n, j, l))
         => m = n /\ i = j /\ k = l
  /\ \A m, n, i, j, k \in Nat : \A v :
       (Declared(p, m, i, k) /\ VariantAt(p, n, j, v)) => HomeOf(p, m, i, k) # VariantHome(p, n, j, v)

NoneAhead(p) ==
  \A m \in 1 .. Len(p) : \A i \in 1 .. Len(p[m].body) :
    p[m].body[i].kind = "func" => p[m].body[i].defined = TRUE

SwitchesApart(p) ==
  \A m \in 1 .. Len(p) : \A k \in 1 .. Len(Carriers(p[m].body)) :
    ~ {"hide", "unhide"} \subseteq Attributes(p[m].body, k)

(* Every full name is declared once, functions with their bodies at once,  *)
(* and no declaration switches @hide on and off.                           *)
PlainlyDeclared(p) == DeclaredOnce(p) /\ NoneAhead(p) /\ SwitchesApart(p)

(* A symbol is that of a declaration, or a variant. *)
Declares(p, s, m, i, k) ==
  /\ Declared(p, m, i, k) /\ s.home = HomeOf(p, m, i, k) /\ s.owner = p[m].path
  /\ s.private <=> <<i, k>> \in HidePass(p[m].body)

Truthful(p, s) ==
  \/ \E m, i, k \in Nat : Declares(p, s, m, i, k)
  \/ \E m, i \in Nat : \E v : VariantAt(p, m, i, v) /\ s.home = VariantHome(p, m, i, v)

Sound(p, s) == s.kind # "none" /\ s.defined = TRUE /\ Truthful(p, s)

SoundTable(t) == \A key \in DOMAIN t : key = <<key[1], key[2]>> /\ Sound(program, t[key])

SoundScopes(s) == \A n \in DOMAIN s : \A local \in DOMAIN s[n] : Sound(program, s[n][local])

TableTruthful ==
  /\ \A key \in DOMAIN symbols : key = <<key[1], key[2]>> /\ Sound(program, symbols[key])
  /\ SoundScopes(scopes)

BoundTruthful == \A b \in bound : b.symbol = Nothing \/ Sound(program, b.symbol)

PrivateInPhase ==
  phase \in {"import", "collect", "analyze", "leave"} => private = HidePass(Here.body)

LEMMA CurrentHere ==
  ASSUME NamesInvariant, phase \in {"collect", "analyze"}, Item.kind \notin {"enter", "exit"}
  PROVE  /\ current = Here.path \o SpaceOf(Here.body, at) /\ Len(current) \in Nat
         /\ at \in 1 .. Len(Here.body) /\ module \in 1 .. Len(program)
         /\ at \in Nat /\ module \in Nat
         /\ Item = program[module].body[at] /\ Here = program[module]
<1>1. /\ Nested(Here.body) /\ at \in 1 .. Len(Here.body) /\ Len(Here.body) \in Nat
      /\ Item = Here.body[at] /\ Here = program[module] /\ module \in 1 .. Len(program)
      /\ Len(program) \in Nat
  BY HereShape DEF NamesInvariant, Item, Here
<1>2. SpaceOf(Here.body, at) = SpaceOf(Here.body, at - 1)
  BY <1>1, SpaceStep
<1>3. current = Here.path \o SpaceOf(Here.body, at)
  <2>1. at = 1 => at - 1 = 0
    OBVIOUS
  <2> QED
    BY <1>2, <2>1 DEF NamesInvariant, SpacesFollow
<1>4. current \in Seq(STRING)
  BY DEF NamesInvariant, SpacesFollow, SpacesClosed
<1>5. Len(current) \in Nat
  BY <1>4
<1>6. at \in Nat /\ module \in Nat
  BY <1>1
<1>7. Item = program[module].body[at]
  BY <1>1
<1> QED
  BY <1>1, <1>3, <1>5, <1>6, <1>7

(* The symbol of a declaration says whose it is. *)
LEMMA SymbolSound ==
  ASSUME NamesInvariant, PrivateInPhase, phase \in {"collect", "analyze"},
         NEW kind, kind # "none", NEW k \in Nat, NEW local,
         \/ k = 0 /\ Item.kind \in {"func", "struct", "enum", "global"} /\ local = <<Item.name>>
         \/ /\ k # 0 /\ Item.kind = "struct" /\ k \in DOMAIN Item.methods
            /\ local = <<Item.name, Item.methods[k].name>>
  PROVE  Sound(program, Symbol(kind, local, TRUE, <<at, k>>))
<1> DEFINE s == Symbol(kind, local, TRUE, <<at, k>>)
<1>1. /\ current = Here.path \o SpaceOf(Here.body, at)
      /\ at \in 1 .. Len(Here.body) /\ module \in 1 .. Len(program)
      /\ at \in Nat /\ module \in Nat
      /\ Item = program[module].body[at] /\ Here = program[module]
  BY CurrentHere
<1>2. /\ s.kind = kind /\ s.defined = TRUE /\ s.owner = Here.path /\ s.home = current \o local
      /\ s.private <=> <<at, k>> \in private
  BY DEF Symbol
<1> HIDE DEF s
<1>3. private = HidePass(Here.body)
  BY DEF PrivateInPhase
<1>4. Declared(program, module, at, k)
  BY <1>1 DEF Declared
<1>5. s.home = HomeOf(program, module, at, k)
  BY <1>1, <1>2 DEF HomeOf
<1>6. Declares(program, s, module, at, k)
  BY <1>1, <1>2, <1>3, <1>4, <1>5 DEF Declares
<1>7. Truthful(program, s)
  BY <1>1, <1>6 DEF Truthful
<1> QED
  BY <1>2, <1>7 DEF Sound, s

LEMMA VariantSound ==
  ASSUME NamesInvariant, phase \in {"collect", "analyze"}, Item.kind = "enum", NEW v \in Range(Item.variants)
  PROVE  Sound(program, Symbol("const", <<v>>, TRUE, << >>))
<1> DEFINE s == Symbol("const", <<v>>, TRUE, << >>)
<1>1. /\ current = Here.path \o SpaceOf(Here.body, at)
      /\ at \in 1 .. Len(Here.body) /\ module \in 1 .. Len(program)
      /\ at \in Nat /\ module \in Nat
      /\ Item = program[module].body[at] /\ Here = program[module]
  BY CurrentHere
<1>2. s.kind = "const" /\ s.defined = TRUE /\ s.home = current \o <<v>>
  BY DEF Symbol
<1> HIDE DEF s
<1>3. VariantAt(program, module, at, v) /\ s.home = VariantHome(program, module, at, v)
  BY <1>1, <1>2 DEF VariantAt, VariantHome
<1>4. Truthful(program, s)
  BY <1>1, <1>3 DEF Truthful
<1> QED
  BY <1>2, <1>4 DEF Sound, s

(* Growing the table by sound symbols keeps it sound. *)
LEMMA ExtendSound ==
  ASSUME NEW f, NEW g,
         \A key \in DOMAIN f : key = <<key[1], key[2]>> /\ Sound(program, f[key]),
         \A key \in DOMAIN g : key = <<key[1], key[2]>> /\ Sound(program, g[key])
  PROVE  \A key \in DOMAIN Extend(f, g) : key = <<key[1], key[2]>> /\ Sound(program, Extend(f, g)[key])
<1> TAKE key \in DOMAIN Extend(f, g)
<1>1. key \in DOMAIN f \cup DOMAIN g /\ Extend(f, g)[key] = IF key \in DOMAIN f THEN f[key] ELSE g[key]
  BY DEF Extend
<1> QED
  BY <1>1

LEMMA WithSound ==
  ASSUME TableTruthful, NEW space, NEW local, NEW s, Sound(program, s)
  PROVE  \A key \in DOMAIN With(<<space, local>>, s) :
           key = <<key[1], key[2]>> /\ Sound(program, With(<<space, local>>, s)[key])
<1> DEFINE f == [k \in {<<space, local>>} |-> s]
<1>1. \A key \in DOMAIN f : key = <<key[1], key[2]>> /\ Sound(program, f[key])
  OBVIOUS
<1>2. With(<<space, local>>, s) = Extend(f, symbols)
  BY DEF With
<1> HIDE DEF f
<1>3. \A key \in DOMAIN symbols : key = <<key[1], key[2]>> /\ Sound(program, symbols[key])
  BY DEF TableTruthful
<1>4. \A key \in DOMAIN Extend(f, symbols) : key = <<key[1], key[2]>> /\ Sound(program, Extend(f, symbols)[key])
  BY <1>1, <1>3, ExtendSound
<1> QED
  BY <1>2, <1>4

(* What declare_symbol adds is sound where it goes. *)
LEMMA DeclareSound ==
  ASSUME TableTruthful, IsList(scopes), NEW entries, Declare(entries),
         \A local \in DOMAIN entries : Sound(program, entries[local])
  PROVE  SoundTable(symbols') /\ SoundScopes(scopes')
<1>1. SoundTable(symbols) /\ SoundScopes(scopes)
  BY DEF TableTruthful, SoundTable
<1>2. CASE scopes = <<>>
  <2> DEFINE made == [key \in {current} \X DOMAIN entries |-> entries[key[2]]]
  <2>1. symbols' = Extend(symbols, made) /\ scopes' = scopes
    BY <1>2 DEF Declare
  <2>2. \A key \in DOMAIN made : key = <<key[1], key[2]>> /\ Sound(program, made[key])
    OBVIOUS
  <2> HIDE DEF made
  <2>3. SoundTable(Extend(symbols, made))
    BY <1>1, <2>2, ExtendSound DEF SoundTable
  <2> QED
    BY <1>1, <2>1, <2>3
<1>3. CASE scopes # <<>>
  <2> DEFINE e == Extend(Last(scopes), entries)
             front == Front(scopes)
  <2>1. symbols' = symbols /\ scopes' = Append(front, e)
    BY <1>3 DEF Declare
  <2>2. /\ DOMAIN front = 1 .. Len(scopes) - 1 /\ Last(scopes) = scopes[Len(scopes)]
        /\ \A n \in 1 .. Len(scopes) - 1 : front[n] = scopes[n]
        /\ IsList(front) /\ Len(front) = Len(scopes) - 1 /\ Len(scopes) \in Nat \ {0}
        /\ DOMAIN scopes = 1 .. Len(scopes)
    BY <1>3, FrontItems, ListFront, ListItems
  <2>3. \A local \in DOMAIN e : Sound(program, e[local])
    <3>1. \A local \in DOMAIN Last(scopes) : Sound(program, Last(scopes)[local])
      BY <1>1, <2>2 DEF SoundScopes
    <3> QED
      BY <3>1 DEF Extend
  <2> HIDE DEF e, front
  <2>4. /\ DOMAIN scopes' = 1 .. Len(front) + 1 /\ scopes'[Len(front) + 1] = e
        /\ \A n \in 1 .. Len(front) : scopes'[n] = front[n]
    BY <2>1, <2>2, AppendItems
  <2>5. ASSUME NEW n \in DOMAIN scopes', NEW local \in DOMAIN scopes'[n]
        PROVE  Sound(program, scopes'[n][local])
    <3>1. CASE n = Len(front) + 1
      BY <2>3, <2>4, <2>5, <3>1
    <3>2. CASE n # Len(front) + 1
      <4>1. n \in 1 .. Len(scopes) - 1 /\ n \in 1 .. Len(front) /\ n \in DOMAIN scopes
        BY <2>2, <2>4, <3>2
      <4>2. scopes'[n] = scopes[n]
        BY <2>2, <2>4, <4>1
      <4> QED
        BY <1>1, <2>5, <4>1, <4>2 DEF SoundScopes
    <3> QED
      BY <3>1, <3>2
  <2> QED
    BY <1>1, <2>1, <2>5 DEF SoundScopes
<1> QED
  BY <1>2, <1>3

(* Scopes that open and close. *)
LEMMA ScopesSound ==
  ASSUME SoundScopes(scopes), IsList(scopes),
         \/ scopes' = scopes \/ scopes' = Append(scopes, << >>)
         \/ scopes # <<>> /\ scopes' = Front(scopes)
  PROVE  SoundScopes(scopes')
<1>1. DOMAIN scopes = 1 .. Len(scopes) /\ Len(scopes) \in Nat
  BY ListItems
<1>2. CASE scopes' = scopes
  BY <1>2
<1>3. CASE scopes' = Append(scopes, << >>)
  <2>1. /\ DOMAIN scopes' = 1 .. Len(scopes) + 1 /\ scopes'[Len(scopes) + 1] = << >>
        /\ \A n \in 1 .. Len(scopes) : scopes'[n] = scopes[n]
    BY <1>3, AppendItems
  <2>2. ASSUME NEW n \in DOMAIN scopes', NEW local \in DOMAIN scopes'[n]
        PROVE  Sound(program, scopes'[n][local])
    <3>1. n # Len(scopes) + 1
      BY <2>1, <2>2
    <3>2. n \in 1 .. Len(scopes)
      BY <1>1, <2>1, <3>1
    <3> QED
      BY <1>1, <2>1, <2>2, <3>2 DEF SoundScopes
  <2> QED
    BY <2>2 DEF SoundScopes
<1>4. CASE scopes # <<>> /\ scopes' = Front(scopes)
  <2>1. DOMAIN scopes' = 1 .. Len(scopes) - 1 /\ \A n \in 1 .. Len(scopes) - 1 : scopes'[n] = scopes[n]
    BY <1>4, FrontItems
  <2>2. 1 .. Len(scopes) - 1 \subseteq 1 .. Len(scopes)
    BY <1>1
  <2> QED
    BY <1>1, <2>1, <2>2 DEF SoundScopes
<1> QED
  BY <1>2, <1>3, <1>4

LEMMA UsingSound ==
  ASSUME TableTruthful, IsList(scopes), NEW path, Using(path)
  PROVE  SoundTable(symbols') /\ SoundScopes(scopes')
<1>1. CASE path \in spaces
  <2>1. Declare(Imported(path))
    BY <1>1 DEF Using
  <2>2. ASSUME NEW local \in DOMAIN Imported(path) PROVE Sound(program, Imported(path)[local])
    <3>1. local \in Copies(path) /\ Imported(path)[local] = symbols[<<path, local>>]
      BY DEF Imported
    <3>2. <<path, local>> \in DOMAIN symbols
      BY <3>1 DEF Copies, TableTruthful
    <3> QED
      BY <3>1, <3>2 DEF TableTruthful
  <2> DEFINE g == Imported(path)
  <2>3. \A local \in DOMAIN g : Sound(program, g[local])
    BY <2>2
  <2> HIDE DEF g
  <2> QED
    BY <2>1, <2>3, DeclareSound DEF g
<1>2. CASE path \notin spaces
  BY <1>2 DEF Using, TableTruthful, SoundTable
<1> QED
  BY <1>1, <1>2

LEMMA FunctionSound ==
  ASSUME NamesInvariant, PrivateInPhase, TableTruthful, phase = "collect", Item.kind = "func",
         Item.defined = TRUE, CollectFunction(Item)
  PROVE  SoundTable(symbols')
<1> DEFINE f == Item
           existing == Lookup(symbols, << >>, current, <<f.name>>)
           s == Symbol("func", <<f.name>>, TRUE, <<at, 0>>)
<1>1. SoundTable(symbols)
  BY DEF TableTruthful, SoundTable
<1>2. Sound(program, s)
  BY SymbolSound
<1>3. existing = Nothing \/ existing.defined = TRUE
  <2>2. Len(current) \in Nat
    BY CurrentHere
  <2>3. existing = Nothing \/ InTable(existing)
    BY <2>2, LookupOutside
  <2> HIDE DEF existing
  <2> QED
    BY <2>3 DEF InTable, TableTruthful, Sound
<1>4. symbols' = With(<<current, <<f.name>>>>, s) \/ symbols' = symbols
  BY <1>3 DEF CollectFunction
<1> HIDE DEF s
<1>5. SoundTable(With(<<current, <<f.name>>>>, s))
  BY <1>2, WithSound DEF SoundTable
<1> QED
  BY <1>1, <1>4, <1>5

LEMMA GlobalSound ==
  ASSUME NamesInvariant, PrivateInPhase, TableTruthful, phase = "analyze", Item.kind = "global",
         AnalyzeGlobal(Item)
  PROVE  SoundTable(symbols') /\ SoundScopes(scopes')
<1> DEFINE kind == IF Item.mut THEN "global" ELSE "const"
           entries == [local \in {<<Item.name>>} |-> Symbol(kind, local, TRUE, <<at, 0>>)]
<1>1. kind # "none"
  OBVIOUS
<1>2. Declare(entries) \/ (symbols' = symbols /\ scopes' = scopes)
  BY DEF AnalyzeGlobal
<1>3. \A local \in DOMAIN entries : Sound(program, entries[local])
  <2> HIDE DEF kind
  <2>1. Sound(program, Symbol(kind, <<Item.name>>, TRUE, <<at, 0>>))
    BY <1>1, SymbolSound
  <2> QED
    BY <2>1
<1>4. IsList(scopes)
  BY DEF NamesInvariant, ScopesFollow
<1> HIDE DEF entries
<1>5. CASE Declare(entries)
  BY <1>3, <1>4, <1>5, DeclareSound
<1>6. CASE symbols' = symbols /\ scopes' = scopes
  BY <1>6 DEF TableTruthful, SoundTable
<1> QED
  BY <1>2, <1>5, <1>6

LEMMA EnumSound ==
  ASSUME NamesInvariant, PrivateInPhase, TableTruthful, phase = "collect", Item.kind = "enum",
         CollectEnum(Item)
  PROVE  SoundTable(symbols')
<1> DEFINE s == Symbol("enum", <<Item.name>>, TRUE, <<at, 0>>)
           variants == [key \in {<<current, <<v>>>> : v \in Range(Item.variants)} |->
                          Symbol("const", <<key[2][1]>>, TRUE, << >>)]
           grown == With(<<current, <<Item.name>>>>, s)
<1>1. SoundTable(symbols)
  BY DEF TableTruthful, SoundTable
<1>2. Sound(program, s)
  BY SymbolSound
<1>3. symbols' = Extend(grown, variants) \/ symbols' = symbols
  BY DEF CollectEnum
<1>4. ASSUME NEW key \in DOMAIN variants
      PROVE  key = <<key[1], key[2]>> /\ Sound(program, variants[key])
  <2>1. PICK v \in Range(Item.variants) : key = <<current, <<v>>>>
    OBVIOUS
  <2>2. variants[key] = Symbol("const", <<v>>, TRUE, << >>)
    BY <2>1
  <2>3. Sound(program, Symbol("const", <<v>>, TRUE, << >>))
    BY VariantSound
  <2> HIDE DEF variants
  <2> QED
    BY <2>1, <2>2, <2>3
<1> HIDE DEF s, variants
<1>5. SoundTable(grown)
  BY <1>2, WithSound DEF SoundTable
<1> HIDE DEF grown
<1>6. SoundTable(Extend(grown, variants))
  BY <1>4, <1>5, ExtendSound DEF SoundTable
<1> QED
  BY <1>1, <1>3, <1>6

LEMMA StructSound ==
  ASSUME NamesInvariant, PrivateInPhase, TableTruthful, phase = "collect", Item.kind = "struct",
         CollectStruct(Item)
  PROVE  SoundTable(symbols')
<1> DEFINE Method(m) == Symbol("func", <<Item.name, Item.methods[m].name>>, TRUE, <<at, m>>)
           First(name) == CHOOSE m \in DOMAIN Item.methods :
                            Item.methods[m].name = name /\ \A l \in 1 .. m - 1 : Item.methods[l].name # name
           names == {Item.methods[m].name : m \in DOMAIN Item.methods}
           plain == Symbol("struct", <<Item.name>>, TRUE, <<at, 0>>)
           struct == Extend([methods |-> names], plain)
           methods == [key \in {<<current, <<Item.name, m>>>> : m \in names} |-> Method(First(key[2][2]))]
           grown == With(<<current, <<Item.name>>>>, struct)
<1>1. SoundTable(symbols)
  BY DEF TableTruthful, SoundTable
<1>2. Sound(program, struct)
  <2>1. Sound(program, plain)
    BY SymbolSound
  <2>2. DOMAIN plain = {"kind", "private", "owner", "home", "defined"} /\ DOMAIN [methods |-> names] = {"methods"}
    BY DEF Symbol
  <2>3. \A x \in {"kind", "private", "owner", "home", "defined"} : struct[x] = plain[x]
    <3> TAKE x \in {"kind", "private", "owner", "home", "defined"}
    <3>1. x \notin {"methods"}
      OBVIOUS
    <3> HIDE DEF plain, names
    <3> QED
      BY <2>2, <3>1 DEF Extend
  <2>4. /\ struct.kind = plain.kind /\ struct.private = plain.private /\ struct.owner = plain.owner
        /\ struct.home = plain.home /\ struct.defined = plain.defined
    BY <2>3
  <2> HIDE DEF struct, plain
  <2> QED
    BY <2>1, <2>4 DEF Sound, Truthful, Declares
<1>3. symbols' = Extend(grown, methods) \/ symbols' = symbols
  BY DEF CollectStruct
<1>4. IsList(Item.methods) /\ DOMAIN Item.methods \in SUBSET (Nat \ {0})
  <2>1. Listed(Here.body) /\ at \in 1 .. Len(Here.body) /\ Item = Here.body[at]
    BY CurrentHere, ProgramShape DEF NamesInvariant, Placed, Item, Here
  <2> QED
    BY <2>1 DEF Listed, IsList
<1>5. ASSUME NEW name \in names
      PROVE  First(name) \in DOMAIN Item.methods /\ Item.methods[First(name)].name = name
  <2> DEFINE T == {m \in DOMAIN Item.methods : Item.methods[m].name = name}
  <2>1. T \in SUBSET Nat /\ T # {}
    BY <1>4
  <2>2. PICK m \in T : \A l \in T : m <= l
    BY <2>1, LeastOf
  <2>3. \A l \in 1 .. m - 1 : Item.methods[l].name # name
    <3> TAKE l \in 1 .. m - 1
    <3>1. l \in DOMAIN Item.methods /\ ~(m <= l)
      BY <1>4, <2>2 DEF IsList
    <3> QED
      BY <2>2, <3>1
  <2> QED
    BY <2>2, <2>3
<1> HIDE DEF First
<1>6. ASSUME NEW key \in DOMAIN methods
      PROVE  key = <<key[1], key[2]>> /\ Sound(program, methods[key])
  <2>1. PICK name \in names : key = <<current, <<Item.name, name>>>>
    OBVIOUS
  <2>2. methods[key] = Method(First(name))
    BY <2>1
  <2>3. Sound(program, Method(First(name)))
    <3> DEFINE m == First(name)
    <3>1. m \in DOMAIN Item.methods /\ m \in Nat /\ m # 0
      BY <1>4, <1>5
    <3> HIDE DEF m
    <3> QED
      BY <3>1, SymbolSound DEF m
  <2> HIDE DEF methods, Method
  <2> QED
    BY <2>1, <2>2, <2>3
<1> HIDE DEF struct, methods
<1>7. SoundTable(grown)
  BY <1>2, WithSound DEF SoundTable
<1> HIDE DEF grown
<1>8. SoundTable(Extend(grown, methods))
  BY <1>6, <1>7, ExtendSound DEF SoundTable
<1> QED
  BY <1>1, <1>3, <1>8

LEMMA TargetSound ==
  ASSUME TableTruthful, IsList(scopes), Len(current) \in Nat, NEW f, IsList(f.imports), NEW use
  PROVE  Target(f, use) = Nothing \/ Sound(program, Target(f, use))
<1> DEFINE scope == Scope(f)
           open == Append(scopes, scope)
<1>1. KeysPaired
  BY DEF KeysPaired, TableTruthful
<1>2. \A local \in DOMAIN scope : Stored(scope[local])
  BY <1>1, ScopeStored
<1>5. \/ Target(f, use) = Resolve(symbols, open, current, use.path)
      \/ \E local : Target(f, use) = Lookup(symbols, open, current, local)
  BY DEF Target
<1> HIDE DEF scope
<1>3. IsList(open) /\ StoredScopes(open)
  <2>1. IsList(open)
    BY ListAppend
  <2>2. /\ DOMAIN open = 1 .. Len(scopes) + 1 /\ open[Len(scopes) + 1] = scope
        /\ \A n \in 1 .. Len(scopes) : open[n] = scopes[n]
    BY AppendItems
  <2>3. DOMAIN scopes = 1 .. Len(scopes) /\ Len(scopes) \in Nat
    BY ListItems
  <2> HIDE DEF open
  <2>4. ASSUME NEW n \in DOMAIN open, NEW local \in DOMAIN open[n] PROVE Stored(open[n][local])
    <3>1. CASE n = Len(scopes) + 1
      BY <1>2, <2>2, <2>4, <3>1
    <3>2. CASE n # Len(scopes) + 1
      <4>1. n \in DOMAIN scopes /\ open[n] = scopes[n]
        BY <2>2, <2>3, <3>2
      <4> QED
        BY <2>4, <4>1 DEF Stored
    <3> QED
      BY <3>1, <3>2
  <2> QED
    BY <2>1, <2>4 DEF StoredScopes
<1> HIDE DEF open
<1>6. Stored(Target(f, use))
  BY <1>3, <1>5, ResolveStored, LookupStored
<1> QED
  BY <1>6 DEF Stored, InTable, TableTruthful, SoundScopes

LEMMA BoundSound ==
  ASSUME NamesInvariant, TableTruthful, Analyze, NEW b \in bound' \ bound
  PROVE  b.symbol = Nothing \/ Sound(program, b.symbol)
<1>1. phase = "analyze" /\ (Item.kind = "func" \/ Item.kind = "struct")
  BY DEF Analyze
<1>2. /\ Len(current) \in Nat /\ Item = Here.body[at] /\ at \in 1 .. Len(Here.body) /\ Listed(Here.body)
  <2>1. Listed(Here.body)
    BY ProgramShape DEF NamesInvariant, Placed, Here
  <2> QED
    BY <1>1, <2>1, CurrentHere DEF Item, Here
<1>5. IsList(scopes)
  BY DEF NamesInvariant, ScopesFollow
<1>3. CASE Item.kind = "func"
  <2>1. IsList(Item.imports)
    BY <1>2, <1>3 DEF Listed
  <2> DEFINE uses == IF Item.defined THEN DOMAIN Item.uses ELSE {}
             Found(u) == [site |-> Site(current, Item, u), symbol |-> Target(Item, Item.uses[u])]
  <2>2. bound' = bound \cup {Found(u) : u \in uses}
    BY <1>3 DEF Analyze, AnalyzeFunction
  <2> HIDE DEF uses
  <2>3. PICK u \in uses : b = Found(u)
    BY <2>2
  <2>4. b.symbol = Target(Item, Item.uses[u])
    BY <2>3
  <2> QED
    BY <1>2, <1>5, <2>1, <2>4, TargetSound
<1>4. CASE Item.kind = "struct"
  <2>1. \A m \in DOMAIN Item.methods : IsList(Item.methods[m].imports)
    BY <1>2, <1>4 DEF Listed, Range
  <2>2. AnalyzeStruct(Item)
    BY <1>4 DEF Analyze
  <2> DEFINE met == {m \in DOMAIN Item.methods : IsMethod(Item.methods[m])}
             Found(m, u) == [site |-> Site(current, Item.methods[m], u),
                             symbol |-> Target(Item.methods[m], Item.methods[m].uses[u])]
             new == UNION {{Found(m, u) : u \in DOMAIN Item.methods[m].uses} : m \in met}
  <2>4. bound' = bound \cup new
    BY <2>2 DEF AnalyzeStruct
  <2>5. met \subseteq DOMAIN Item.methods
    OBVIOUS
  <2>6. \A m, u : Found(m, u).symbol = Target(Item.methods[m], Item.methods[m].uses[u])
    OBVIOUS
  <2> HIDE DEF met, Found
  <2>7. b \in new
    <3> HIDE DEF new
    <3> QED
      BY <2>4
  <2>8. \E m \in met : \E u : b = Found(m, u)
    BY <2>7
  <2>3. \E m \in DOMAIN Item.methods : \E u : b.symbol = Target(Item.methods[m], Item.methods[m].uses[u])
    BY <2>5, <2>6, <2>8
  <2> QED
    BY <1>2, <1>5, <2>1, <2>3, TargetSound
<1> QED
  BY <1>1, <1>3, <1>4

HomeInvariant ==
  /\ UsesInvariant /\ PrivateInPhase
  /\ NoneAhead(program) => TableTruthful /\ BoundTruthful

LEMMA HomeInit == Init => HomeInvariant
<1> SUFFICES ASSUME Init PROVE HomeInvariant
  OBVIOUS
<1>1. UsesInvariant
  BY UsesInit
<1>2. PrivateInPhase /\ TableTruthful /\ BoundTruthful
  BY DEF Init, PrivateInPhase, TableTruthful, SoundScopes, BoundTruthful
<1> QED
  BY <1>1, <1>2 DEF HomeInvariant

(* A step that keeps the table and what is bound. *)
LEMMA TruthKept ==
  ASSUME NoneAhead(program) => TableTruthful /\ BoundTruthful, UNCHANGED program,
         NoneAhead(program) /\ TableTruthful => SoundTable(symbols') /\ SoundScopes(scopes'),
         NoneAhead(program) /\ TableTruthful =>
           \A b \in bound' \ bound : b.symbol = Nothing \/ Sound(program, b.symbol)
  PROVE  (NoneAhead(program) => TableTruthful /\ BoundTruthful)'
<1> SUFFICES ASSUME NoneAhead(program) PROVE TableTruthful' /\ BoundTruthful'
  OBVIOUS
<1>1. TableTruthful'
  <2>1. SoundTable(symbols') /\ SoundScopes(scopes')
    OBVIOUS
  <2> QED
    BY <2>1 DEF TableTruthful, SoundTable, SoundScopes, Sound, Truthful
<1>2. BoundTruthful'
  BY DEF BoundTruthful
<1> QED
  BY <1>1, <1>2

LEMMA SameTable ==
  ASSUME TableTruthful, UNCHANGED <<symbols, scopes>>
  PROVE  SoundTable(symbols') /\ SoundScopes(scopes')
  BY DEF TableTruthful, SoundTable

LEMMA SameScopes == ASSUME TableTruthful, UNCHANGED scopes PROVE SoundScopes(scopes')
  BY DEF TableTruthful

LEMMA HomeStep ==
  ASSUME HomeInvariant, [Next]_vars
  PROVE  HomeInvariant'
<1>0. /\ UsesInvariant /\ NamesInvariant /\ PrivateInPhase
      /\ NoneAhead(program) => TableTruthful /\ BoundTruthful
  BY DEF HomeInvariant, UsesInvariant
<1>1. CASE Hide
  <2>1. UsesInvariant'
    BY <1>0, <1>1, HideUses
  <2>2. private' = HidePass(Here.body) /\ UNCHANGED <<program, module, symbols, scopes, bound>> /\ Here' = Here
    BY <1>1 DEF Hide, Here
  <2>3. PrivateInPhase'
    BY <2>2 DEF PrivateInPhase
  <2> QED
    BY <1>0, <2>1, <2>2, <2>3, SameTable, TruthKept DEF HomeInvariant
<1>2. CASE Import
  <2>1. UsesInvariant'
    BY <1>0, <1>2, ImportUses
  <2>2. UNCHANGED <<program, module, private, bound>> /\ Here' = Here /\ phase = "import"
    BY <1>2 DEF Import, Here
  <2>3. PrivateInPhase'
    BY <1>0, <2>2 DEF PrivateInPhase
  <2>4. TableTruthful => SoundTable(symbols') /\ SoundScopes(scopes')
    <3>1. Using(Item.path) \/ UNCHANGED <<symbols, scopes>>
      BY <1>2 DEF Import
    <3>2. IsList(scopes)
      BY <1>0 DEF NamesInvariant, ScopesFollow
    <3> QED
      BY <3>1, <3>2, UsingSound, SameTable
  <2> QED
    BY <1>0, <2>1, <2>2, <2>3, <2>4, TruthKept DEF HomeInvariant
<1>3. CASE Collect
  <2>1. UsesInvariant'
    BY <1>0, <1>3, CollectUses
  <2>2. UNCHANGED <<program, module, private, scopes, bound>> /\ Here' = Here /\ phase = "collect"
    BY <1>3 DEF Collect, Here, table
  <2>3. PrivateInPhase'
    BY <1>0, <2>2 DEF PrivateInPhase
  <2>4. NoneAhead(program) /\ TableTruthful => SoundTable(symbols') /\ SoundScopes(scopes')
    <3> SUFFICES ASSUME NoneAhead(program), TableTruthful PROVE SoundTable(symbols')
      BY <2>2, SameScopes
    <3>1. \/ UNCHANGED symbols
          \/ Item.kind = "func" /\ CollectFunction(Item)
          \/ Item.kind = "struct" /\ CollectStruct(Item)
          \/ Item.kind = "enum" /\ CollectEnum(Item)
      BY <1>3 DEF Collect, table
    <3>2. Item.kind = "func" => Item.defined = TRUE
      BY <1>0, <2>2, CurrentHere DEF NoneAhead
    <3> QED
      BY <1>0, <2>2, <3>1, <3>2, SameTable, FunctionSound, StructSound, EnumSound
  <2> QED
    BY <1>0, <2>1, <2>2, <2>3, <2>4, TruthKept DEF HomeInvariant
<1>4. CASE Analyze
  <2>1. UsesInvariant'
    BY <1>0, <1>4, AnalyzeUses
  <2>2. UNCHANGED <<program, module, private>> /\ Here' = Here /\ phase = "analyze"
    BY <1>4 DEF Analyze, Here
  <2>3. PrivateInPhase'
    BY <1>0, <2>2 DEF PrivateInPhase
  <2>4. TableTruthful => SoundTable(symbols') /\ SoundScopes(scopes')
    <3>1. \/ UNCHANGED symbols /\ Item.kind # "exit" /\ (scopes' = scopes \/ scopes' = Append(scopes, << >>))
          \/ UNCHANGED symbols /\ Item.kind = "exit" /\ scopes' = Front(scopes)
          \/ Item.kind = "global" /\ AnalyzeGlobal(Item)
          \/ Using(Item.path)
      BY <1>4 DEF Analyze, table
    <3>2. IsList(scopes)
      BY <1>0 DEF NamesInvariant, ScopesFollow
    <3>3. Item.kind = "exit" => scopes # <<>>
      BY <1>0, <2>2, ExitOpen
    <3>4. ASSUME TableTruthful, UNCHANGED symbols PROVE SoundTable(symbols') /\ SoundScopes(scopes)
      BY <3>4 DEF TableTruthful, SoundTable
    <3> QED
      BY <1>0, <2>2, <3>1, <3>2, <3>3, <3>4, ScopesSound, GlobalSound, UsingSound
  <2>5. TableTruthful => \A b \in bound' \ bound : b.symbol = Nothing \/ Sound(program, b.symbol)
    BY <1>0, <1>4, BoundSound
  <2> QED
    BY <1>0, <2>1, <2>2, <2>3, <2>4, <2>5, TruthKept DEF HomeInvariant
<1>5. CASE Leave
  <2>1. UsesInvariant'
    BY <1>0, <1>5, LeaveUses
  <2>2. UNCHANGED <<program, symbols, scopes, bound>> /\ phase' \in {"failed", "hide", "register"}
    BY <1>5 DEF Leave
  <2>3. PrivateInPhase'
    BY <2>2 DEF PrivateInPhase
  <2> QED
    BY <1>0, <2>1, <2>2, <2>3, SameTable, TruthKept DEF HomeInvariant
<1>6. CASE Register
  <2>1. UsesInvariant'
    BY <1>0, <1>6, RegisterUses
  <2>2. UNCHANGED <<program, symbols, scopes, bound>> /\ phase' = "generate"
    BY <1>6 DEF Register
  <2>3. PrivateInPhase'
    BY <2>2 DEF PrivateInPhase
  <2> QED
    BY <1>0, <2>1, <2>2, <2>3, SameTable, TruthKept DEF HomeInvariant
<1>7. CASE Generate
  <2>1. UsesInvariant'
    BY <1>0, <1>7, GenerateUses
  <2>2. UNCHANGED <<program, symbols, scopes, bound>> /\ phase' \in {"generate", "compiled", "failed"}
    BY <1>7 DEF Generate
  <2>3. PrivateInPhase'
    BY <2>2 DEF PrivateInPhase
  <2> QED
    BY <1>0, <2>1, <2>2, <2>3, SameTable, TruthKept DEF HomeInvariant
<1>8. CASE UNCHANGED vars
  <2>1. UsesInvariant'
    BY <1>0, <1>8, UsesStutter
  <2>2. UNCHANGED <<program, module, phase, private, symbols, scopes, bound>> /\ Here' = Here
    BY <1>8 DEF vars, table, Here
  <2>3. PrivateInPhase'
    BY <1>0, <2>2 DEF PrivateInPhase
  <2> QED
    BY <1>0, <2>1, <2>2, <2>3, SameTable, TruthKept DEF HomeInvariant
<1> QED
  BY <1>1, <1>2, <1>3, <1>4, <1>5, <1>6, <1>7, <1>8 DEF Next

LEMMA HomeKept == Spec => []HomeInvariant
<1>1. HomeInvariant /\ [Next]_vars => HomeInvariant'
  BY HomeStep
<1> QED
  BY <1>1, HomeInit, PTL DEF Spec

(* The declaration that carrier k of module m is. *)
HiddenAt(items, k) ==
  \E j \in 1 .. k : /\ Top(items, j) /\ "hide" \in Attributes(items, j)
                    /\ \A l \in j + 1 .. k : Top(items, l) => "unhide" \notin Attributes(items, l)

DeclarationAt(m, k) ==
  LET items == program[m].body
      c == Carriers(items)[k]
      d == items[c[1]]
  IN  [module |-> program[m].path, kind |-> d.kind, method |-> c[2] > 0,
       home |-> program[m].path \o SpaceOf(items, c[1])
                  \o (IF c[2] = 0 THEN <<d.name>> ELSE <<d.name, d.methods[c[2]].name>>),
       place |-> <<m, k>>,
       defined |-> d.kind # "func" \/ d.defined,
       private |-> \/ "private" \in Attributes(items, k)
                   \/ Top(items, k) /\ HiddenAt(items, k) /\ "public" \notin Attributes(items, k)]

(* What is declared, and that the loop over the attributes makes private   *)
(* what the documentation has private.                                     *)
Describes(d, m, i, k, n) ==
  /\ Declared(program, m, i, k) /\ d.home = HomeOf(program, m, i, k)
  /\ d.module = program[m].path
  /\ (SwitchesApart(program) /\ d.private) => <<i, k>> \in HidePass(program[m].body)
  /\ d = DeclarationAt(m, n) /\ n \in 1 .. Len(Carriers(program[m].body))
  /\ Carriers(program[m].body)[n][1] = i /\ Carriers(program[m].body)[n][2] = k

LEMMA DeclarationsAre ==
  ASSUME program \in Programs, NEW d \in Declarations
  PROVE  \E m, i, k, n \in Nat : Describes(d, m, i, k, n)
<1> DEFINE Kept(items) == {j \in DOMAIN Carriers(items) : items[Carriers(items)[j][1]].kind # "module"}
<1>1. Declarations = UNION {{DeclarationAt(m, k) : k \in Kept(program[m].body)} : m \in DOMAIN program}
  BY DEF Declarations, DeclarationAt, HiddenAt, Top, Attributes
<1>2. \E m \in DOMAIN program : \E k \in Kept(program[m].body) : d = DeclarationAt(m, k)
  <2> HIDE DEF Kept
  <2> QED
    BY <1>1
<1>3. PICK m \in DOMAIN program : \E k \in Kept(program[m].body) : d = DeclarationAt(m, k)
  BY <1>2
<1>4. PICK k \in Kept(program[m].body) : d = DeclarationAt(m, k)
  BY <1>3
<1> DEFINE items == program[m].body
           c == Carriers(items)[k]
<1>5. /\ m \in 1 .. Len(program) /\ Len(program) \in Nat
      /\ Listed(items) /\ Len(items) \in Nat \ {0}
  <2>1. DOMAIN program = 1 .. Len(program)
    BY ProgramsAssumption DEF IsList
  <2> QED
    BY <2>1, ProgramShape
<1>6. /\ Len(Carriers(items)) \in Nat /\ DOMAIN Carriers(items) = 1 .. Len(Carriers(items))
      /\ \A j \in 1 .. Len(Carriers(items)) : IsCarrier(items, Carriers(items)[j])
  <2> HIDE DEF items
  <2> QED
    BY <1>5, CarriersAre
<1>7. k \in 1 .. Len(Carriers(items)) /\ items[c[1]].kind # "module" /\ IsCarrier(items, c)
  BY <1>6
<1>8. /\ d.home = HomeOf(program, m, c[1], c[2]) /\ d.module = program[m].path
      /\ d.private => \/ "private" \in Attributes(items, k)
                      \/ Top(items, k) /\ HiddenAt(items, k) /\ "public" \notin Attributes(items, k)
  BY <1>4 DEF DeclarationAt, HomeOf
<1>9. c[1] \in Nat /\ c[2] \in Nat
  <2>1. c[1] \in Nat
    BY <1>5, <1>7 DEF IsCarrier
  <2>2. CASE c[2] = 0
    BY <2>1, <2>2
  <2>3. CASE c[2] # 0
    <3>1. items[c[1]].kind = "struct" /\ c[2] \in DOMAIN items[c[1]].methods /\ c[1] \in 1 .. Len(items)
      BY <1>7, <2>3 DEF IsCarrier
    <3>2. IsList(items[c[1]].methods)
      BY <1>5, <3>1 DEF Listed
    <3> QED
      BY <3>1, <3>2 DEF IsList
  <2> QED
    BY <2>1, <2>2, <2>3
<1>10. Declared(program, m, c[1], c[2])
  BY <1>5, <1>7 DEF Declared, IsCarrier
<1>11. ASSUME SwitchesApart(program), d.private PROVE <<c[1], c[2]>> \in HidePass(items)
  <2>1. \A j \in 1 .. Len(Carriers(items)) : ~ {"hide", "unhide"} \subseteq Attributes(items, j)
    BY <1>5, <1>11 DEF SwitchesApart
  <2>2. \/ "private" \in Attributes(items, k)
        \/ Top(items, k) /\ HiddenAt(items, k) /\ "public" \notin Attributes(items, k)
    BY <1>8, <1>11
  <2> HIDE DEF items
  <2> QED
    BY <1>6, <1>7, <2>1, <2>2, HiddenIsPrivate DEF HiddenAt
<1>12. PICK i, l : i = c[1] /\ l = c[2]
  OBVIOUS
<1>13. m \in Nat /\ k \in Nat /\ i \in Nat /\ l \in Nat
  BY <1>5, <1>6, <1>7, <1>9, <1>12
<1>14. Describes(d, m, i, l, k)
  BY <1>4, <1>7, <1>8, <1>10, <1>11, <1>12 DEF Describes
<1> HIDE DEF items, c, Kept
<1> QED
  BY <1>13, <1>14

LEMMA OneHome ==
  ASSUME NEW p, DeclaredOnce(p),
         NEW m \in Nat, NEW i \in Nat, NEW k \in Nat, Declared(p, m, i, k),
         NEW n \in Nat, NEW j \in Nat
  PROVE  /\ \A l \in Nat : Declared(p, n, j, l) /\ HomeOf(p, m, i, k) = HomeOf(p, n, j, l)
                            => n = m /\ j = i /\ l = k
         /\ \A v : VariantAt(p, n, j, v) => HomeOf(p, m, i, k) # VariantHome(p, n, j, v)
  BY Zenon DEF DeclaredOnce

(* In a program whose declarations can be told apart by their full names,  *)
(* what @private or @hide makes private is used by its own module alone,   *)
(* however it is named, imported or copied.                                *)
THEOREM PrivateIsPrivate == Spec => [](PlainlyDeclared(program) => PrivateStaysHome)
<1>1. HomeInvariant => (PlainlyDeclared(program) => PrivateStaysHome)
  <2> SUFFICES ASSUME HomeInvariant, PlainlyDeclared(program), errors = {},
                      NEW b \in bound, NEW d \in Declarations,
                      d.home = b.symbol.home, d.private
               PROVE  d.module = b.site.module
    BY DEF PrivateStaysHome
  <2>1. /\ UsesInvariant /\ BoundTruthful /\ program \in Programs
        /\ DeclaredOnce(program) /\ SwitchesApart(program)
    BY DEF HomeInvariant, PlainlyDeclared, UsesInvariant, NamesInvariant, Placed
  <2>2. Accepted(b)
    BY <2>1 DEF UsesInvariant, CleanUses
  <2>3. Truthful(program, b.symbol)
    BY <2>1, <2>2 DEF BoundTruthful, Accepted, Sound
  <2>4. PICK m, i, k \in Nat : /\ Declared(program, m, i, k) /\ d.home = HomeOf(program, m, i, k)
                               /\ d.module = program[m].path
                               /\ <<i, k>> \in HidePass(program[m].body)
    <3>1. \E m, i, k, n \in Nat : Describes(d, m, i, k, n)
      BY <2>1, DeclarationsAre
    <3> QED
      BY <2>1, <3>1 DEF Describes
  <2>5. CASE \E n, j, l \in Nat : Declares(program, b.symbol, n, j, l)
    <3>1. PICK n, j, l \in Nat : Declares(program, b.symbol, n, j, l)
      BY <2>5
    <3>2. Declared(program, n, j, l) /\ HomeOf(program, m, i, k) = HomeOf(program, n, j, l)
      BY <2>4, <3>1 DEF Declares
    <3>3. n = m /\ j = i /\ l = k
      BY <2>1, <2>4, <3>1, <3>2, OneHome
    <3>4. b.symbol.private /\ b.symbol.owner = program[m].path
      BY <2>4, <3>1, <3>3 DEF Declares
    <3> QED
      BY <2>2, <2>4, <3>4 DEF Accepted
  <2>6. CASE \E n, j \in Nat : \E v : VariantAt(program, n, j, v) /\ b.symbol.home = VariantHome(program, n, j, v)
    <3>1. PICK n, j \in Nat : \E v : VariantAt(program, n, j, v) /\ b.symbol.home = VariantHome(program, n, j, v)
      BY <2>6
    <3>2. PICK v : VariantAt(program, n, j, v) /\ b.symbol.home = VariantHome(program, n, j, v)
      BY <3>1
    <3>3. HomeOf(program, m, i, k) # VariantHome(program, n, j, v)
      BY <2>1, <2>4, <3>1, <3>2, OneHome
    <3> QED
      BY <2>4, <3>2, <3>3
  <2> QED
    BY <2>3, <2>5, <2>6 DEF Truthful
<1> QED
  BY <1>1, HomeKept, PTL

-----------------------------------------------------------------------------
(* Functions are told apart by their full names *)

KeyAt(m, i) ==
  <<program[m].path \o SpaceOf(program[m].body, i), <<program[m].body[i].name>>>>

IsFunction(m, i) == program[m].body[i].kind = "func"

(* The functions before item n of module m are in the table, each at a key *)
(* of its own.                                                             *)
Collected(m, n) ==
  /\ \A k, i \in Nat : Before(k, i, m, n) /\ IsFunction(k, i) => KeyAt(k, i) \in DOMAIN symbols
  /\ \A k, i, l, j \in Nat :
       /\ Before(k, i, m, n) /\ IsFunction(k, i)
       /\ Before(l, j, m, n) /\ IsFunction(l, j)
       /\ KeyAt(k, i) = KeyAt(l, j)
       => k = l /\ i = j

CollectedInOrder ==
  errors = {} =>
    /\ phase \in {"hide", "import"} => Collected(module, 1)
    /\ phase = "collect" => Collected(module, at)
    /\ phase \in {"analyze", "leave"} => Collected(module + 1, 1)
    /\ phase \in {"register", "generate", "compiled"} => Collected(Len(program) + 1, 1)

ApartInvariant == HomeInvariant /\ (NoneAhead(program) => CollectedInOrder)

(* No symbol ever leaves the table, and no error is forgotten. *)
LEMMA NothingLost ==
  ASSUME [Next]_vars
  PROVE  DOMAIN symbols \subseteq DOMAIN symbols' /\ errors \subseteq errors'
<1>1. CASE Hide
  BY <1>1 DEF Hide
<1>2. CASE Import
  <2>1. KeysGrow \/ UNCHANGED symbols
    BY <1>2, UsingKeys DEF Import
  <2>2. errors \subseteq errors'
    BY <1>2 DEF Import, Using
  <2> QED
    BY <2>1, <2>2 DEF KeysGrow
<1>3. CASE Collect
  <2>1. KeysGrow \/ UNCHANGED symbols
    BY <1>3, FunctionKeys, StructKeys, EnumKeys DEF Collect, table
  <2>2. errors \subseteq errors'
    BY <1>3 DEF Collect, CollectFunction, CollectStruct, CollectEnum
  <2> QED
    BY <2>1, <2>2 DEF KeysGrow
<1>4. CASE Analyze
  <2>1. KeysGrow \/ UNCHANGED symbols
    BY <1>4, GlobalKeys, UsingKeys DEF Analyze, table
  <2>2. errors \subseteq errors'
    BY <1>4 DEF Analyze, AnalyzeFunction, AnalyzeStruct, AnalyzeGlobal, Using
  <2> QED
    BY <2>1, <2>2 DEF KeysGrow
<1>5. CASE Leave
  BY <1>5 DEF Leave
<1>6. CASE Register
  BY <1>6 DEF Register
<1>7. CASE Generate
  BY <1>7 DEF Generate, GenerateBodies
<1>8. CASE UNCHANGED vars
  BY <1>8 DEF vars, table
<1> QED
  BY <1>1, <1>2, <1>3, <1>4, <1>5, <1>6, <1>7, <1>8 DEF Next

LEMMA CollectedGrows ==
  ASSUME NEW m, NEW n, Collected(m, n), DOMAIN symbols \subseteq DOMAIN symbols', UNCHANGED program
  PROVE  Collected(m, n)'
<1>1. \A k, i : /\ Before(k, i, m, n)' <=> Before(k, i, m, n)
                /\ IsFunction(k, i)' <=> IsFunction(k, i)
                /\ KeyAt(k, i)' = KeyAt(k, i)
  BY DEF Before, IsFunction, KeyAt
<1> QED
  BY <1>1 DEF Collected

LEMMA CollectedShifts ==
  ASSUME NEW m, NEW n, NEW l, NEW o, Collected(m, n),
         \A k, i \in Nat : Before(k, i, l, o) => Before(k, i, m, n)
  PROVE  Collected(l, o)
  BY DEF Collected

(* Where a function of that name can be seen a second body is an error. *)
LEMMA FunctionIsNew ==
  ASSUME NamesInvariant, TableTruthful, phase = "collect", Item.kind = "func", Item.defined = TRUE,
         CollectFunction(Item), errors' = {}
  PROVE  /\ <<current, <<Item.name>>>> \notin DOMAIN symbols
         /\ <<current, <<Item.name>>>> \in DOMAIN symbols'
<1> DEFINE local == <<Item.name>>
           existing == Lookup(symbols, << >>, current, local)
<1>1. Len(current) \in Nat /\ current \in Seq(STRING)
  BY CurrentHere DEF NamesInvariant, SpacesFollow, SpacesClosed
<1>2. /\ existing = Nothing \/ InTable(existing)
      /\ <<SubSeq(current, 1, Len(current)), local>> \in DOMAIN symbols => InTable(existing)
  BY <1>1, LookupOutside
<1>3. SubSeq(current, 1, Len(current)) = current
  BY <1>1
<1>4. \A key \in DOMAIN symbols : symbols[key].defined = TRUE /\ symbols[key].kind # "none"
  BY DEF TableTruthful, Sound
<1>5. \A key \in DOMAIN symbols : symbols[key] # Nothing
  BY <1>4 DEF Nothing
<1>6. existing = Nothing
  <2> SUFFICES ASSUME existing # Nothing PROVE FALSE
    OBVIOUS
  <2>1. existing.defined = TRUE
    BY <1>2, <1>4 DEF InTable
  <2>2. errors' = errors \cup {Error("redeclaration")}
    BY <2>1 DEF CollectFunction
  <2> QED
    BY <2>2
<1>7. symbols' = With(<<current, local>>, Symbol("func", local, Item.defined, <<at, 0>>))
  BY <1>6 DEF CollectFunction
<1> HIDE DEF existing, local
<1>8. <<current, local>> \notin DOMAIN symbols
  BY <1>2, <1>3, <1>5, <1>6 DEF InTable
<1>9. <<current, local>> \in DOMAIN symbols'
  <2> DEFINE s == Symbol("func", local, Item.defined, <<at, 0>>)
  <2> HIDE DEF s
  <2>1. DOMAIN With(<<current, local>>, s) = DOMAIN symbols \cup {<<current, local>>}
    BY WithDomain
  <2> QED
    BY <1>7, <2>1 DEF s
<1> QED
  BY <1>8, <1>9 DEF local

LEMMA ApartInit == Init => ApartInvariant
<1> SUFFICES ASSUME Init PROVE ApartInvariant
  OBVIOUS
<1>1. HomeInvariant
  BY HomeInit
<1>2. \A k, i \in Nat : ~Before(k, i, module, 1)
  BY DEF Init, Before
<1>3. Collected(module, 1) /\ phase = "hide"
  BY <1>2 DEF Init, Collected
<1> QED
  BY <1>1, <1>3 DEF ApartInvariant, CollectedInOrder

LEMMA CollectApart ==
  ASSUME HomeInvariant, NoneAhead(program), Collect, Collected(module, at), errors' = {}
  PROVE  /\ phase' = "collect" => Collected(module, at)'
         /\ phase' = "analyze" => Collected(module + 1, 1)'
         /\ phase' \in {"collect", "analyze"}
<1>1. /\ NamesInvariant /\ PrivateInPhase /\ TableTruthful /\ phase = "collect"
      /\ UNCHANGED <<program, module>>
  BY DEF HomeInvariant, UsesInvariant, Collect
<1>2. \/ phase' = "collect" /\ at' = at + 1
      \/ phase' = "analyze" /\ at = Len(Here.body)
  <2>1. Len(Here.body) \in Nat /\ at \in 1 .. Len(Here.body)
    BY <1>1, HereShape DEF NamesInvariant
  <2> QED
    BY <1>1, <2>1 DEF Collect, Advance
<1>3. DOMAIN symbols \subseteq DOMAIN symbols'
  BY NothingLost DEF Next
<1>4. PICK m, n : m = module /\ n = at
  OBVIOUS
<1>5. Collected(m, n) /\ Collected(m, n)'
  BY <1>1, <1>3, <1>4, CollectedGrows
<1>6. /\ \A k, i \in Nat : Before(k, i, m, n + 1) <=> Before(k, i, m, n) \/ (k = m /\ i = n)
      /\ at = Len(Here.body) => \A k, i \in Nat : Before(k, i, m + 1, 1) <=> Before(k, i, m, n + 1)
  BY <1>1, <1>4, BeforeNext
<1>7. IsFunction(m, n) => KeyAt(m, n) \notin DOMAIN symbols /\ KeyAt(m, n) \in DOMAIN symbols'
  <2> SUFFICES ASSUME IsFunction(m, n)
               PROVE  KeyAt(m, n) \notin DOMAIN symbols /\ KeyAt(m, n) \in DOMAIN symbols'
    OBVIOUS
  <2>1. Item.kind = "func"
    BY <1>4 DEF IsFunction, Item, Here
  <2>2. /\ current = Here.path \o SpaceOf(Here.body, at)
        /\ at \in 1 .. Len(Here.body) /\ module \in 1 .. Len(program)
        /\ Item = program[module].body[at] /\ Here = program[module]
    BY <1>1, <2>1, CurrentHere
  <2>3. KeyAt(m, n) = <<current, <<Item.name>>>>
    BY <1>4, <2>2 DEF KeyAt
  <2>4. Item.defined = TRUE
    BY <2>1, <2>2 DEF NoneAhead
  <2>5. CollectFunction(Item)
    BY <2>1 DEF Collect
  <2> QED
    BY <1>1, <2>1, <2>3, <2>4, <2>5, FunctionIsNew
<1>8. \A k, i : /\ Before(k, i, m, n + 1)' <=> Before(k, i, m, n + 1)
                /\ IsFunction(k, i)' <=> IsFunction(k, i)
                /\ KeyAt(k, i)' = KeyAt(k, i)
  BY <1>1 DEF Before, IsFunction, KeyAt
<1>9. Collected(m, n + 1)'
  <2>1. ASSUME NEW k \in Nat, NEW i \in Nat, Before(k, i, m, n + 1), IsFunction(k, i)
        PROVE  /\ KeyAt(k, i) \in DOMAIN symbols'
               /\ (k = m /\ i = n) \/ (Before(k, i, m, n) /\ KeyAt(k, i) \in DOMAIN symbols)
    BY <1>3, <1>5, <1>6, <1>7, <2>1 DEF Collected
  <2>2. ASSUME NEW k \in Nat, NEW i \in Nat, Before(k, i, m, n + 1), IsFunction(k, i),
               NEW l \in Nat, NEW j \in Nat, Before(l, j, m, n + 1), IsFunction(l, j),
               KeyAt(k, i) = KeyAt(l, j)
        PROVE  k = l /\ i = j
    <3>1. (k = m /\ i = n) \/ (Before(k, i, m, n) /\ KeyAt(k, i) \in DOMAIN symbols)
      BY <2>1, <2>2
    <3>2. (l = m /\ j = n) \/ (Before(l, j, m, n) /\ KeyAt(l, j) \in DOMAIN symbols)
      BY <2>1, <2>2
    <3>3. CASE Before(k, i, m, n) /\ Before(l, j, m, n)
      BY <1>5, <2>2, <3>3 DEF Collected
    <3> QED
      BY <1>7, <2>2, <3>1, <3>2, <3>3
  <2> QED
    BY <1>8, <2>1, <2>2 DEF Collected
<1>10. at = Len(Here.body) => Collected(m + 1, 1)'
  <2> SUFFICES ASSUME at = Len(Here.body) PROVE Collected(m + 1, 1)'
    OBVIOUS
  <2>1. \A k, i \in Nat : Before(k, i, m + 1, 1)' => Before(k, i, m, n + 1)'
    BY <1>1, <1>6 DEF Before
  <2> QED
    BY <1>9, <2>1 DEF Collected
<1> QED
  BY <1>1, <1>2, <1>4, <1>9, <1>10

LEMMA ApartStep ==
  ASSUME ApartInvariant, [Next]_vars
  PROVE  ApartInvariant'
<1>1. HomeInvariant /\ HomeInvariant'
  BY HomeStep DEF ApartInvariant
<1>2. UNCHANGED program
  BY DEF Next, Hide, Import, Collect, Analyze, Leave, Register, Generate, vars
<1> SUFFICES ASSUME NoneAhead(program), errors' = {}
             PROVE  CollectedInOrder'
  BY <1>1, <1>2 DEF ApartInvariant, CollectedInOrder
<1>3. DOMAIN symbols \subseteq DOMAIN symbols' /\ errors = {}
  BY NothingLost
<1>4. CollectedInOrder
  BY DEF ApartInvariant
<1>5. PICK m, n, l : m = module /\ n = at /\ l = Len(program) + 1
  OBVIOUS
<1>6. \A a, b : Collected(a, b) => Collected(a, b)'
  BY <1>2, <1>3, CollectedGrows
<1>7. /\ module \in 1 .. Len(program) /\ Len(program) \in Nat
      /\ Len(Here.body) \in Nat /\ at \in 1 .. Len(Here.body)
  BY <1>1, HereShape DEF HomeInvariant, UsesInvariant, NamesInvariant
<1>8. CASE phase \in {"hide", "import"}
  <2>1. Collected(m, 1)'
    BY <1>3, <1>4, <1>5, <1>6, <1>8 DEF CollectedInOrder
  <2>2. module' = module /\ (phase' \in {"hide", "import"} \/ (phase' = "collect" /\ at' = 1))
    BY <1>8 DEF Next, Hide, Import, Collect, Analyze, Leave, Register, Generate, vars, Advance
  <2> QED
    BY <1>5, <2>1, <2>2 DEF CollectedInOrder
<1>9. CASE phase = "collect"
  <2>1. Collect \/ UNCHANGED vars
    BY <1>9 DEF Next, Hide, Import, Analyze, Leave, Register, Generate
  <2>2. CASE Collect
    <3>1. Collected(module, at)
      BY <1>3, <1>4, <1>9 DEF CollectedInOrder
    <3>2. /\ phase' = "collect" => Collected(module, at)'
          /\ phase' = "analyze" => Collected(module + 1, 1)'
          /\ phase' \in {"collect", "analyze"}
      BY <1>1, <2>2, <3>1, CollectApart
    <3> QED
      BY <3>2 DEF CollectedInOrder
  <2>3. CASE UNCHANGED vars
    <3>1. Collected(m, n)'
      BY <1>3, <1>4, <1>5, <1>6, <1>9 DEF CollectedInOrder
    <3>2. module' = module /\ at' = at /\ phase' = "collect"
      BY <1>9, <2>3 DEF vars
    <3> QED
      BY <1>5, <3>1, <3>2 DEF CollectedInOrder
  <2> QED
    BY <2>1, <2>2, <2>3
<1>10. CASE phase = "analyze"
  <2>1. Collected(m + 1, 1)'
    BY <1>3, <1>4, <1>5, <1>6, <1>10 DEF CollectedInOrder
  <2>2. module' = module /\ phase' \in {"analyze", "leave"}
    BY <1>10 DEF Next, Hide, Import, Collect, Analyze, Leave, Register, Generate, vars, Advance
  <2> QED
    BY <1>5, <2>1, <2>2 DEF CollectedInOrder
<1>11. CASE phase = "leave"
  <2>1. Collected(m + 1, 1)'
    BY <1>3, <1>4, <1>5, <1>6, <1>11 DEF CollectedInOrder
  <2>2. \/ phase' = "leave" /\ module' = module
        \/ phase' = "failed"
        \/ phase' = "hide" /\ module' = module + 1
        \/ phase' = "register" /\ module = Len(program)
    BY <1>7, <1>11 DEF Next, Hide, Import, Collect, Analyze, Leave, Register, Generate, vars
  <2> QED
    BY <1>2, <1>5, <2>1, <2>2 DEF CollectedInOrder
<1>12. CASE phase \in {"register", "generate", "compiled"}
  <2>1. Collected(l, 1)'
    BY <1>3, <1>4, <1>5, <1>6, <1>12 DEF CollectedInOrder
  <2>2. phase' \in {"register", "generate", "compiled", "failed"}
    BY <1>12 DEF Next, Hide, Import, Collect, Analyze, Leave, Register, Generate, vars
  <2> QED
    BY <1>2, <1>5, <2>1, <2>2 DEF CollectedInOrder
<1>13. CASE phase = "failed"
  <2>1. phase' = "failed"
    BY <1>13 DEF Next, Hide, Import, Collect, Analyze, Leave, Register, Generate, vars
  <2> QED
    BY <2>1 DEF CollectedInOrder
<1> QED
  BY <1>1, <1>8, <1>9, <1>10, <1>11, <1>12, <1>13
  DEF HomeInvariant, UsesInvariant, NamesInvariant, SpacesFollow

LEMMA ApartKept == Spec => []ApartInvariant
<1>1. ApartInvariant /\ [Next]_vars => ApartInvariant'
  BY ApartStep
<1> QED
  BY <1>1, ApartInit, PTL DEF Spec

LEMMA SameEnd ==
  ASSUME NEW S, NEW s \in Seq(S), NEW t \in Seq(S), NEW x, NEW y, s \o <<x>> = t \o <<y>>
  PROVE  s = t /\ x = y
<1> DEFINE A == S \cup {x, y}
           u == s \o <<x>>
           v == t \o <<y>>
<1>1. s \in Seq(A) /\ t \in Seq(A) /\ <<x>> \in Seq(A) /\ <<y>> \in Seq(A)
  OBVIOUS
<1>2. Len(<<x>>) = 1 /\ Len(<<y>>) = 1 /\ <<x>>[1] = x /\ <<y>>[1] = y /\ Len(s) \in Nat /\ Len(t) \in Nat
  OBVIOUS
<1> HIDE DEF A
<1>3. /\ Len(u) = Len(s) + 1 /\ (\A i \in 1 .. Len(s) : u[i] = s[i]) /\ u[Len(s) + 1] = x
      /\ Len(v) = Len(t) + 1 /\ (\A i \in 1 .. Len(t) : v[i] = t[i]) /\ v[Len(t) + 1] = y
  BY <1>1, <1>2, ConcatProperties
<1>4. u = v
  OBVIOUS
<1> HIDE DEF u, v
<1>5. Len(s) = Len(t)
  BY <1>2, <1>3, <1>4
<1>6. x = y /\ \A i \in 1 .. Len(s) : s[i] = t[i]
  BY <1>3, <1>4, <1>5
<1>7. s = t
  BY <1>1, <1>5, <1>6, SeqEqual
<1> QED
  BY <1>6, <1>7

(* When every function is declared with its body, a program compiles only  *)
(* if no two of them have one full name: code generation, which keeps the  *)
(* last body of a name, loses none.                                        *)
THEOREM FunctionsAreApart == Spec => [](NoneAhead(program) => DefinitionsApart)
<1>1. ApartInvariant => (NoneAhead(program) => DefinitionsApart)
  <2> SUFFICES ASSUME ApartInvariant, NoneAhead(program), phase = "compiled",
                      NEW d \in Declarations, NEW e \in Declarations,
                      d.kind = "func", e.kind = "func", d.home = e.home
               PROVE  d = e
    BY DEF DefinitionsApart
  <2>1. /\ program \in Programs /\ errors = {} /\ Collected(Len(program) + 1, 1)
    BY DEF ApartInvariant, HomeInvariant, UsesInvariant, NamesInvariant, Placed, CleanUses, CollectedInOrder
  <2>2. ASSUME NEW f \in Declarations, f.kind = "func"
        PROVE  \E m, i, n \in Nat :
                 /\ Before(m, i, Len(program) + 1, 1) /\ IsFunction(m, i)
                 /\ f.home = KeyAt(m, i)[1] \o KeyAt(m, i)[2]
                 /\ f = DeclarationAt(m, n) /\ n \in 1 .. Len(Carriers(program[m].body))
                 /\ Carriers(program[m].body)[n][1] = i /\ Carriers(program[m].body)[n][2] = 0
    <3>0. PICK m, i, k, n \in Nat : Describes(f, m, i, k, n)
      BY <2>1, DeclarationsAre
    <3>1. /\ Declared(program, m, i, k) /\ f.home = HomeOf(program, m, i, k)
          /\ f = DeclarationAt(m, n) /\ n \in 1 .. Len(Carriers(program[m].body))
          /\ Carriers(program[m].body)[n][1] = i /\ Carriers(program[m].body)[n][2] = k
      BY <3>0 DEF Describes
    <3>2. IsFunction(m, i)
      BY <2>2, <3>1 DEF DeclarationAt, IsFunction
    <3>3. k = 0
      BY <3>1, <3>2 DEF Declared, IsFunction
    <3>4. Len(program) \in Nat
      BY <2>1, ProgramShape
    <3>5. Before(m, i, Len(program) + 1, 1)
      BY <3>1, <3>4 DEF Declared, Before
    <3>6. f.home = KeyAt(m, i)[1] \o KeyAt(m, i)[2]
      BY <3>1, <3>3 DEF HomeOf, KeyAt
    <3> QED
      BY <3>1, <3>2, <3>3, <3>5, <3>6
  <2>3. PICK m, i, n \in Nat :
          /\ Before(m, i, Len(program) + 1, 1) /\ IsFunction(m, i)
          /\ d.home = KeyAt(m, i)[1] \o KeyAt(m, i)[2]
          /\ d = DeclarationAt(m, n) /\ n \in 1 .. Len(Carriers(program[m].body))
          /\ Carriers(program[m].body)[n][1] = i /\ Carriers(program[m].body)[n][2] = 0
    BY <2>2
  <2>4. PICK l, j, o \in Nat :
          /\ Before(l, j, Len(program) + 1, 1) /\ IsFunction(l, j)
          /\ e.home = KeyAt(l, j)[1] \o KeyAt(l, j)[2]
          /\ e = DeclarationAt(l, o) /\ o \in 1 .. Len(Carriers(program[l].body))
          /\ Carriers(program[l].body)[o][1] = j /\ Carriers(program[l].body)[o][2] = 0
    BY <2>2
  <2>5. ASSUME NEW a \in Nat, NEW b \in Nat, Before(a, b, Len(program) + 1, 1)
        PROVE  /\ KeyAt(a, b)[1] \in Seq(STRING)
               /\ Len(program[a].body) \in Nat \ {0} /\ Listed(program[a].body)
    <3>1. a \in 1 .. Len(program) /\ b \in 1 .. Len(program[a].body)
      BY <2>5 DEF Before
    <3>2. /\ program[a].path \in Seq(STRING) /\ Listed(program[a].body)
          /\ Nested(program[a].body) /\ Len(program[a].body) \in Nat \ {0}
      BY <2>1, <3>1, ProgramShape
    <3>3. SpaceOf(program[a].body, b) \in Seq(STRING)
      BY <3>1, <3>2, SpaceIs
    <3> DEFINE S == STRING
               p == program[a].path
               q == SpaceOf(program[a].body, b)
    <3>4. p \in Seq(S) /\ q \in Seq(S)
      BY <3>2, <3>3
    <3> HIDE DEF S, p, q
    <3>5. p \o q \in Seq(S)
      BY <3>4, ConcatProperties
    <3> QED
      BY <3>2, <3>5 DEF S, p, q, KeyAt
  <2>6. KeyAt(m, i) = KeyAt(l, j)
    <3> DEFINE s == program[m].path \o SpaceOf(program[m].body, i)
               t == program[l].path \o SpaceOf(program[l].body, j)
               x == program[m].body[i].name
               y == program[l].body[j].name
    <3>1. s \in Seq(STRING) /\ t \in Seq(STRING)
      BY <2>3, <2>4, <2>5 DEF KeyAt
    <3>2. s \o <<x>> = t \o <<y>>
      BY <2>3, <2>4 DEF KeyAt
    <3>3. KeyAt(m, i) = <<s, <<x>>>> /\ KeyAt(l, j) = <<t, <<y>>>>
      BY DEF KeyAt
    <3> HIDE DEF s, t, x, y
    <3>4. s = t /\ x = y
      BY <3>1, <3>2, SameEnd
    <3> QED
      BY <3>3, <3>4
  <2>7. m = l /\ i = j
    BY <2>1, <2>3, <2>4, <2>6 DEF Collected
  <2>8. Apart(Carriers(program[m].body), Len(program[m].body))
    BY <2>3, <2>5, CarriersApart
  <2>9. n = o
    BY <2>3, <2>4, <2>7, <2>8 DEF Apart
  <2> QED
    BY <2>3, <2>4, <2>7, <2>9
<1> QED
  BY <1>1, ApartKept, PTL

-----------------------------------------------------------------------------
(* Paths *)

(* The namespaces around p, itself included. *)
Around(p) == {SubSeq(p, 1, n) : n \in 0 .. Len(p)}

LEMMA AroundIs ==
  ASSUME NEW S, NEW p \in Seq(S), NEW q
  PROVE  q \in Around(p) <=> /\ q \in Seq(S) /\ Len(q) <= Len(p)
                             /\ \A i \in 1 .. Len(q) : q[i] = p[i]
<1>0. Len(p) \in Nat
  OBVIOUS
<1>1. ASSUME q \in Around(p)
      PROVE  q \in Seq(S) /\ Len(q) <= Len(p) /\ \A i \in 1 .. Len(q) : q[i] = p[i]
  <2>1. PICK n \in 0 .. Len(p) : q = SubSeq(p, 1, n)
    BY <1>1 DEF Around
  <2> QED
    BY <1>0, <2>1
<1>2. ASSUME q \in Seq(S), Len(q) <= Len(p), \A i \in 1 .. Len(q) : q[i] = p[i]
      PROVE  q \in Around(p)
  <2> DEFINE n == Len(q)
             r == SubSeq(p, 1, n)
  <2>1. n \in 0 .. Len(p)
    BY <1>0, <1>2
  <2>2. r \in Seq(S) /\ Len(r) = n /\ \A i \in 1 .. n : r[i] = p[i]
    BY <1>0, <2>1
  <2> HIDE DEF r
  <2>3. r = q
    BY <1>2, <2>2, SeqEqual
  <2> QED
    BY <2>1, <2>3 DEF Around, r
<1> QED
  BY <1>1, <1>2

LEMMA AroundItself == ASSUME NEW S, NEW p \in Seq(S) PROVE p \in Around(p)
  BY AroundIs

LEMMA AroundSteps ==
  ASSUME NEW S, NEW p \in Seq(S), NEW q \in Around(p), NEW r \in Around(q)
  PROVE  r \in Around(p)
<1>1. q \in Seq(S) /\ Len(q) <= Len(p) /\ \A i \in 1 .. Len(q) : q[i] = p[i]
  BY AroundIs
<1>2. r \in Seq(S) /\ Len(r) <= Len(q) /\ \A i \in 1 .. Len(r) : r[i] = q[i]
  BY <1>1, AroundIs
<1>3. Len(p) \in Nat /\ Len(q) \in Nat /\ Len(r) \in Nat
  BY <1>1, <1>2
<1>4. Len(r) <= Len(p) /\ \A i \in 1 .. Len(r) : r[i] = p[i]
  BY <1>1, <1>2, <1>3
<1> QED
  BY <1>2, <1>4, AroundIs

(* Of two namespaces around a third, one is around the other. *)
LEMMA AroundLine ==
  ASSUME NEW S, NEW p \in Seq(S), NEW q \in Around(p), NEW r \in Around(p)
  PROVE  /\ q \in Around(r) \/ r \in Around(q)
         /\ Len(q) <= Len(r) => q \in Around(r)
         /\ Len(q) = Len(r) => q = r
<1>1. q \in Seq(S) /\ Len(q) <= Len(p) /\ \A i \in 1 .. Len(q) : q[i] = p[i]
  BY AroundIs
<1>2. r \in Seq(S) /\ Len(r) <= Len(p) /\ \A i \in 1 .. Len(r) : r[i] = p[i]
  BY AroundIs
<1>3. Len(p) \in Nat /\ Len(q) \in Nat /\ Len(r) \in Nat
  BY <1>1, <1>2
<1>4. ASSUME Len(q) <= Len(r) PROVE q \in Around(r)
  <2>1. \A i \in 1 .. Len(q) : q[i] = r[i]
    BY <1>1, <1>2, <1>3, <1>4
  <2> QED
    BY <1>1, <1>2, <1>4, <2>1, AroundIs
<1>5. ASSUME Len(r) <= Len(q) PROVE r \in Around(q)
  <2>1. \A i \in 1 .. Len(r) : q[i] = r[i]
    BY <1>1, <1>2, <1>3, <1>5
  <2> QED
    BY <1>1, <1>2, <1>5, <2>1, AroundIs
<1>6. ASSUME Len(q) = Len(r) PROVE q = r
  <2>1. \A i \in 1 .. Len(q) : q[i] = r[i]
    BY <1>1, <1>2, <1>3, <1>6
  <2> QED
    BY <1>1, <1>2, <1>6, <2>1, SeqEqual
<1> QED
  BY <1>3, <1>4, <1>5, <1>6

LEMMA AroundConcat ==
  ASSUME NEW S, NEW p \in Seq(S), NEW q \in Seq(S)
  PROVE  p \in Around(p \o q) /\ p \o q \in Seq(S)
<1> DEFINE r == p \o q
<1>1. r \in Seq(S) /\ Len(r) = Len(p) + Len(q) /\ \A i \in 1 .. Len(p) : r[i] = p[i]
  BY ConcatProperties
<1> HIDE DEF r
<1>2. Len(p) <= Len(r)
  BY <1>1
<1>3. \A i \in 1 .. Len(p) : p[i] = r[i]
  BY <1>1
<1>4. p \in Around(r)
  BY <1>1, <1>2, <1>3, AroundIs
<1> QED
  BY <1>1, <1>4 DEF r

(* Two ways to write a path that are equally long behind are one. *)
LEMMA SameTail ==
  ASSUME NEW S, NEW p \in Seq(S), NEW q \in Seq(S), NEW r \in Seq(S), NEW s \in Seq(S),
         p \o r = q \o s, Len(r) = Len(s) \/ Len(p) = Len(q)
  PROVE  p = q /\ r = s
<1> DEFINE u == p \o r
           v == q \o s
<1>1. Len(p) \in Nat /\ Len(q) \in Nat /\ Len(r) \in Nat /\ Len(s) \in Nat
  OBVIOUS
<1>2. /\ Len(u) = Len(p) + Len(r) /\ (\A i \in 1 .. Len(p) : u[i] = p[i])
      /\ (\A i \in 1 .. Len(r) : u[Len(p) + i] = r[i])
      /\ Len(v) = Len(q) + Len(s) /\ (\A i \in 1 .. Len(q) : v[i] = q[i])
      /\ (\A i \in 1 .. Len(s) : v[Len(q) + i] = s[i])
  BY ConcatProperties
<1>3. u = v
  OBVIOUS
<1> HIDE DEF u, v
<1>4. Len(p) = Len(q) /\ Len(r) = Len(s)
  BY <1>1, <1>2, <1>3
<1>5. p = q
  <2>1. \A i \in 1 .. Len(p) : p[i] = q[i]
    BY <1>2, <1>3, <1>4
  <2> QED
    BY <1>4, <2>1, SeqEqual
<1>6. r = s
  <2>1. \A i \in 1 .. Len(r) : r[i] = s[i]
    BY <1>2, <1>3, <1>4
  <2> QED
    BY <1>4, <2>1, SeqEqual
<1> QED
  BY <1>5, <1>6

LEMMA FrontIs ==
  ASSUME NEW S, NEW p \in Seq(S), p # <<>>
  PROVE  /\ Front(p) \in Seq(S) /\ Last(p) \in S /\ Len(p) \in Nat \ {0}
         /\ Len(p) # 1 => Front(p) # <<>> /\ Len(p) > 1
         /\ Len(p) = 1 => Front(p) = <<>>
<1>1. Len(p) \in Nat \ {0} /\ Last(p) \in S
  BY EmptySeq DEF Last
<1>2. /\ Front(p) \in Seq(S) /\ Len(Front(p)) = Len(p) - 1
      /\ \A i \in 1 .. Len(Front(p)) : Front(p)[i] = p[i]
  BY <1>1 DEF Front
<1>3. Len(p) = 1 => Front(p) = <<>>
  BY <1>2, EmptySeq
<1>4. Len(p) # 1 => Front(p) # <<>>
  BY <1>1, <1>2
<1> QED
  BY <1>1, <1>2, <1>3, <1>4

(* A path is its front and its last name. *)
LEMMA PathSplit ==
  ASSUME NEW S, NEW p \in Seq(S), p # <<>>
  PROVE  /\ Front(p) \in Seq(S) /\ Last(p) \in S /\ <<Last(p)>> \in Seq(S)
         /\ p = Front(p) \o <<Last(p)>> /\ Len(Front(p)) = Len(p) - 1 /\ Len(p) \in Nat \ {0}
         /\ Len(p) = 1 => Front(p) = <<>> /\ p = <<Last(p)>>
<1> DEFINE f == Front(p)
           e == Last(p)
<1>1. Len(p) \in Nat \ {0} /\ e \in S
  BY EmptySeq DEF Last
<1>2. f \in Seq(S) /\ Len(f) = Len(p) - 1 /\ \A i \in 1 .. Len(f) : f[i] = p[i]
  BY <1>1 DEF Front
<1>3. e = p[Len(p)] /\ <<e>> \in Seq(S) /\ Len(<<e>>) = 1 /\ <<e>>[1] = e
  BY <1>1 DEF Last
<1> HIDE DEF f, e
<1> DEFINE g == f \o <<e>>
<1>4. g \in Seq(S) /\ Len(g) = Len(p) /\ (\A i \in 1 .. Len(f) : g[i] = f[i]) /\ g[Len(f) + 1] = e
  BY <1>1, <1>2, <1>3, ConcatProperties
<1> HIDE DEF g
<1>5. \A i \in 1 .. Len(p) : g[i] = p[i]
  <2> TAKE i \in 1 .. Len(p)
  <2>1. i \in 1 .. Len(f) \/ i = Len(f) + 1
    BY <1>1, <1>2
  <2> QED
    BY <1>1, <1>2, <1>3, <1>4, <2>1
<1>6. g = p
  BY <1>4, <1>5, SeqEqual
<1>7. Len(p) = 1 => f = <<>>
  BY <1>2, EmptySeq
<1>8. Len(p) = 1 => p = <<e>>
  <2> SUFFICES ASSUME Len(p) = 1 PROVE p = <<e>>
    OBVIOUS
  <2>1. \A i \in 1 .. Len(p) : p[i] = <<e>>[i]
    BY <1>3
  <2> QED
    BY <1>3, <2>1, SeqEqual
<1> QED
  BY <1>1, <1>2, <1>3, <1>6, <1>7, <1>8 DEF f, e, g

(* The path behind a namespace, up to its last name. *)
LEMMA PathBehind ==
  ASSUME NEW S, NEW q \in Seq(S), NEW p \in Seq(S), p # <<>>
  PROVE  /\ q \o p = (q \o Front(p)) \o <<Last(p)>>
         /\ q \o Front(p) \in Seq(S) /\ q \o p \in Seq(S)
         /\ Len(p) = 1 => q \o Front(p) = q
         /\ Len(p) # 1 => Front(p) # <<>> /\ Last(q \o Front(p)) = Last(Front(p))
<1> DEFINE f == Front(p)
           e == <<Last(p)>>
<1>1. f \in Seq(S) /\ e \in Seq(S) /\ p = f \o e /\ Len(f) = Len(p) - 1 /\ Len(p) \in Nat \ {0}
      /\ (Len(p) = 1 => f = <<>>)
  BY PathSplit
<1> HIDE DEF f, e
<1>2. (q \o f) \o e = q \o (f \o e)
  <2>1. f \in Seq(S) /\ e \in Seq(S)
    BY <1>1
  <2> QED
    BY <2>1, ConcatAssociative
<1>3. q \o f \in Seq(S) /\ q \o p \in Seq(S)
  BY <1>1, ConcatProperties
<1>4. Len(p) = 1 => q \o f = q
  BY <1>1, ConcatEmptySeq
<1>5. ASSUME Len(p) # 1 PROVE f # <<>> /\ Last(q \o f) = Last(f)
  <2>1. Len(f) \in Nat \ {0} /\ Len(q) \in Nat
    BY <1>1, <1>5
  <2>0. f \in Seq(S)
    BY <1>1
  <2>2. Len(q \o f) = Len(q) + Len(f) /\ \A i \in 1 .. Len(f) : (q \o f)[Len(q) + i] = f[i]
    BY <2>0, ConcatProperties
  <2>3. f # <<>>
    BY <2>1, EmptySeq
  <2> QED
    BY <2>1, <2>2, <2>3 DEF Last
<1> QED
  BY <1>1, <1>2, <1>3, <1>4, <1>5 DEF f, e

LEMMA ConcatRange ==
  ASSUME NEW S, NEW p \in Seq(S), NEW q \in Seq(S)
  PROVE  Range(p \o q) = Range(p) \cup Range(q)
<1> DEFINE r == p \o q
<1>1. /\ r \in Seq(S) /\ Len(r) = Len(p) + Len(q) /\ (\A i \in 1 .. Len(p) : r[i] = p[i])
      /\ \A i \in 1 .. Len(q) : r[Len(p) + i] = q[i]
  BY ConcatProperties
<1>2. /\ DOMAIN r = 1 .. Len(r) /\ DOMAIN p = 1 .. Len(p) /\ DOMAIN q = 1 .. Len(q)
      /\ Len(p) \in Nat /\ Len(q) \in Nat
  BY <1>1
<1> HIDE DEF r
<1>3. ASSUME NEW x \in Range(r) PROVE x \in Range(p) \cup Range(q)
  <2>1. PICK i \in 1 .. Len(r) : x = r[i]
    BY <1>2 DEF Range
  <2>2. CASE i <= Len(p)
    <3>1. i \in 1 .. Len(p)
      BY <1>2, <2>2
    <3> QED
      BY <1>1, <1>2, <2>1, <3>1 DEF Range
  <2>3. CASE ~(i <= Len(p))
    <3>1. i - Len(p) \in 1 .. Len(q) /\ Len(p) + (i - Len(p)) = i
      BY <1>1, <1>2, <2>1, <2>3
    <3>2. x = q[i - Len(p)]
      BY <1>1, <2>1, <3>1
    <3> QED
      BY <1>2, <3>1, <3>2 DEF Range
  <2> QED
    BY <2>2, <2>3
<1>4. ASSUME NEW x \in Range(p) PROVE x \in Range(r)
  <2>1. PICK i \in 1 .. Len(p) : x = p[i]
    BY <1>2 DEF Range
  <2>2. i \in 1 .. Len(r) /\ x = r[i]
    BY <1>1, <1>2, <2>1
  <2> QED
    BY <1>2, <2>2 DEF Range
<1>5. ASSUME NEW x \in Range(q) PROVE x \in Range(r)
  <2>1. PICK i \in 1 .. Len(q) : x = q[i]
    BY <1>2 DEF Range
  <2>2. Len(p) + i \in 1 .. Len(r) /\ x = r[Len(p) + i]
    BY <1>1, <1>2, <2>1
  <2> QED
    BY <1>2, <2>2 DEF Range
<1> QED
  BY <1>3, <1>4, <1>5 DEF r

(* The first name of a path of several is one in front of its last. *)
LEMMA HeadInFront ==
  ASSUME NEW S, NEW p \in Seq(S), Len(p) > 1
  PROVE  Head(p) \in Range(Front(p)) /\ p # <<>>
<1>1. Len(p) \in Nat /\ p # <<>>
  BY EmptySeq
<1>2. /\ Front(p) \in Seq(S) /\ Len(Front(p)) = Len(p) - 1
      /\ \A i \in 1 .. Len(Front(p)) : Front(p)[i] = p[i]
  BY <1>1 DEF Front
<1>3. 1 \in DOMAIN Front(p) /\ Front(p)[1] = p[1] /\ Head(p) = p[1]
  BY <1>1, <1>2
<1> QED
  BY <1>1, <1>3 DEF Range

LEMMA TwoNames ==
  ASSUME NEW S, NEW p \in Seq(S), Len(p) = 2
  PROVE  p = <<Head(p), Last(p)>>
<1>1. 1 \in 1 .. Len(p) /\ 2 \in 1 .. Len(p)
  OBVIOUS
<1>2. p[1] \in S /\ p[2] \in S
  BY <1>1
<1>3. Last(p) = p[2] /\ Head(p) = p[1]
  BY <1>1 DEF Last
<1> DEFINE r == <<Head(p), Last(p)>>
<1>4. r \in Seq(S) /\ Len(r) = 2 /\ r[1] = p[1] /\ r[2] = p[2]
  BY <1>2, <1>3
<1> HIDE DEF r
<1>5. \A i \in 1 .. 2 : p[i] = r[i]
  BY <1>4
<1>6. p = r
  BY <1>4, <1>5, SeqEqual
<1> QED
  BY <1>6 DEF r

LEMMA LastOfConcat ==
  ASSUME NEW S, NEW q \in Seq(S), NEW f \in Seq(S), f # <<>>
  PROVE  Last(q \o f) = Last(f)
<1>1. Len(f) \in Nat \ {0} /\ Len(q) \in Nat
  BY EmptySeq
<1>2. Len(q \o f) = Len(q) + Len(f) /\ \A i \in 1 .. Len(f) : (q \o f)[Len(q) + i] = f[i]
  BY ConcatProperties
<1> QED
  BY <1>1, <1>2 DEF Last

-----------------------------------------------------------------------------
(* Programs whose names are apart *)

(* The namespace at item i of module m; at 0 it is the module's. *)
SpaceAt(p, m, i) == p[m].path \o SpaceOf(p[m].body, i)

IsSpace(p, m, i) == m \in 1 .. Len(p) /\ i \in 0 .. Len(p[m].body)
IsItem(p, m, i) == m \in 1 .. Len(p) /\ i \in 1 .. Len(p[m].body)

TypeNamed(p, m, i, name) ==
  IsItem(p, m, i) /\ p[m].body[i].kind \in {"struct", "enum"} /\ p[m].body[i].name = name

(* No module is in the namespace of another. *)
ModulesApart(p) ==
  \A m, n \in 1 .. Len(p) : p[m].path \in Around(p[n].path) => m = n

(* Namespaces are told apart by their last names. *)
SpacesNamedApart(p) ==
  \A m, n, i, j \in Nat :
    (IsSpace(p, m, i) /\ IsSpace(p, n, j) /\ Last(SpaceAt(p, m, i)) = Last(SpaceAt(p, n, j)))
      => SpaceAt(p, m, i) = SpaceAt(p, n, j)

(* The name of a struct or an enumeration is in the path of no namespace,  *)
(* and not one of each.                                                    *)
TypesApart(p) ==
  \A m, i \in Nat : \A name :
    TypeNamed(p, m, i, name) =>
      /\ \A n, j \in Nat : IsSpace(p, n, j) => name \notin Range(SpaceAt(p, n, j))
      /\ \A n, j \in Nat : TypeNamed(p, n, j, name) => p[n].body[j].kind = p[m].body[i].kind

(* Structs are declared outside of the namespaces in a module. *)
StructsOutside(p) ==
  \A m, i \in Nat : (IsItem(p, m, i) /\ p[m].body[i].kind = "struct") => SpaceAt(p, m, i) = p[m].path

NamesApart(p) ==
  NoneAhead(p) /\ ModulesApart(p) /\ SpacesNamedApart(p) /\ TypesApart(p) /\ StructsOutside(p)

LEMMA SpacesAre ==
  ASSUME NEW p \in Programs, NEW m, NEW i, IsSpace(p, m, i)
  PROVE  /\ SpaceAt(p, m, i) \in Seq(STRING) /\ SpaceAt(p, m, i) # <<>>
         /\ p[m].path \in Seq(STRING) /\ p[m].path # <<>>
         /\ p[m].path \in Around(SpaceAt(p, m, i))
         /\ SpaceAt(p, m, 0) = p[m].path /\ IsSpace(p, m, 0)
         /\ m \in Nat /\ i \in Nat
<1> DEFINE S == STRING
           q == p[m].path
           r == SpaceOf(p[m].body, i)
<1>0. IsModule(p[m])
  BY ProgramsAssumption DEF IsSpace
<1>1. /\ q \in Seq(S) /\ q # <<>> /\ Nested(p[m].body) /\ Len(p[m].body) \in Nat \ {0}
      /\ SpaceOf(p[m].body, 0) = <<>> /\ Len(p) \in Nat
  BY <1>0, ProgramShape DEF IsSpace, IsModule
<1>2. r \in Seq(S)
  BY <1>1, SpaceIs DEF IsSpace
<1>3. SpaceAt(p, m, i) = q \o r /\ SpaceAt(p, m, 0) = q \o <<>>
  BY <1>1 DEF SpaceAt
<1> HIDE DEF S, q, r
<1>4. q \o r \in Seq(S) /\ q \in Around(q \o r)
  BY <1>1, <1>2, AroundConcat
<1>5. q \o <<>> = q
  BY <1>1, ConcatEmptySeq
<1>6. q \o r # <<>>
  <2> SUFFICES ASSUME q \o r = <<>> PROVE FALSE
    OBVIOUS
  <2>1. Len(q \o r) = Len(q) + Len(r)
    BY <1>1, <1>2, ConcatProperties
  <2>2. Len(q) \in Nat \ {0} /\ Len(r) \in Nat /\ Len(<<>>) = 0
    BY <1>1, <1>2, EmptySeq
  <2> QED
    BY <2>1, <2>2
<1> QED
  BY <1>1, <1>3, <1>4, <1>5, <1>6 DEF S, q, r, IsSpace

(* A namespace belongs to one module, whose path is around it. *)
LEMMA OneModule ==
  ASSUME NEW p \in Programs, ModulesApart(p), NEW m, NEW i, IsSpace(p, m, i), NEW n \in 1 .. Len(p),
         p[n].path \in Around(SpaceAt(p, m, i))
  PROVE  n = m
<1>1. /\ SpaceAt(p, m, i) \in Seq(STRING) /\ p[m].path \in Around(SpaceAt(p, m, i)) /\ m \in 1 .. Len(p)
  BY SpacesAre DEF IsSpace
<1>2. p[m].path \in Around(p[n].path) \/ p[n].path \in Around(p[m].path)
  BY <1>1, AroundLine
<1> QED
  BY <1>1, <1>2 DEF ModulesApart

LEMMA SpacesApart ==
  ASSUME NEW p \in Programs, ModulesApart(p), NEW m, NEW i, IsSpace(p, m, i),
         NEW n, NEW j, IsSpace(p, n, j), SpaceAt(p, n, j) \in Around(SpaceAt(p, m, i))
  PROVE  /\ n = m /\ p[m].path \in Around(SpaceAt(p, n, j))
         /\ SpaceAt(p, m, i) = p[m].path => SpaceAt(p, n, j) = p[m].path
<1>1. /\ SpaceAt(p, m, i) \in Seq(STRING) /\ SpaceAt(p, n, j) \in Seq(STRING) /\ p[n].path \in Seq(STRING)
      /\ p[n].path \in Around(SpaceAt(p, n, j)) /\ n \in 1 .. Len(p) /\ IsSpace(p, m, 0)
      /\ SpaceAt(p, m, 0) = p[m].path
  BY SpacesAre DEF IsSpace
<1>2. p[n].path \in Around(SpaceAt(p, m, i))
  BY <1>1, AroundSteps
<1>3. n = m
  BY <1>1, <1>2, OneModule
<1>4. ASSUME SpaceAt(p, m, i) = p[m].path PROVE SpaceAt(p, n, j) = p[m].path
  <2> DEFINE q == SpaceAt(p, n, j)
             r == p[m].path
  <2>1. q \in Around(r) /\ r \in Around(q) /\ q \in Seq(STRING) /\ r \in Seq(STRING)
    BY <1>1, <1>3, <1>4
  <2> HIDE DEF q, r
  <2>2. Len(q) <= Len(r) /\ Len(r) <= Len(q) /\ \A i_ \in 1 .. Len(q) : q[i_] = r[i_]
    BY <2>1, AroundIs
  <2>3. Len(q) = Len(r)
    BY <2>1, <2>2
  <2>4. q = r
    BY <2>1, <2>2, <2>3, SeqEqual
  <2> QED
    BY <2>4 DEF q, r
<1> QED
  BY <1>1, <1>3, <1>4

-----------------------------------------------------------------------------
(* The table, with where its symbols come from *)

Locals(p, m, i) ==
  LET d == p[m].body[i]
  IN  CASE d.kind = "func" -> {<<d.name>>}
        [] d.kind = "struct" -> {<<d.name, d.methods[k].name>> : k \in DOMAIN d.methods}
        [] OTHER -> {}

(* The symbol is made of item i of module m, under that local name. *)
MadeOf(p, s, local, m, i) ==
  /\ IsItem(p, m, i) /\ s.owner = p[m].path /\ s.home = SpaceAt(p, m, i) \o local
  /\ LET d == p[m].body[i]
     IN  \/ d.kind \in {"struct", "enum"} /\ s.kind = d.kind /\ local = <<d.name>>
         \/ d.kind = "global" /\ s.kind \in {"global", "const"} /\ local = <<d.name>>
         \/ d.kind = "enum" /\ s.kind = "const" /\ \E v \in Range(d.variants) : local = <<v>>
         \/ s.kind = "func" /\ local \in Locals(p, m, i)

Holds(t, space, local, s) == <<space, local>> \in DOMAIN t /\ t[<<space, local>>] = s

(* A symbol lives where it was declared; its copies live in modules. *)
Grounded(p, t, key) ==
  \E m, i \in Nat :
    /\ MadeOf(p, t[key], key[2], m, i)
    /\ Holds(t, SpaceAt(p, m, i), key[2], t[key])
    /\ key[1] = SpaceAt(p, m, i) \/ \E n \in 1 .. Len(p) : key[1] = p[n].path

(* Methods are where a name of their struct's is. *)
WithStruct(t, key) == Len(key[2]) = 2 => <<key[1], <<key[2][1]>>>> \in DOMAIN t

Rooted(p, t, key) == key = <<key[1], key[2]>> /\ Grounded(p, t, key) /\ WithStruct(t, key)

GroundedTable(p, t) == \A key \in DOMAIN t : Rooted(p, t, key)

Extends(t, u) == \A key \in DOMAIN t : key \in DOMAIN u /\ u[key] = t[key]

Grown(p, t, u) == Extends(t, u) /\ \A key \in DOMAIN u : key \notin DOMAIN t => Rooted(p, u, key)

LEMMA LocalsAre ==
  ASSUME NEW p, NEW m, NEW i
  PROVE  LET d == p[m].body[i]
         IN  /\ d.kind = "func" => Locals(p, m, i) = {<<d.name>>}
             /\ d.kind = "struct" => Locals(p, m, i) = {<<d.name, d.methods[k].name>> : k \in DOMAIN d.methods}
             /\ d.kind \notin {"func", "struct"} => Locals(p, m, i) = {}
  BY DEF Locals

LEMMA ItemShape == ASSUME NEW p \in Programs, NEW m, NEW i, IsItem(p, m, i) PROVE IsDeclaration(p[m].body[i])
<1>1. IsModule(p[m])
  BY ProgramsAssumption DEF IsItem
<1> QED
  BY <1>1 DEF IsModule, IsItem

LEMMA OneName ==
  ASSUME NEW S, NEW x \in S
  PROVE  <<x>> \in Seq(S) /\ Len(<<x>>) = 1 /\ <<x>> # <<>> /\ <<x>>[1] = x
  OBVIOUS

LEMMA NotEmpty == ASSUME NEW S, NEW s \in Seq(S), Len(s) = 1 \/ Len(s) = 2 PROVE s # <<>>
  OBVIOUS

LEMMA MethodLocals ==
  ASSUME NEW p \in Programs, NEW m, NEW i, IsItem(p, m, i), NEW local \in Locals(p, m, i)
  PROVE  /\ local \in Seq(STRING)
         /\ \/ /\ p[m].body[i].kind = "func" /\ Len(local) = 1 /\ local = <<p[m].body[i].name>>
            \/ /\ p[m].body[i].kind = "struct" /\ Len(local) = 2
               /\ TypeNamed(p, m, i, local[1]) /\ local = <<local[1], local[2]>>
               /\ \E k \in DOMAIN p[m].body[i].methods :
                    local = <<p[m].body[i].name, p[m].body[i].methods[k].name>>
<1> DEFINE d == p[m].body[i]
<1>1. /\ d.kind = "func" => IsBody(d)
      /\ d.kind = "struct" => d.name \in STRING /\ \A f \in Range(d.methods) : IsBody(f)
  BY ItemShape DEF IsDeclaration
<1>2. CASE d.kind = "func"
  <2>1. local = <<d.name>> /\ d.name \in STRING
    BY <1>1, <1>2, LocalsAre DEF IsBody
  <2> HIDE DEF d
  <2>2. local \in Seq(STRING) /\ Len(local) = 1
    BY <2>1
  <2> QED
    BY <1>2, <2>1, <2>2 DEF d
<1>3. CASE d.kind = "struct"
  <2>1. PICK k \in DOMAIN d.methods : local = <<d.name, d.methods[k].name>>
    BY <1>3, LocalsAre
  <2>2. d.methods[k] \in Range(d.methods)
    BY DEF Range
  <2>3. d.methods[k].name \in STRING /\ d.name \in STRING
    BY <1>1, <1>3, <2>2 DEF IsBody
  <2> DEFINE x == d.name
             y == d.methods[k].name
  <2>4. local = <<x, y>> /\ x \in STRING /\ y \in STRING
    BY <2>1, <2>3
  <2>5. TypeNamed(p, m, i, x)
    BY <1>3 DEF TypeNamed
  <2> HIDE DEF x, y, d
  <2>6. local \in Seq(STRING) /\ Len(local) = 2 /\ local[1] = x /\ local = <<local[1], local[2]>>
    BY <2>4
  <2> QED
    BY <1>3, <2>1, <2>5, <2>6 DEF d
<1>4. CASE d.kind \notin {"func", "struct"}
  BY <1>4, LocalsAre
<1> QED
  BY <1>2, <1>3, <1>4

LEMMA MadeShape ==
  ASSUME NEW p \in Programs, NEW s, NEW local, NEW m \in Nat, NEW i \in Nat, MadeOf(p, s, local, m, i)
  PROVE  /\ IsSpace(p, m, i) /\ IsItem(p, m, i)
         /\ local \in Seq(STRING) /\ Len(local) \in {1, 2} /\ local # <<>>
         /\ s.kind # "none" /\ s.owner = p[m].path /\ s.home = SpaceAt(p, m, i) \o local
         /\ Len(local) = 2 => /\ s.kind = "func" /\ p[m].body[i].kind = "struct"
                              /\ TypeNamed(p, m, i, local[1])
         /\ s.kind = "func" => local \in Locals(p, m, i)
         /\ s.kind = "func" /\ Len(local) = 1 => p[m].body[i].kind = "func"
         /\ s.kind \in {"struct", "enum"} => TypeNamed(p, m, i, local[1]) /\ p[m].body[i].kind = s.kind
<1> DEFINE d == p[m].body[i]
<1>1. IsItem(p, m, i) /\ s.owner = p[m].path /\ s.home = SpaceAt(p, m, i) \o local
  BY DEF MadeOf
<1>2. /\ d.kind \in {"struct", "enum", "global"} => d.name \in STRING
      /\ d.kind = "enum" => Range(d.variants) \subseteq STRING
  BY <1>1, ItemShape DEF IsDeclaration
<1>3. IsSpace(p, m, i)
  BY <1>1 DEF IsItem, IsSpace
<1>4. ASSUME NEW x \in STRING, local = <<x>>
      PROVE  local \in Seq(STRING) /\ Len(local) = 1 /\ local # <<>> /\ local[1] = x
  BY <1>4, OneName
<1>5. CASE d.kind \in {"struct", "enum"} /\ s.kind = d.kind /\ local = <<d.name>>
  <2>1. local \in Seq(STRING) /\ Len(local) = 1 /\ local # <<>> /\ local[1] = d.name
    BY <1>2, <1>4, <1>5
  <2>2. TypeNamed(p, m, i, local[1])
    BY <1>1, <1>5, <2>1 DEF TypeNamed
  <2> QED
    BY <1>1, <1>3, <1>5, <2>1, <2>2
<1>6. CASE d.kind = "global" /\ s.kind \in {"global", "const"} /\ local = <<d.name>>
  <2>1. local \in Seq(STRING) /\ Len(local) = 1 /\ local # <<>>
    BY <1>2, <1>4, <1>6
  <2> QED
    BY <1>1, <1>3, <1>6, <2>1
<1>7. CASE d.kind = "enum" /\ s.kind = "const" /\ \E v \in Range(d.variants) : local = <<v>>
  <2>1. local \in Seq(STRING) /\ Len(local) = 1 /\ local # <<>>
    BY <1>2, <1>4, <1>7
  <2> QED
    BY <1>1, <1>3, <1>7, <2>1
<1>8. CASE s.kind = "func" /\ local \in Locals(p, m, i)
  <2>1. local \in Seq(STRING)
    BY <1>1, <1>8, MethodLocals
  <2>2. \/ d.kind = "func" /\ Len(local) = 1
        \/ d.kind = "struct" /\ Len(local) = 2 /\ TypeNamed(p, m, i, local[1]) /\ local = <<local[1], local[2]>>
    BY <1>1, <1>8, MethodLocals
  <2>3. \/ d.kind = "func" /\ Len(local) = 1
        \/ d.kind = "struct" /\ Len(local) = 2 /\ TypeNamed(p, m, i, local[1])
    BY <2>2
  <2>4. local # <<>>
    <3>1. Len(local) = 1 \/ Len(local) = 2
      BY <2>3
    <3> QED
      BY <2>1, <3>1, NotEmpty
  <2> HIDE DEF d
  <2>5. Len(local) \in {1, 2} /\ s.kind # "none" /\ s.kind \notin {"struct", "enum"}
    BY <1>8, <2>3
  <2>6. Len(local) = 2 => d.kind = "struct" /\ TypeNamed(p, m, i, local[1])
    BY <2>3
  <2>7. Len(local) = 1 => d.kind = "func"
    BY <2>3
  <2> QED
    BY <1>1, <1>3, <1>8, <2>1, <2>4, <2>5, <2>6, <2>7 DEF d
<1>9. \/ d.kind \in {"struct", "enum"} /\ s.kind = d.kind /\ local = <<d.name>>
      \/ d.kind = "global" /\ s.kind \in {"global", "const"} /\ local = <<d.name>>
      \/ d.kind = "enum" /\ s.kind = "const" /\ \E v \in Range(d.variants) : local = <<v>>
      \/ s.kind = "func" /\ local \in Locals(p, m, i)
  BY DEF MadeOf
<1> QED
  BY <1>5, <1>6, <1>7, <1>8, <1>9

LEMMA MadeGlobal ==
  ASSUME NEW p, NEW s, NEW local, NEW m, NEW i, MadeOf(p, s, local, m, i), s.kind = "global"
  PROVE  p[m].body[i].kind = "global" /\ local = <<p[m].body[i].name>>
  BY DEF MadeOf

LEMMA RootedStays ==
  ASSUME NEW p, NEW t, NEW u, Extends(t, u), NEW key \in DOMAIN t, Rooted(p, t, key)
  PROVE  Rooted(p, u, key)
<1>1. u[key] = t[key]
  BY DEF Extends
<1>2. Grounded(p, u, key)
  <2>1. PICK m, i \in Nat :
          /\ MadeOf(p, t[key], key[2], m, i)
          /\ Holds(t, SpaceAt(p, m, i), key[2], t[key])
          /\ key[1] = SpaceAt(p, m, i) \/ \E n \in 1 .. Len(p) : key[1] = p[n].path
    BY DEF Rooted, Grounded
  <2>2. Holds(u, SpaceAt(p, m, i), key[2], u[key])
    BY <1>1, <2>1 DEF Holds, Extends
  <2> QED
    BY <1>1, <2>1, <2>2 DEF Grounded
<1> QED
  BY <1>2 DEF Rooted, WithStruct, Extends

LEMMA TableGrows ==
  ASSUME NEW p, NEW t, NEW u, GroundedTable(p, t), Grown(p, t, u)
  PROVE  GroundedTable(p, u)
  BY RootedStays DEF GroundedTable, Grown

LEMMA ExtendExtends == ASSUME NEW f, NEW g PROVE Extends(f, Extend(f, g))
  BY DEF Extends, Extend

LEMMA ExtendsSteps == ASSUME NEW t, NEW u, NEW v, Extends(t, u), Extends(u, v) PROVE Extends(t, v)
  BY DEF Extends

LEMMA WithExtends ==
  ASSUME NEW key, NEW s, key \notin DOMAIN symbols
  PROVE  /\ Extends(symbols, With(key, s)) /\ With(key, s)[key] = s
         /\ DOMAIN With(key, s) = DOMAIN symbols \cup {key}
<1> DEFINE f == [k \in {key} |-> s]
<1>1. With(key, s) = Extend(f, symbols) /\ DOMAIN f = {key} /\ f[key] = s
  BY DEF With
<1> HIDE DEF f
<1>2. DOMAIN With(key, s) = DOMAIN symbols \cup {key}
  BY WithDomain
<1>3. \A k \in DOMAIN symbols \cup {key} : With(key, s)[k] = IF k \in DOMAIN f THEN f[k] ELSE symbols[k]
  BY <1>1 DEF Extend
<1> QED
  BY <1>1, <1>2, <1>3 DEF Extends

LEMMA ItemHere ==
  ASSUME NamesInvariant, phase \in {"collect", "analyze"}, Item.kind \notin {"enter", "exit"}
  PROVE  /\ current = SpaceAt(program, module, at) /\ IsItem(program, module, at)
         /\ module \in Nat /\ at \in Nat /\ Here = program[module] /\ Item = program[module].body[at]
         /\ program \in Programs /\ current \in Seq(STRING)
<1>1. current \in Seq(STRING) /\ program \in Programs
  BY DEF NamesInvariant, SpacesFollow, SpacesClosed, Placed
<1> QED
  BY <1>1, CurrentHere DEF SpaceAt, IsItem

(* What a declaration adds to the table. *)
LEMMA DeclaredGrown ==
  ASSUME NamesInvariant, phase \in {"collect", "analyze"}, Item.kind \notin {"enter", "exit"},
         NEW t, Extends(symbols, t),
         \A key \in DOMAIN t : key \notin DOMAIN symbols =>
           /\ key = <<current, key[2]>> /\ WithStruct(t, key)
           /\ MadeOf(program, t[key], key[2], module, at)
  PROVE  Grown(program, symbols, t)
<1>1. current = SpaceAt(program, module, at) /\ module \in Nat /\ at \in Nat
  BY ItemHere
<1>2. ASSUME NEW key \in DOMAIN t, key \notin DOMAIN symbols PROVE Rooted(program, t, key)
  <2>1. /\ key = <<current, key[2]>> /\ WithStruct(t, key)
        /\ MadeOf(program, t[key], key[2], module, at)
    BY <1>2
  <2>2. key = <<key[1], key[2]>> /\ key[1] = current
    BY <2>1
  <2>3. Holds(t, SpaceAt(program, module, at), key[2], t[key])
    BY <1>1, <2>2 DEF Holds
  <2>4. Grounded(program, t, key)
    BY <1>1, <2>1, <2>2, <2>3 DEF Grounded
  <2> QED
    BY <2>1, <2>2, <2>4 DEF Rooted
<1> QED
  BY <1>2 DEF Grown

LEMMA UsingGrown ==
  ASSUME GroundedTable(program, symbols), NEW path, Using(path), current = Here.path,
         module \in 1 .. Len(program)
  PROVE  Grown(program, symbols, symbols')
<1>1. CASE path \notin spaces \/ scopes # <<>>
  BY <1>1 DEF Using, Declare, Grown, Extends
<1>2. CASE path \in spaces /\ scopes = <<>>
  <2> DEFINE e == Imported(path)
             g == [key \in {current} \X DOMAIN e |-> e[key[2]]]
             t == Extend(symbols, g)
  <2>1. symbols' = t
    BY <1>2 DEF Using, Declare
  <2>2. \A l \in Copies(path) : <<path, l>> \in DOMAIN symbols /\ Rooted(program, symbols, <<path, l>>)
    BY DEF Copies, GroundedTable, Rooted
  <2>3. DOMAIN g = {current} \X Copies(path)
        /\ \A l \in Copies(path) : g[<<current, l>>] = symbols[<<path, l>>]
    BY DEF Imported
  <2> HIDE DEF g
  <2>4. Extends(symbols, t) /\ DOMAIN t = DOMAIN symbols \cup DOMAIN g
    BY ExtendExtends, ExtendDomain
  <2>5. \A key \in DOMAIN t : key \notin DOMAIN symbols => t[key] = g[key]
    BY DEF Extend
  <2> HIDE DEF t
  <2>6. ASSUME NEW key \in DOMAIN t, key \notin DOMAIN symbols PROVE Rooted(program, t, key)
    <3>1. PICK local \in Copies(path) : key = <<current, local>>
      BY <2>3, <2>4, <2>6
    <3> DEFINE k == <<path, local>>
    <3>2. t[key] = symbols[k] /\ key[1] = current /\ key[2] = k[2]
      BY <2>3, <2>5, <2>6, <3>1
    <3>3. Rooted(program, symbols, k) /\ k \in DOMAIN symbols /\ k[1] = path
      BY <2>2
    <3> HIDE DEF k
    <3>4. PICK m, i \in Nat :
            /\ MadeOf(program, symbols[k], k[2], m, i)
            /\ Holds(symbols, SpaceAt(program, m, i), k[2], symbols[k])
      BY <3>3 DEF Rooted, Grounded
    <3>5. Holds(t, SpaceAt(program, m, i), key[2], t[key])
      BY <2>4, <3>2, <3>4 DEF Holds, Extends
    <3>6. \E n \in 1 .. Len(program) : key[1] = program[n].path
      BY <3>2 DEF Here
    <3>7. Grounded(program, t, key)
      BY <3>2, <3>4, <3>5, <3>6 DEF Grounded
    <3>8. WithStruct(t, key)
      <4> SUFFICES ASSUME Len(key[2]) = 2 PROVE <<key[1], <<key[2][1]>>>> \in DOMAIN t
        BY DEF WithStruct
      <4> DEFINE l == <<k[2][1]>>
      <4>1. <<path, l>> \in DOMAIN symbols
        BY <3>2, <3>3 DEF Rooted, WithStruct
      <4> HIDE DEF l
      <4>2. l \in Copies(path)
        BY <4>1 DEF Copies
      <4>3. <<current, l>> \in DOMAIN g
        BY <2>3, <4>2
      <4> QED
        BY <2>4, <3>2, <4>3 DEF l
    <3>9. key = <<key[1], key[2]>>
      BY <3>1
    <3> QED
      BY <3>7, <3>8, <3>9 DEF Rooted
  <2> QED
    BY <2>1, <2>4, <2>6 DEF Grown
<1> QED
  BY <1>1, <1>2

(* declare: a name no symbol of which is seen is new where it stands. *)
LEMMA UnseenIsFree ==
  ASSUME TableTruthful, Len(current) \in Nat, current \in Seq(STRING), NEW local,
         Lookup(symbols, << >>, current, local) = Nothing
  PROVE  <<current, local>> \notin DOMAIN symbols
<1>1. <<SubSeq(current, 1, Len(current)), local>> \in DOMAIN symbols =>
        \E key \in DOMAIN symbols : Nothing = symbols[key]
  BY LookupOutside DEF InTable
<1>2. SubSeq(current, 1, Len(current)) = current
  OBVIOUS
<1>3. \A key \in DOMAIN symbols : symbols[key].kind # "none"
  BY DEF TableTruthful, Sound
<1>4. Nothing.kind = "none"
  BY DEF Nothing
<1> QED
  BY <1>1, <1>2, <1>3, <1>4

LEMMA WithGrown ==
  ASSUME NamesInvariant, phase \in {"collect", "analyze"}, Item.kind \notin {"enter", "exit"},
         NEW local, <<current, local>> \notin DOMAIN symbols, Len(local) # 2,
         NEW s, MadeOf(program, s, local, module, at)
  PROVE  /\ Grown(program, symbols, With(<<current, local>>, s))
         /\ Holds(With(<<current, local>>, s), current, local, s)
<1> DEFINE key == <<current, local>>
           t == With(key, s)
<1>1. Extends(symbols, t) /\ t[key] = s /\ DOMAIN t = DOMAIN symbols \cup {key}
  BY WithExtends
<1>2. key[2] = local /\ key = <<current, key[2]>>
  OBVIOUS
<1> HIDE DEF t
<1>3. WithStruct(t, key)
  BY <1>2 DEF WithStruct
<1>4. Grown(program, symbols, t)
  BY <1>1, <1>2, <1>3, DeclaredGrown
<1>5. Holds(t, current, local, s)
  BY <1>1 DEF Holds
<1> QED
  BY <1>4, <1>5 DEF t

LEMMA FunctionGrown ==
  ASSUME NamesInvariant, TableTruthful, phase = "collect", Item.kind = "func", Item.defined = TRUE,
         CollectFunction(Item)
  PROVE  /\ Grown(program, symbols, symbols')
         /\ errors' = {} => /\ <<current, <<Item.name>>>> \in DOMAIN symbols'
                            /\ symbols'[<<current, <<Item.name>>>>].home = current \o <<Item.name>>
<1> DEFINE local == <<Item.name>>
           existing == Lookup(symbols, << >>, current, local)
           s == Symbol("func", local, TRUE, <<at, 0>>)
<1>1. /\ current = SpaceAt(program, module, at) /\ IsItem(program, module, at) /\ current \in Seq(STRING)
      /\ Here = program[module] /\ Item = program[module].body[at] /\ Len(current) \in Nat
  BY ItemHere
<1>2. existing = Nothing \/ InTable(existing)
  <2> HIDE DEF local
  <2> QED
    BY <1>1, LookupOutside
<1>3. existing # Nothing => existing.defined = TRUE
  BY <1>2 DEF InTable, TableTruthful, Sound
<1>4. CASE existing = Nothing
  <2>1. symbols' = With(<<current, local>>, s)
    BY <1>4 DEF CollectFunction
  <2>2. <<current, local>> \notin DOMAIN symbols
    BY <1>1, <1>4, UnseenIsFree
  <2>3. s.kind = "func" /\ s.owner = Here.path /\ s.home = current \o local
    BY DEF Symbol
  <2>4. local \in Locals(program, module, at)
    BY <1>1, LocalsAre
  <2>5. Len(local) # 2
    OBVIOUS
  <2> HIDE DEF local, s
  <2>6. MadeOf(program, s, local, module, at)
    BY <1>1, <2>3, <2>4 DEF MadeOf
  <2>7. Grown(program, symbols, symbols') /\ Holds(symbols', current, local, s)
    BY <2>1, <2>2, <2>5, <2>6, WithGrown
  <2> QED
    BY <2>3, <2>7 DEF Holds, local
<1>5. CASE existing # Nothing
  <2>1. errors' = errors \cup {Error("redeclaration")} /\ symbols' = symbols
    BY <1>3, <1>5 DEF CollectFunction
  <2> QED
    BY <2>1 DEF Grown, Extends
<1> QED
  BY <1>4, <1>5

LEMMA GlobalGrown ==
  ASSUME NamesInvariant, phase = "analyze", Item.kind = "global", AnalyzeGlobal(Item)
  PROVE  Grown(program, symbols, symbols')
<1> DEFINE local == <<Item.name>>
           kind == IF Item.mut THEN "global" ELSE "const"
           s == Symbol(kind, local, TRUE, <<at, 0>>)
<1>1. /\ current = SpaceAt(program, module, at) /\ IsItem(program, module, at)
      /\ Here = program[module] /\ Item = program[module].body[at]
  BY ItemHere
<1>2. CASE scopes = <<>> /\ local \notin Copies(current)
  <2>1. symbols' = With(<<current, local>>, s)
    <3> DEFINE e == [l \in {local} |-> Symbol(kind, l, TRUE, <<at, 0>>)]
               f == [key \in {current} \X DOMAIN e |-> e[key[2]]]
               g == [k \in {<<current, local>>} |-> s]
    <3>0. Declare(e)
      BY <1>2, Zenon DEF AnalyzeGlobal
    <3>1. symbols' = Extend(symbols, f)
      <4> HIDE DEF e
      <4> QED
        BY <1>2, <3>0, Zenon DEF Declare
    <3>2. DOMAIN f = {<<current, local>>} /\ f[<<current, local>>] = s
      <4> HIDE DEF local, kind
      <4>1. DOMAIN e = {local} /\ e[local] = s
        OBVIOUS
      <4> HIDE DEF e, s
      <4>2. <<current, local>> \in DOMAIN f
        BY <4>1
      <4>3. f[<<current, local>>] = s
        BY <4>1, <4>2
      <4> QED
        BY <4>1, <4>3
    <3>3. DOMAIN g = {<<current, local>>} /\ g[<<current, local>>] = s
      OBVIOUS
    <3>4. <<current, local>> \notin DOMAIN symbols
      BY <1>2 DEF Copies
    <3> HIDE DEF f, g, s, local, e
    <3>5. DOMAIN f \cup DOMAIN symbols = DOMAIN symbols \cup DOMAIN g
      BY <3>2, <3>3
    <3>6. \A x \in DOMAIN symbols \cup DOMAIN g :
            (IF x \in DOMAIN symbols THEN symbols[x] ELSE f[x]) = IF x \in DOMAIN g THEN g[x] ELSE symbols[x]
      BY <3>2, <3>3, <3>4
    <3>7. Extend(symbols, f) = Extend(g, symbols)
      BY <3>5, <3>6 DEF Extend
    <3> QED
      BY <3>1, <3>7 DEF With, g
  <2>2. <<current, local>> \notin DOMAIN symbols
    BY <1>2 DEF Copies
  <2>3. s.kind \in {"global", "const"} /\ s.owner = Here.path /\ s.home = current \o local
    BY DEF Symbol
  <2>4. Len(local) # 2
    OBVIOUS
  <2> HIDE DEF s
  <2>5. MadeOf(program, s, local, module, at)
    BY <1>1, <2>3 DEF MadeOf
  <2> HIDE DEF local
  <2> QED
    BY <2>1, <2>2, <2>4, <2>5, WithGrown
<1>3. CASE ~(scopes = <<>> /\ local \notin Copies(current))
  BY <1>3 DEF AnalyzeGlobal, Declare, Grown, Extends
<1> QED
  BY <1>2, <1>3

LEMMA EnumGrown ==
  ASSUME NamesInvariant, phase = "collect", Item.kind = "enum", CollectEnum(Item)
  PROVE  Grown(program, symbols, symbols')
<1> DEFINE local == <<Item.name>>
           s == Symbol("enum", local, TRUE, <<at, 0>>)
           Variant(v) == Symbol("const", <<v>>, TRUE, << >>)
           variants == [key \in {<<current, <<v>>>> : v \in Range(Item.variants)} |-> Variant(key[2][1])]
           first == With(<<current, local>>, s)
           t == Extend(first, variants)
<1>1. /\ current = SpaceAt(program, module, at) /\ IsItem(program, module, at)
      /\ Here = program[module] /\ Item = program[module].body[at]
  BY ItemHere
<1>2. CASE Free(local)
  <2>1. symbols' = t
    BY <1>2 DEF CollectEnum
  <2>2. <<current, local>> \notin DOMAIN symbols /\ Len(local) # 2
    BY <1>2 DEF Free
  <2>3. MadeOf(program, s, local, module, at)
    <3>1. s.kind = "enum" /\ s.owner = Here.path /\ s.home = current \o local
      BY DEF Symbol
    <3> HIDE DEF s
    <3> QED
      BY <1>1, <3>1 DEF MadeOf
  <2>4. \A v : Variant(v).kind = "const" /\ Variant(v).owner = Here.path /\ Variant(v).home = current \o <<v>>
    BY DEF Symbol
  <2>5. DOMAIN variants = {<<current, <<v>>>> : v \in Range(Item.variants)}
        /\ \A v \in Range(Item.variants) : variants[<<current, <<v>>>>] = Variant(v)
    OBVIOUS
  <2> HIDE DEF s, local, variants, Variant
  <2>6. Extends(symbols, first) /\ first[<<current, local>>] = s /\ DOMAIN first = DOMAIN symbols \cup {<<current, local>>}
    BY <2>2, WithExtends
  <2> HIDE DEF first
  <2>7. Extends(first, t) /\ DOMAIN t = DOMAIN first \cup DOMAIN variants
    BY ExtendExtends, ExtendDomain
  <2>8. \A key \in DOMAIN t : key \notin DOMAIN first => t[key] = variants[key]
    BY DEF Extend
  <2> HIDE DEF t
  <2>9. ASSUME NEW key \in DOMAIN t, key \notin DOMAIN symbols
        PROVE  /\ key = <<current, key[2]>> /\ WithStruct(t, key)
               /\ MadeOf(program, t[key], key[2], module, at)
    <3>1. CASE key \in DOMAIN first
      <4>1. key = <<current, local>> /\ t[key] = s
        BY <2>6, <2>7, <2>9, <3>1 DEF Extends
      <4>2. key[2] = local
        BY <4>1
      <4> QED
        BY <2>2, <2>3, <4>1, <4>2 DEF WithStruct
    <3>2. CASE key \notin DOMAIN first
      <4>1. PICK v \in Range(Item.variants) : key = <<current, <<v>>>>
        BY <2>5, <2>7, <3>2
      <4>2. t[key] = Variant(v)
        BY <2>5, <2>8, <3>2, <4>1
      <4> DEFINE l == <<v>>
      <4>3. key[2] = l /\ Len(l) # 2 /\ key = <<current, l>>
        BY <4>1
      <4>4. MadeOf(program, t[key], l, module, at)
        <5>1. t[key].kind = "const" /\ t[key].owner = Here.path /\ t[key].home = current \o l
          BY <2>4, <4>2
        <5> HIDE DEF l
        <5>2. \E w \in Range(Item.variants) : l = <<w>>
          BY DEF l
        <5> QED
          BY <1>1, <5>1, <5>2 DEF MadeOf
      <4> HIDE DEF l
      <4> QED
        BY <4>3, <4>4 DEF WithStruct
    <3> QED
      BY <3>1, <3>2
  <2>10. Extends(symbols, t)
    BY <2>6, <2>7, ExtendsSteps
  <2>11. Grown(program, symbols, t)
    BY <2>9, <2>10, DeclaredGrown
  <2> QED
    BY <2>1, <2>11 DEF t
<1>3. CASE ~Free(local)
  BY <1>3 DEF CollectEnum, Grown, Extends
<1> QED
  BY <1>2, <1>3

LEMMA StructGrown ==
  ASSUME NamesInvariant, GroundedTable(program, symbols), phase = "collect", Item.kind = "struct",
         CollectStruct(Item)
  PROVE  /\ Grown(program, symbols, symbols')
         /\ errors' = {} => \A local \in Locals(program, module, at) :
              <<current, local>> \in DOMAIN symbols' /\ symbols'[<<current, local>>].home = current \o local
<1> DEFINE Method(m) == Symbol("func", <<Item.name, Item.methods[m].name>>, TRUE, <<at, m>>)
           First(name) == CHOOSE m \in DOMAIN Item.methods :
                            Item.methods[m].name = name /\ \A l \in 1 .. m - 1 : Item.methods[l].name # name
           names == {Item.methods[m].name : m \in DOMAIN Item.methods}
           local == <<Item.name>>
           plain == Symbol("struct", local, TRUE, <<at, 0>>)
           struct == Extend([methods |-> names], plain)
           methods == [key \in {<<current, <<Item.name, m>>>> : m \in names} |-> Method(First(key[2][2]))]
           first == With(<<current, local>>, struct)
           t == Extend(first, methods)
<1>1. /\ current = SpaceAt(program, module, at) /\ IsItem(program, module, at)
      /\ Here = program[module] /\ Item = program[module].body[at] /\ program \in Programs
  BY ItemHere
<1>2. CASE Free(local)
  <2>1. symbols' = t
    BY <1>2 DEF CollectStruct
  <2>2. <<current, local>> \notin DOMAIN symbols /\ Len(local) # 2
    BY <1>2 DEF Free
  <2>3. MadeOf(program, struct, local, module, at)
    <3>1. plain.kind = "struct" /\ plain.owner = Here.path /\ plain.home = current \o local
      BY DEF Symbol
    <3>2. DOMAIN plain = {"kind", "private", "owner", "home", "defined"} /\ DOMAIN [methods |-> names] = {"methods"}
      BY DEF Symbol
    <3>3. \A x \in {"kind", "private", "owner", "home", "defined"} : struct[x] = plain[x]
      <4> TAKE x \in {"kind", "private", "owner", "home", "defined"}
      <4>1. x \notin {"methods"}
        OBVIOUS
      <4> HIDE DEF plain, names
      <4> QED
        BY <3>2, <4>1 DEF Extend
    <3>4. struct.kind = plain.kind /\ struct.owner = plain.owner /\ struct.home = plain.home
      BY <3>3
    <3> HIDE DEF struct, plain
    <3> QED
      BY <1>1, <3>1, <3>4 DEF MadeOf
  <2>4. \A name \in names : First(name) \in DOMAIN Item.methods /\ Item.methods[First(name)].name = name
    <3> TAKE name \in names
    <3>1. IsList(Item.methods)
      BY <1>1, ItemShape DEF IsDeclaration
    <3>2. DOMAIN Item.methods \in SUBSET (Nat \ {0})
      BY <3>1 DEF IsList
    <3> DEFINE T == {m \in DOMAIN Item.methods : Item.methods[m].name = name}
    <3>3. T \in SUBSET Nat /\ T # {}
      BY <3>2
    <3>4. PICK m \in T : \A l \in T : m <= l
      BY <3>3, LeastOf
    <3>5. \A l \in 1 .. m - 1 : Item.methods[l].name # name
      <4> TAKE l \in 1 .. m - 1
      <4>1. l \in DOMAIN Item.methods /\ ~(m <= l)
        BY <3>1, <3>2, <3>4 DEF IsList
      <4> QED
        BY <3>4, <4>1
    <3> QED
      BY <3>4, <3>5
  <2> HIDE DEF First
  <2>5. \A name \in names : LET f == Method(First(name))
                            IN  f.kind = "func" /\ f.owner = Here.path /\ f.home = current \o <<Item.name, name>>
    BY <2>4 DEF Symbol
  <2>6. DOMAIN methods = {<<current, <<Item.name, name>>>> : name \in names}
        /\ \A name \in names : methods[<<current, <<Item.name, name>>>>] = Method(First(name))
    OBVIOUS
  <2> HIDE DEF Method, struct, methods
  <2>7. /\ Extends(symbols, first) /\ first[<<current, local>>] = struct
        /\ DOMAIN first = DOMAIN symbols \cup {<<current, local>>}
    <3> HIDE DEF local
    <3> QED
      BY <2>2, WithExtends
  <2> HIDE DEF first
  <2>8. Extends(first, t) /\ DOMAIN t = DOMAIN first \cup DOMAIN methods
    BY ExtendExtends, ExtendDomain
  <2>9. \A key \in DOMAIN t : key \notin DOMAIN first => t[key] = methods[key]
    BY DEF Extend
  <2> HIDE DEF t
  <2>10. \A name \in names : <<Item.name, name>> \in Locals(program, module, at)
    BY <1>1, LocalsAre
  <2>11. \A l \in Locals(program, module, at) : \E name \in names : l = <<Item.name, name>>
    BY <1>1, LocalsAre
  <2>12. ASSUME NEW name \in names
         PROVE  LET l == <<Item.name, name>>
                IN  /\ <<current, l>> \in DOMAIN t /\ t[<<current, l>>].home = current \o l
                    /\ WithStruct(t, <<current, l>>) /\ MadeOf(program, t[<<current, l>>], l, module, at)
    <3> DEFINE l == <<Item.name, name>>
               key == <<current, l>>
    <3>1. key \in DOMAIN methods /\ methods[key] = Method(First(name)) /\ key \in DOMAIN t
      BY <2>6, <2>8
    <3>2. key[2] = l /\ Len(l) = 2 /\ l[1] = Item.name /\ key[1] = current /\ l # local
      OBVIOUS
    <3>3. key \notin DOMAIN symbols
      <4> SUFFICES ASSUME key \in DOMAIN symbols PROVE FALSE
        OBVIOUS
      <4>1. WithStruct(symbols, key)
        BY DEF GroundedTable, Rooted
      <4>2. <<current, local>> \in DOMAIN symbols
        BY <3>2, <4>1 DEF WithStruct
      <4> QED
        BY <2>2, <4>2
    <3>4. key \notin DOMAIN first
      <4>1. key # <<current, local>>
        BY <3>2
      <4> QED
        BY <2>7, <3>3, <4>1
    <3>5. t[key] = Method(First(name))
      BY <2>9, <3>1, <3>4
    <3>6. t[key].kind = "func" /\ t[key].owner = Here.path /\ t[key].home = current \o l
      BY <2>5, <3>5
    <3>7. WithStruct(t, key)
      <4>1. <<current, local>> \in DOMAIN t
        BY <2>7, <2>8
      <4> QED
        BY <3>2, <4>1 DEF WithStruct
    <3>8. l \in Locals(program, module, at)
      BY <2>10
    <3> HIDE DEF l
    <3>9. MadeOf(program, t[key], l, module, at)
      BY <1>1, <3>6, <3>8 DEF MadeOf
    <3> QED
      BY <3>1, <3>6, <3>7, <3>9 DEF l
  <2>13. ASSUME NEW key \in DOMAIN t, key \notin DOMAIN symbols
        PROVE  /\ key = <<current, key[2]>> /\ WithStruct(t, key)
               /\ MadeOf(program, t[key], key[2], module, at)
    <3>1. CASE key \in DOMAIN first
      <4>1. key = <<current, local>> /\ t[key] = struct
        BY <2>7, <2>8, <2>13, <3>1 DEF Extends
      <4> HIDE DEF local
      <4>2. key[2] = local
        BY <4>1
      <4> QED
        BY <2>2, <2>3, <4>1, <4>2 DEF WithStruct
    <3>2. CASE key \notin DOMAIN first
      <4>1. PICK name \in names : key = <<current, <<Item.name, name>>>>
        BY <2>6, <2>8, <3>2
      <4> DEFINE l == <<Item.name, name>>
      <4>2. /\ WithStruct(t, <<current, l>>) /\ MadeOf(program, t[<<current, l>>], l, module, at)
        BY <2>12
      <4> HIDE DEF l
      <4>3. key = <<current, l>> /\ key[2] = l
        BY <4>1 DEF l
      <4> QED
        BY <4>2, <4>3
    <3> QED
      BY <3>1, <3>2
  <2>14. Extends(symbols, t)
    BY <2>7, <2>8, ExtendsSteps
  <2>15. Grown(program, symbols, t)
    BY <2>13, <2>14, DeclaredGrown
  <2>16. \A l \in Locals(program, module, at) :
           <<current, l>> \in DOMAIN t /\ t[<<current, l>>].home = current \o l
    BY <2>11, <2>12
  <2>17. symbols' = t
    BY <2>1 DEF t
  <2> QED
    BY <2>15, <2>16, <2>17
<1>3. CASE ~Free(local)
  <2>1. errors' = errors \cup {Error("redeclaration")} /\ symbols' = symbols
    BY <1>3 DEF CollectStruct
  <2> QED
    BY <2>1 DEF Grown, Extends
<1> QED
  BY <1>2, <1>3

(* The names of the program are apart, and imports are at the top. *)
Plainly == NamesApart(program) /\ ~ImportsInside

(* The functions before item n of module m are where they were declared. *)
Held(m, n) ==
  \A k, i \in Nat : Before(k, i, m, n) =>
    \A local \in Locals(program, k, i) :
      /\ <<SpaceAt(program, k, i), local>> \in DOMAIN symbols
      /\ symbols[<<SpaceAt(program, k, i), local>>].home = SpaceAt(program, k, i) \o local

HeldInOrder ==
  errors = {} =>
    /\ phase \in {"hide", "import"} => Held(module, 1)
    /\ phase = "collect" => Held(module, at)
    /\ phase \in {"analyze", "leave"} => Held(module + 1, 1)

(* Imports are read where the module's own namespace is the current one. *)
LEMMA UsingOutside ==
  ASSUME NamesInvariant, ~ImportsInside, phase = "analyze", Item.kind = "using"
  PROVE  current = Here.path /\ module \in 1 .. Len(program)
<1>1. /\ current = SpaceAt(program, module, at) /\ IsItem(program, module, at)
      /\ Here = program[module] /\ Item = program[module].body[at] /\ program \in Programs
      /\ module \in 1 .. Len(program) /\ at \in 1 .. Len(program[module].body)
  BY ItemHere DEF IsItem
<1> DEFINE items == program[module].body
           path == program[module].path
<1>2. Nested(items) /\ Len(items) \in Nat /\ path \in Seq(STRING)
  BY <1>1, ProgramShape
<1>3. at \in 0 .. Len(items)
  BY <1>1
<1>4. SpaceOf(items, at) \in Seq(STRING) /\ Len(SpaceOf(items, at)) = Depth(items, at)
  <2> HIDE DEF items
  <2> QED
    BY <1>2, <1>3, SpaceIs
<1>5. ~(Depth(items, at) > 0)
  <2>1. module \in DOMAIN program
    <3>1. IsList(program)
      BY <1>1, ProgramsAssumption
    <3> QED
      BY <1>1, <3>1 DEF IsList
  <2> QED
    BY <1>1, <2>1 DEF ImportsInside
<1>6. SpaceOf(items, at) = <<>>
  <2>1. Len(SpaceOf(items, at)) \in Nat
    BY <1>4
  <2>2. Len(SpaceOf(items, at)) = 0
    BY <1>4, <1>5, <2>1
  <2> QED
    BY <1>4, <2>2, EmptySeq
<1>7. path \o <<>> = path
  BY <1>2, ConcatEmptySeq
<1> QED
  BY <1>1, <1>6, <1>7 DEF SpaceAt

-----------------------------------------------------------------------------
(* The scopes of namespaces, when imports are at the top of modules *)

(* The symbol a scope has for a name. *)
In(s, local, x) == \E n \in DOMAIN s : local \in DOMAIN s[n] /\ x = s[n][local]

GlobalsIn(s) ==
  \A local, x : In(s, local, x) => Len(local) = 1 /\ x.kind \in {"global", "const"}

LEMMA InDeclared ==
  ASSUME IsList(scopes), NEW entries, Declare(entries), NEW local, NEW x, In(scopes', local, x)
  PROVE  \/ In(scopes, local, x)
         \/ scopes # <<>> /\ local \in DOMAIN entries /\ x = entries[local]
<1>1. CASE scopes = <<>>
  BY <1>1 DEF Declare
<1>2. CASE scopes # <<>>
  <2> DEFINE e == Extend(Last(scopes), entries)
             front == Front(scopes)
  <2>1. scopes' = Append(front, e)
    BY <1>2 DEF Declare
  <2>2. /\ DOMAIN front = 1 .. Len(scopes) - 1 /\ Last(scopes) = scopes[Len(scopes)]
        /\ \A n \in 1 .. Len(scopes) - 1 : front[n] = scopes[n]
        /\ IsList(front) /\ Len(front) = Len(scopes) - 1 /\ Len(scopes) \in Nat \ {0}
        /\ DOMAIN scopes = 1 .. Len(scopes)
    BY <1>2, FrontItems, ListFront, ListItems
  <2>3. local \in DOMAIN e => \/ local \in DOMAIN Last(scopes) /\ e[local] = Last(scopes)[local]
                              \/ local \in DOMAIN entries /\ e[local] = entries[local]
    BY DEF Extend
  <2> HIDE DEF e, front
  <2>4. /\ DOMAIN scopes' = 1 .. Len(front) + 1 /\ scopes'[Len(front) + 1] = e
        /\ \A n \in 1 .. Len(front) : scopes'[n] = front[n]
    BY <2>1, <2>2, AppendItems
  <2>5. PICK n \in DOMAIN scopes' : local \in DOMAIN scopes'[n] /\ x = scopes'[n][local]
    BY DEF In
  <2>6. CASE n = Len(front) + 1
    <3>1. local \in DOMAIN e /\ x = e[local]
      BY <2>4, <2>5, <2>6
    <3>2. Len(scopes) \in DOMAIN scopes
      BY <2>2
    <3> QED
      BY <1>2, <2>2, <2>3, <3>1, <3>2 DEF In
  <2>7. CASE n # Len(front) + 1
    <3>1. n \in 1 .. Len(scopes) - 1 /\ n \in 1 .. Len(front) /\ n \in DOMAIN scopes
      BY <2>2, <2>4, <2>7
    <3>2. scopes'[n] = scopes[n]
      BY <2>2, <2>4, <3>1
    <3> QED
      BY <2>5, <3>1, <3>2 DEF In
  <2> QED
    BY <2>6, <2>7
<1> QED
  BY <1>1, <1>2

LEMMA InMoved ==
  ASSUME IsList(scopes), \/ scopes' = Append(scopes, << >>)
                         \/ scopes # <<>> /\ scopes' = Front(scopes),
         NEW local, NEW x, In(scopes', local, x)
  PROVE  In(scopes, local, x)
<1>1. DOMAIN scopes = 1 .. Len(scopes) /\ Len(scopes) \in Nat
  BY ListItems
<1>2. PICK n \in DOMAIN scopes' : local \in DOMAIN scopes'[n] /\ x = scopes'[n][local]
  BY DEF In
<1>3. CASE scopes' = Append(scopes, << >>)
  <2>1. /\ DOMAIN scopes' = 1 .. Len(scopes) + 1 /\ scopes'[Len(scopes) + 1] = << >>
        /\ \A k \in 1 .. Len(scopes) : scopes'[k] = scopes[k]
    BY <1>3, AppendItems
  <2>2. n # Len(scopes) + 1
    BY <1>2, <2>1
  <2>3. n \in 1 .. Len(scopes)
    BY <1>1, <2>1, <2>2
  <2> QED
    BY <1>1, <1>2, <2>1, <2>3 DEF In
<1>4. CASE scopes # <<>> /\ scopes' = Front(scopes)
  <2>1. DOMAIN scopes' = 1 .. Len(scopes) - 1 /\ \A k \in 1 .. Len(scopes) - 1 : scopes'[k] = scopes[k]
    BY <1>4, FrontItems
  <2>2. 1 .. Len(scopes) - 1 \subseteq 1 .. Len(scopes)
    BY <1>1
  <2> QED
    BY <1>1, <1>2, <2>1, <2>2 DEF In
<1> QED
  BY <1>3, <1>4

(* Outside of the namespaces in a module no scope is open. *)
LEMMA OutsideScopes ==
  ASSUME NamesInvariant, phase = "analyze", Item.kind \notin {"enter", "exit"}, current = Here.path
  PROVE  scopes = <<>>
<1>1. /\ Here.path \in Seq(STRING) /\ Nested(Here.body) /\ Len(Here.body) \in Nat
      /\ at \in 1 .. Len(Here.body) /\ Item = Here.body[at]
  BY HereShape DEF NamesInvariant, Item
<1>2. current = Here.path \o SpaceOf(Here.body, at)
  BY CurrentHere
<1> DEFINE items == Here.body
           path == Here.path
           inside == SpaceOf(items, at)
<1>3. inside \in Seq(STRING) /\ Len(inside) = Depth(items, at)
  <2>1. Nested(items) /\ Len(items) \in Nat /\ at \in 0 .. Len(items)
    BY <1>1
  <2> HIDE DEF items
  <2> QED
    BY <2>1, SpaceIs
<1>4. Depth(items, at) = Depth(items, at - 1) + Turn(Item) /\ Depth(items, at - 1) \in Int
  BY <1>1, DepthStep
<1>5. Depth(items, at) = Depth(items, at - 1)
  BY <1>4 DEF Turn
<1>6. IsList(scopes) /\ Len(scopes) = Depth(items, at - 1)
  BY DEF NamesInvariant, ScopesFollow
<1>7. path = path \o inside /\ path \in Seq(STRING)
  BY <1>1, <1>2
<1> HIDE DEF items, path, inside
<1>8. Len(inside) = 0
  <2> DEFINE S == STRING
  <2>1. path \in Seq(S) /\ inside \in Seq(S)
    BY <1>3, <1>7
  <2> HIDE DEF S
  <2>2. Len(path \o inside) = Len(path) + Len(inside) /\ Len(path) \in Nat /\ Len(inside) \in Nat
    BY <2>1, ConcatProperties
  <2> QED
    BY <1>7, <2>2
<1> QED
  BY <1>3, <1>5, <1>6, <1>8, EmptySeq DEF IsList

(* Without imports there, the scope of a namespace has its globals.        *)
LEMMA GlobalsStep ==
  ASSUME NamesInvariant, ~ImportsInside, GlobalsIn(scopes), [Next]_vars
  PROVE  GlobalsIn(scopes')
<1>1. IsList(scopes) /\ (phase # "analyze" => scopes = <<>>)
  BY EmptySeq DEF NamesInvariant, ScopesFollow, IsList
<1>2. CASE scopes' = scopes
  BY <1>2
<1>3. ASSUME NEW path, Using(path), scopes = <<>> PROVE scopes' = scopes
  BY <1>3 DEF Using, Declare
<1>4. CASE Import
  <2>1. phase = "import"
    BY <1>4 DEF Import
  <2> QED
    BY <1>1, <1>2, <1>3, <1>4, <2>1 DEF Import
<1>5. CASE Analyze
  <2>1. phase = "analyze"
    BY <1>5 DEF Analyze
  <2>2. \/ scopes' = scopes
        \/ Item.kind = "enter" /\ scopes' = Append(scopes, << >>)
        \/ Item.kind = "exit" /\ scopes' = Front(scopes)
        \/ Item.kind = "global" /\ AnalyzeGlobal(Item)
        \/ Item.kind = "using" /\ Using(Item.path)
    BY <1>5 DEF Analyze, table
  <2>3. CASE Item.kind = "enter" /\ scopes' = Append(scopes, << >>)
    BY <1>1, <2>3, InMoved DEF GlobalsIn
  <2>4. CASE Item.kind = "exit" /\ scopes' = Front(scopes)
    <3>1. scopes # <<>>
      BY <2>1, <2>4, ExitOpen
    <3> QED
      BY <1>1, <2>4, <3>1, InMoved DEF GlobalsIn
  <2>5. CASE Item.kind = "global" /\ AnalyzeGlobal(Item)
    <3> DEFINE kind == IF Item.mut THEN "global" ELSE "const"
               e == [local \in {<<Item.name>>} |-> Symbol(kind, local, TRUE, <<at, 0>>)]
    <3>1. Declare(e) \/ scopes' = scopes
      BY <2>5, Zenon DEF AnalyzeGlobal
    <3>2. \A local \in DOMAIN e : Len(local) = 1 /\ e[local].kind \in {"global", "const"}
      BY DEF Symbol
    <3> HIDE DEF e
    <3> QED
      BY <1>1, <1>2, <3>1, <3>2, InDeclared DEF GlobalsIn
  <2>6. CASE Item.kind = "using" /\ Using(Item.path)
    <3>1. scopes = <<>>
      BY <2>1, <2>6, UsingOutside, OutsideScopes
    <3> QED
      BY <1>2, <1>3, <2>6, <3>1
  <2> QED
    BY <1>2, <2>2, <2>3, <2>4, <2>5, <2>6
<1>6. CASE ~(Import \/ Analyze)
  <2>1. scopes' = scopes
    BY <1>6 DEF Next, Hide, Collect, Leave, Register, Generate, vars, table
  <2> QED
    BY <1>2, <2>1
<1> QED
  BY <1>4, <1>5, <1>6

LEMMA TableStep ==
  ASSUME HomeInvariant, Plainly, GroundedTable(program, symbols), [Next]_vars
  PROVE  Grown(program, symbols, symbols')
<1>1. /\ NamesInvariant /\ TableTruthful /\ NoneAhead(program) /\ ~ImportsInside
  BY DEF HomeInvariant, UsesInvariant, Plainly, NamesApart
<1>2. module \in 1 .. Len(program)
  BY <1>1, HereShape DEF NamesInvariant
<1>3. UNCHANGED symbols => Grown(program, symbols, symbols')
  BY DEF Grown, Extends
<1>4. CASE Import
  <2>1. phase = "import" /\ (Using(Item.path) \/ UNCHANGED symbols)
    BY <1>4 DEF Import
  <2>2. current = Here.path
    BY <1>1, <2>1 DEF NamesInvariant, SpacesFollow
  <2> QED
    BY <1>2, <1>3, <2>1, <2>2, UsingGrown
<1>5. CASE Collect
  <2>1. /\ phase = "collect"
        /\ \/ UNCHANGED symbols
           \/ Item.kind = "func" /\ CollectFunction(Item)
           \/ Item.kind = "struct" /\ CollectStruct(Item)
           \/ Item.kind = "enum" /\ CollectEnum(Item)
    BY <1>5 DEF Collect, table
  <2>2. Item.kind = "func" => Item.defined = TRUE
    BY <1>1, <2>1, CurrentHere DEF NoneAhead
  <2> QED
    BY <1>1, <1>3, <2>1, <2>2, FunctionGrown, StructGrown, EnumGrown
<1>6. CASE Analyze
  <2>1. /\ phase = "analyze"
        /\ \/ UNCHANGED symbols
           \/ Item.kind = "global" /\ AnalyzeGlobal(Item)
           \/ Item.kind = "using" /\ Using(Item.path)
    BY <1>6 DEF Analyze, table
  <2> QED
    BY <1>1, <1>3, <2>1, UsingOutside, UsingGrown, GlobalGrown
<1>7. CASE ~(Import \/ Collect \/ Analyze)
  BY <1>3, <1>7 DEF Next, Hide, Leave, Register, Generate, vars, table
<1> QED
  BY <1>4, <1>5, <1>6, <1>7

LEMMA HeldGrows ==
  ASSUME NEW m, NEW n, Held(m, n), Extends(symbols, symbols'), UNCHANGED program
  PROVE  Held(m, n)'
<1>1. \A k, i : /\ Before(k, i, m, n)' <=> Before(k, i, m, n)
                /\ Locals(program, k, i)' = Locals(program, k, i)
                /\ SpaceAt(program, k, i)' = SpaceAt(program, k, i)
  BY DEF Before
<1>2. ASSUME NEW k \in Nat, NEW i \in Nat, Before(k, i, m, n), NEW local \in Locals(program, k, i)
      PROVE  /\ <<SpaceAt(program, k, i), local>> \in DOMAIN symbols'
             /\ symbols'[<<SpaceAt(program, k, i), local>>].home = SpaceAt(program, k, i) \o local
  BY <1>2 DEF Held, Extends
<1> QED
  BY <1>1, <1>2 DEF Held

LEMMA HeldOneMore ==
  ASSUME NEW m, NEW n, Held(m, n), Extends(symbols, symbols'), UNCHANGED program,
         \A local \in Locals(program, m, n) :
           /\ <<SpaceAt(program, m, n), local>> \in DOMAIN symbols'
           /\ symbols'[<<SpaceAt(program, m, n), local>>].home = SpaceAt(program, m, n) \o local,
         NEW l, NEW o,
         \A k, i \in Nat : Before(k, i, l, o) => Before(k, i, m, n) \/ (k = m /\ i = n)
  PROVE  Held(l, o)'
<1>1. \A k, i : /\ Before(k, i, l, o)' <=> Before(k, i, l, o)
                /\ Locals(program, k, i)' = Locals(program, k, i)
                /\ SpaceAt(program, k, i)' = SpaceAt(program, k, i)
  BY DEF Before
<1>2. ASSUME NEW k \in Nat, NEW i \in Nat, Before(k, i, l, o), NEW local \in Locals(program, k, i)
      PROVE  /\ <<SpaceAt(program, k, i), local>> \in DOMAIN symbols'
             /\ symbols'[<<SpaceAt(program, k, i), local>>].home = SpaceAt(program, k, i) \o local
  <2>1. CASE Before(k, i, m, n)
    BY <1>2, <2>1 DEF Held, Extends
  <2>2. CASE k = m /\ i = n
    BY <1>2, <2>2
  <2> QED
    BY <1>2, <2>1, <2>2
<1> QED
  BY <1>1, <1>2 DEF Held

LEMMA CollectHeld ==
  ASSUME HomeInvariant, Plainly, GroundedTable(program, symbols), Collect, Held(module, at), errors' = {}
  PROVE  /\ phase' = "collect" => Held(module, at)'
         /\ phase' = "analyze" => Held(module + 1, 1)'
         /\ phase' \in {"collect", "analyze"}
<1>1. /\ NamesInvariant /\ TableTruthful /\ NoneAhead(program) /\ phase = "collect"
      /\ UNCHANGED <<program, module>>
  BY DEF HomeInvariant, UsesInvariant, Plainly, NamesApart, Collect
<1>2. \/ phase' = "collect" /\ at' = at + 1
      \/ phase' = "analyze" /\ at = Len(Here.body)
  <2>1. Len(Here.body) \in Nat /\ at \in 1 .. Len(Here.body)
    BY <1>1, HereShape DEF NamesInvariant
  <2> QED
    BY <1>1, <2>1 DEF Collect, Advance
<1>3. Extends(symbols, symbols')
  BY TableStep DEF Next, Grown
<1>4. PICK m, n : m = module /\ n = at
  OBVIOUS
<1>5. Held(m, n) /\ Held(m, n)'
  BY <1>1, <1>3, <1>4, HeldGrows
<1>6. /\ \A k, i \in Nat : Before(k, i, m, n + 1) <=> Before(k, i, m, n) \/ (k = m /\ i = n)
      /\ at = Len(Here.body) => \A k, i \in Nat : Before(k, i, m + 1, 1) <=> Before(k, i, m, n + 1)
  BY <1>1, <1>4, BeforeNext
<1>7. ASSUME NEW local \in Locals(program, m, n)
      PROVE  /\ <<SpaceAt(program, m, n), local>> \in DOMAIN symbols'
             /\ symbols'[<<SpaceAt(program, m, n), local>>].home = SpaceAt(program, m, n) \o local
  <2>1. Item.kind \in {"func", "struct"} /\ Item = program[m].body[n]
    <3>1. Item = program[m].body[n]
      BY <1>4 DEF Item, Here
    <3> QED
      BY <3>1, LocalsAre
  <2>2. current = SpaceAt(program, m, n)
    BY <1>1, <1>4, <2>1, ItemHere
  <2>3. CASE Item.kind = "func"
    <3>1. local = <<Item.name>>
      BY <2>1, <2>3, LocalsAre
    <3>2. Item.defined = TRUE
      BY <1>1, <2>3, CurrentHere DEF NoneAhead
    <3>3. CollectFunction(Item)
      BY <2>3 DEF Collect
    <3> QED
      BY <1>1, <2>2, <2>3, <3>1, <3>2, <3>3, FunctionGrown
  <2>4. CASE Item.kind = "struct"
    <3>1. CollectStruct(Item)
      BY <2>4 DEF Collect
    <3> QED
      BY <1>1, <1>4, <2>2, <2>4, <3>1, StructGrown
  <2> QED
    BY <2>1, <2>3, <2>4
<1>9. \A l, o : (\A k, i \in Nat : Before(k, i, l, o) => Before(k, i, m, n + 1)) => Held(l, o)'
  BY <1>1, <1>3, <1>5, <1>6, <1>7, HeldOneMore
<1>10. Held(m, n + 1)' /\ (at = Len(Here.body) => Held(m + 1, 1)')
  BY <1>6, <1>9
<1> QED
  BY <1>1, <1>2, <1>4, <1>10

LEMMA HeldStep ==
  ASSUME HomeInvariant, Plainly, GroundedTable(program, symbols), HeldInOrder, [Next]_vars
  PROVE  HeldInOrder'
<1>1. UNCHANGED program
  BY DEF Next, Hide, Import, Collect, Analyze, Leave, Register, Generate, vars
<1> SUFFICES ASSUME errors' = {} PROVE HeldInOrder'
  BY DEF HeldInOrder
<1>2. Extends(symbols, symbols') /\ errors = {}
  BY TableStep, NothingLost DEF Grown
<1>3. PICK m, n : m = module /\ n = at
  OBVIOUS
<1>4. \A a, b : Held(a, b) => Held(a, b)'
  BY <1>1, <1>2, HeldGrows
<1>5. /\ module \in 1 .. Len(program) /\ Len(program) \in Nat
      /\ Len(Here.body) \in Nat /\ at \in 1 .. Len(Here.body)
  BY HereShape DEF HomeInvariant, UsesInvariant, NamesInvariant
<1>6. CASE phase \in {"hide", "import"}
  <2>1. Held(m, 1)'
    BY <1>2, <1>3, <1>4, <1>6 DEF HeldInOrder
  <2>2. module' = module /\ (phase' \in {"hide", "import"} \/ (phase' = "collect" /\ at' = 1))
    BY <1>6 DEF Next, Hide, Import, Collect, Analyze, Leave, Register, Generate, vars, Advance
  <2> QED
    BY <1>3, <2>1, <2>2 DEF HeldInOrder
<1>7. CASE phase = "collect"
  <2>1. Collect \/ UNCHANGED vars
    BY <1>7 DEF Next, Hide, Import, Analyze, Leave, Register, Generate
  <2>2. CASE Collect
    <3>1. Held(module, at)
      BY <1>2, <1>7 DEF HeldInOrder
    <3>2. /\ phase' = "collect" => Held(module, at)'
          /\ phase' = "analyze" => Held(module + 1, 1)'
          /\ phase' \in {"collect", "analyze"}
      BY <2>2, <3>1, CollectHeld
    <3> QED
      BY <3>2 DEF HeldInOrder
  <2>3. CASE UNCHANGED vars
    <3>1. Held(m, n)'
      BY <1>2, <1>3, <1>4, <1>7 DEF HeldInOrder
    <3>2. module' = module /\ at' = at /\ phase' = "collect"
      BY <1>7, <2>3 DEF vars
    <3> QED
      BY <1>3, <3>1, <3>2 DEF HeldInOrder
  <2> QED
    BY <2>1, <2>2, <2>3
<1>8. CASE phase = "analyze"
  <2>1. Held(m + 1, 1)'
    BY <1>2, <1>3, <1>4, <1>8 DEF HeldInOrder
  <2>2. module' = module /\ phase' \in {"analyze", "leave"}
    BY <1>8 DEF Next, Hide, Import, Collect, Analyze, Leave, Register, Generate, vars, Advance
  <2> QED
    BY <1>3, <2>1, <2>2 DEF HeldInOrder
<1>9. CASE phase = "leave"
  <2>1. Held(m + 1, 1)'
    BY <1>2, <1>3, <1>4, <1>9 DEF HeldInOrder
  <2>2. \/ phase' = "leave" /\ module' = module
        \/ phase' \in {"failed", "register"}
        \/ phase' = "hide" /\ module' = module + 1
    BY <1>5, <1>9 DEF Next, Hide, Import, Collect, Analyze, Leave, Register, Generate, vars
  <2> QED
    BY <1>3, <2>1, <2>2 DEF HeldInOrder
<1>10. CASE phase \in {"register", "generate", "compiled", "failed"}
  <2>1. phase' \in {"register", "generate", "compiled", "failed"}
    BY <1>10 DEF Next, Hide, Import, Collect, Analyze, Leave, Register, Generate, vars
  <2> QED
    BY <2>1 DEF HeldInOrder
<1> QED
  BY <1>6, <1>7, <1>8, <1>9, <1>10 DEF HomeInvariant, UsesInvariant, NamesInvariant, SpacesFollow

-----------------------------------------------------------------------------
(* What the two resolutions find *)

Has(t, space, local) == <<space, local>> \in DOMAIN t

LEMMA UpperBound ==
  ASSUME NEW n \in Nat, NEW T \in SUBSET (0 .. n), T # {}
  PROVE  Max(T) \in T /\ \A x \in T : x <= Max(T)
<1> DEFINE M == {n - x : x \in T}
<1>1. M \in SUBSET Nat /\ M # {}
  <2>1. \A x \in T : n - x \in Nat
    OBVIOUS
  <2> QED
    BY <2>1
<1>2. PICK y \in M : \A z \in M : y <= z
  BY <1>1, LeastOf
<1>3. PICK x \in T : y = n - x
  BY <1>2
<1>4. ASSUME NEW z \in T PROVE x >= z
  <2>1. n - z \in M /\ z \in 0 .. n /\ x \in 0 .. n
    OBVIOUS
  <2> QED
    BY <1>2, <1>3, <2>1
<1>5. \E w \in T : \A z \in T : w >= z
  BY <1>4
<1>6. Max(T) \in T /\ \A z \in T : Max(T) >= z
  BY <1>5 DEF Max
<1>7. \A z \in T : z \in 0 .. n
  OBVIOUS
<1> HIDE DEF M
<1> QED
  BY <1>6, <1>7

LEMMA Innermost ==
  ASSUME NEW S, NEW p \in Seq(S), NEW D,
         NEW T, T = {n \in 0 .. Len(p) : SubSeq(p, 1, n) \in D}
  PROVE  /\ T = {} => Around(p) \cap D = {}
         /\ T # {} => LET q == SubSeq(p, 1, Max(T))
                      IN  q \in Around(p) /\ q \in D /\ \A r \in Around(p) \cap D : r \in Around(q)
<1>1. Len(p) \in Nat
  OBVIOUS
<1>2. T = {} => Around(p) \cap D = {}
  BY DEF Around
<1>3. ASSUME T # {}
      PROVE  LET q == SubSeq(p, 1, Max(T))
             IN  q \in Around(p) /\ q \in D /\ \A r \in Around(p) \cap D : r \in Around(q)
  <2> DEFINE k == Max(T)
             q == SubSeq(p, 1, k)
  <2>1. k \in T /\ \A x \in T : x <= k
    <3>1. T \in SUBSET (0 .. Len(p))
      OBVIOUS
    <3> QED
      BY <1>1, <1>3, <3>1, UpperBound
  <2> HIDE DEF k
  <2>2. k \in 0 .. Len(p) /\ q \in D
    BY <2>1
  <2>3. q \in Around(p) /\ Len(q) = k
    BY <1>1, <2>2 DEF Around
  <2>4. ASSUME NEW r \in Around(p) \cap D PROVE r \in Around(q)
    <3>1. PICK n \in 0 .. Len(p) : r = SubSeq(p, 1, n)
      BY DEF Around
    <3>2. n <= k /\ Len(r) = n
      BY <1>1, <2>1, <3>1
    <3> HIDE DEF q
    <3> QED
      BY <2>3, <3>2, AroundLine
  <2> QED
    BY <2>2, <2>3, <2>4 DEF k
<1> QED
  BY <1>2, <1>3

(* lookup finds the innermost symbol of the name. *)
LEMMA LookupIs ==
  ASSUME NEW S, NEW p \in Seq(S), NEW t, NEW local
  PROVE  LET x == Lookup(t, << >>, p, local)
         IN  \/ x = Nothing /\ \A q \in Around(p) : ~Has(t, q, local)
             \/ \E q \in Around(p) :
                  /\ Holds(t, q, local, x)
                  /\ \A r \in Around(p) : Has(t, r, local) => r \in Around(q)
<1> DEFINE T == {n \in 0 .. Len(p) : <<SubSeq(p, 1, n), local>> \in DOMAIN t}
           D == {q \in Around(p) : <<q, local>> \in DOMAIN t}
           x == Lookup(t, << >>, p, local)
           q == SubSeq(p, 1, Max(T))
<1>1. x = IF T = {} THEN Nothing ELSE t[<<q, local>>]
  <2>1. {n \in DOMAIN << >> : local \in DOMAIN (<< >>[n])} = {}
    OBVIOUS
  <2> QED
    BY <2>1 DEF Lookup, Climb
<1>2. T = {n \in 0 .. Len(p) : SubSeq(p, 1, n) \in D}
  BY DEF Around
<1>3. \A r : r \in D <=> r \in Around(p) /\ Has(t, r, local)
  BY DEF Has
<1> HIDE DEF T, D, x
<1>4. /\ T = {} => Around(p) \cap D = {}
      /\ T # {} => q \in Around(p) /\ q \in D /\ \A r \in Around(p) \cap D : r \in Around(q)
  BY <1>2, Innermost
<1> HIDE DEF q
<1>5. CASE T = {}
  BY <1>1, <1>3, <1>4, <1>5 DEF x
<1>6. CASE T # {}
  <2>1. Holds(t, q, local, x)
    BY <1>1, <1>3, <1>4, <1>6 DEF Holds, Has
  <2> QED
    BY <1>3, <1>4, <1>6, <2>1 DEF x
<1> QED
  BY <1>5, <1>6

(* What resolve_qualified tries first. *)
Inner(t, p, path) == Climb(t, p, LAMBDA ns : <<ns \o Front(path), <<Last(path)>>>>)

LEMMA InnerIs ==
  ASSUME NEW S, NEW p \in Seq(S), NEW t, NEW path
  PROVE  LET x == Inner(t, p, path)
             Is(q) == Has(t, q \o Front(path), <<Last(path)>>)
         IN  \/ x = Nothing /\ \A q \in Around(p) : ~Is(q)
             \/ \E q \in Around(p) :
                  /\ Holds(t, q \o Front(path), <<Last(path)>>, x)
                  /\ \A r \in Around(p) : Is(r) => r \in Around(q)
<1> DEFINE Key(q) == <<q \o Front(path), <<Last(path)>>>>
           T == {n \in 0 .. Len(p) : Key(SubSeq(p, 1, n)) \in DOMAIN t}
           D == {q \in Around(p) : Key(q) \in DOMAIN t}
           x == Inner(t, p, path)
           q == SubSeq(p, 1, Max(T))
<1>1. x = IF T = {} THEN Nothing ELSE t[Key(q)]
  BY DEF Inner, Climb
<1>2. T = {n \in 0 .. Len(p) : SubSeq(p, 1, n) \in D}
  BY DEF Around
<1>3. \A r : r \in D <=> r \in Around(p) /\ Has(t, r \o Front(path), <<Last(path)>>)
  BY DEF Has
<1> HIDE DEF T, D, x
<1>4. /\ T = {} => Around(p) \cap D = {}
      /\ T # {} => q \in Around(p) /\ q \in D /\ \A r \in Around(p) \cap D : r \in Around(q)
  BY <1>2, Innermost
<1> HIDE DEF q
<1>5. CASE T = {}
  BY <1>1, <1>3, <1>4, <1>5 DEF x
<1>6. CASE T # {}
  <2>1. Holds(t, q \o Front(path), <<Last(path)>>, x)
    BY <1>1, <1>3, <1>4, <1>6 DEF Holds, Has
  <2> QED
    BY <1>3, <1>4, <1>6, <2>1 DEF x
<1> QED
  BY <1>5, <1>6

LEMMA ResolveIs ==
  ASSUME NEW t, NEW p, NEW path
  PROVE  Resolve(t, << >>, p, path) =
           IF Len(path) = 1 THEN Lookup(t, << >>, p, path)
           ELSE IF Inner(t, p, path) # Nothing THEN Inner(t, p, path)
           ELSE IF Lookup(t, << >>, p, <<Head(path)>>).kind = "enum"
                THEN Lookup(t, << >>, p, <<Last(path)>>)
           ELSE Lookup(t, << >>, p, path)
  BY DEF Resolve, Inner

LEMMA KeyPlace ==
  ASSUME NEW p \in Programs, NEW t, GroundedTable(p, t), NEW space, NEW local, NEW s, Holds(t, space, local, s)
  PROVE  \E m, i \in Nat :
           /\ MadeOf(p, s, local, m, i) /\ IsSpace(p, m, i) /\ IsItem(p, m, i)
           /\ Holds(t, SpaceAt(p, m, i), local, s)
           /\ space = SpaceAt(p, m, i) \/ \E n \in 1 .. Len(p) : space = p[n].path
<1>1. Rooted(p, t, <<space, local>>) /\ t[<<space, local>>] = s
  BY DEF GroundedTable, Holds
<1> DEFINE key == <<space, local>>
<1>2. key[1] = space /\ key[2] = local
  OBVIOUS
<1> HIDE DEF key
<1>3. PICK m, i \in Nat :
        /\ MadeOf(p, t[key], key[2], m, i)
        /\ Holds(t, SpaceAt(p, m, i), key[2], t[key])
        /\ key[1] = SpaceAt(p, m, i) \/ \E n \in 1 .. Len(p) : key[1] = p[n].path
  BY <1>1 DEF Rooted, Grounded, key
<1>4. t[key] = s
  BY <1>1 DEF key
<1>5. IsItem(p, m, i) /\ IsSpace(p, m, i)
  BY <1>3 DEF MadeOf, IsItem, IsSpace
<1> QED
  BY <1>2, <1>3, <1>4, <1>5

LEMMA KeySpace ==
  ASSUME NEW p \in Programs, NEW t, GroundedTable(p, t), NEW space, NEW local, Has(t, space, local)
  PROVE  \E n, j \in Nat : IsSpace(p, n, j) /\ space = SpaceAt(p, n, j)
<1> DEFINE s == t[<<space, local>>]
<1>1. Holds(t, space, local, s)
  BY DEF Holds, Has
<1> HIDE DEF s
<1>2. PICK m, i \in Nat :
         /\ MadeOf(p, s, local, m, i) /\ IsSpace(p, m, i) /\ IsItem(p, m, i)
         /\ space = SpaceAt(p, m, i) \/ \E n \in 1 .. Len(p) : space = p[n].path
  BY <1>1, KeyPlace
<1> QED
  <2>1. CASE space = SpaceAt(p, m, i)
    BY <1>2, <2>1
  <2>2. CASE \E n \in 1 .. Len(p) : space = p[n].path
    <3>1. PICK n \in 1 .. Len(p) : space = p[n].path
      BY <2>2
    <3>2. Len(p[n].body) \in Nat
      BY ProgramShape
    <3>3. IsSpace(p, n, 0)
      BY <3>2 DEF IsSpace
    <3> QED
      BY <3>1, <3>3, SpacesAre
  <2> QED
    BY <1>2, <2>1, <2>2

LEMMA KeyStored ==
  ASSUME NEW p \in Programs, NEW t, GroundedTable(p, t), NEW space, NEW local, NEW s, Holds(t, space, local, s)
  PROVE  s # Nothing
<1>1. PICK m, i \in Nat : MadeOf(p, s, local, m, i)
  BY KeyPlace
<1>2. s.kind # "none"
  BY <1>1, MadeShape
<1> QED
  BY <1>2 DEF Nothing

LEMMA MadeOwner ==
  ASSUME NEW p, NEW s, NEW local, NEW m, NEW i, MadeOf(p, s, local, m, i)
  PROVE  s.owner = p[m].path /\ s.home = SpaceAt(p, m, i) \o local
  BY DEF MadeOf

LEMMA MadeMethod ==
  ASSUME NEW p \in Programs, NEW s, NEW local, NEW m \in Nat, NEW i \in Nat, MadeOf(p, s, local, m, i),
         Len(local) = 2
  PROVE  p[m].body[i].kind = "struct" /\ s.kind = "func" /\ TypeNamed(p, m, i, local[1])
<1>1. Len(local) = 2 => s.kind = "func" /\ p[m].body[i].kind = "struct" /\ TypeNamed(p, m, i, local[1])
  BY ONLY MadeShape, MadeOf(p, s, local, m, i), p \in Programs, m \in Nat, i \in Nat
<1> QED
  BY <1>1

(* What is seen from a namespace: the module's own symbols, and copies at  *)
(* the module itself.                                                      *)
LEMMA SeenFrom ==
  ASSUME NEW p \in Programs, ModulesApart(p), StructsOutside(p), NEW t, GroundedTable(p, t),
         NEW m \in Nat, NEW i \in Nat, IsSpace(p, m, i), NEW q \in Around(SpaceAt(p, m, i)),
         NEW local, NEW s, Holds(t, q, local, s)
  PROVE  /\ p[m].path \in Around(q) /\ q \in Seq(STRING)
         /\ q = p[m].path \/ s.owner = p[m].path
         /\ SpaceAt(p, m, i) = p[m].path => q = p[m].path
         /\ Len(local) = 2 => q = p[m].path
<1>1. PICK k, j \in Nat :
         /\ MadeOf(p, s, local, k, j) /\ IsSpace(p, k, j) /\ IsItem(p, k, j)
         /\ q = SpaceAt(p, k, j) \/ \E n \in 1 .. Len(p) : q = p[n].path
  BY KeyPlace
<1>2. CASE q = SpaceAt(p, k, j)
  <2>1. k = m /\ p[m].path \in Around(SpaceAt(p, k, j)) /\ (SpaceAt(p, m, i) = p[m].path => SpaceAt(p, k, j) = p[m].path)
    BY <1>1, <1>2, SpacesApart
  <2>2. s.owner = p[k].path /\ (Len(local) = 2 => p[k].body[j].kind = "struct")
    <3>1. MadeOf(p, s, local, k, j)
      BY <1>1
    <3> QED
      BY <3>1, MadeOwner, MadeMethod
  <2>3. Len(local) = 2 => SpaceAt(p, k, j) = p[k].path
    BY <1>1, <2>2 DEF StructsOutside
  <2>4. q \in Seq(STRING)
    BY <1>1, <1>2, SpacesAre
  <2> QED
    BY <1>2, <2>1, <2>2, <2>3, <2>4
<1>3. CASE \E n \in 1 .. Len(p) : q = p[n].path
  <2>1. PICK n \in 1 .. Len(p) : q = p[n].path
    BY <1>3
  <2>2. n = m
    BY <2>1, OneModule
  <2>3. q \in Seq(STRING)
    BY <2>1, ProgramShape
  <2>4. q \in Around(q)
    BY <2>3, AroundItself
  <2> QED
    BY <2>1, <2>2, <2>3, <2>4
<1> QED
  BY <1>1, <1>2, <1>3

LEMMA LastBehind ==
  ASSUME NEW S, NEW path \in Seq(S), path # <<>>, Len(path) # 1, NEW q \in Seq(S), NEW r \in Seq(S)
  PROVE  /\ Last(q \o Front(path)) = Last(r \o Front(path))
         /\ q \o Front(path) = r \o Front(path) => q = r
<1> DEFINE f == Front(path)
<1>1. f \in Seq(S) /\ f # <<>>
  BY FrontIs
<1> HIDE DEF f
<1>2. Last(q \o f) = Last(f) /\ Last(r \o f) = Last(f)
  BY <1>1, LastOfConcat
<1>3. q \o f = r \o f => q = r
  BY <1>1, SameTail
<1> QED
  BY <1>2, <1>3 DEF f

LEMMA HeadBehind ==
  ASSUME NEW S, NEW path \in Seq(S), Len(path) > 1, NEW q \in Seq(S)
  PROVE  Head(path) \in Range(q \o Front(path))
<1>1. path # <<>> /\ Head(path) \in Range(Front(path))
  BY HeadInFront
<1>2. Front(path) \in Seq(S)
  BY <1>1, PathSplit
<1> QED
  BY <1>1, <1>2, ConcatRange

(* The namespace in front of a name of several parts is one of the program, *)
(* known by its last part.                                                 *)
LEMMA OneInner ==
  ASSUME NEW p \in Programs, SpacesNamedApart(p), NEW t, GroundedTable(p, t),
         NEW path \in Seq(STRING), path # <<>>, Len(path) # 1,
         NEW q \in Seq(STRING), NEW r \in Seq(STRING), NEW local, NEW other,
         Has(t, q \o Front(path), local), Has(t, r \o Front(path), other)
  PROVE  q = r
<1> DEFINE S == STRING
           a == q \o Front(path)
           b == r \o Front(path)
<1>1. path \in Seq(S) /\ q \in Seq(S) /\ r \in Seq(S)
  OBVIOUS
<1> HIDE DEF S
<1>2. Last(a) = Last(b) /\ (a = b => q = r)
  BY <1>1, LastBehind
<1>3. Has(t, a, local) /\ Has(t, b, other)
  OBVIOUS
<1> HIDE DEF a, b
<1>4. \E n, j \in Nat : IsSpace(p, n, j) /\ a = SpaceAt(p, n, j)
  BY <1>3, KeySpace
<1>5. \E n, j \in Nat : IsSpace(p, n, j) /\ b = SpaceAt(p, n, j)
  BY <1>3, KeySpace
<1> QED
  BY <1>2, <1>4, <1>5 DEF SpacesNamedApart

(* No namespace has the name of a type in it. *)
LEMMA NoTypeInside ==
  ASSUME NEW p \in Programs, TypesApart(p), NEW t, GroundedTable(p, t),
         NEW path \in Seq(STRING), Len(path) > 1,
         NEW m \in Nat, NEW i \in Nat, TypeNamed(p, m, i, Head(path)),
         NEW q \in Seq(STRING), NEW local
  PROVE  ~Has(t, q \o Front(path), local)
<1> DEFINE S == STRING
           a == q \o Front(path)
<1>1. path \in Seq(S) /\ q \in Seq(S)
  OBVIOUS
<1> HIDE DEF S
<1>2. Head(path) \in Range(a)
  BY <1>1, HeadBehind
<1> HIDE DEF a
<1>3. \A n, j \in Nat : IsSpace(p, n, j) => Head(path) \notin Range(SpaceAt(p, n, j))
  BY DEF TypesApart
<1>4. ~Has(t, a, local)
  BY <1>2, <1>3, KeySpace
<1> QED
  BY <1>4 DEF a

LEMMA LookupAtModule ==
  ASSUME NEW p \in Programs, ModulesApart(p), StructsOutside(p), NEW t, GroundedTable(p, t),
         NEW m \in 1 .. Len(p), NEW local
  PROVE  /\ \A s : Holds(t, p[m].path, local, s) => Lookup(t, << >>, p[m].path, local) = s /\ s # Nothing
         /\ LET x == Lookup(t, << >>, p[m].path, local) IN x # Nothing => Holds(t, p[m].path, local, x)
<1> DEFINE P == p[m].path
           x == Lookup(t, << >>, P, local)
<1>1. m \in Nat /\ IsSpace(p, m, 0) /\ P \in Seq(STRING) /\ SpaceAt(p, m, 0) = P
  <2>1. Len(p[m].body) \in Nat /\ P \in Seq(STRING) /\ Len(p) \in Nat
    BY ProgramShape
  <2>2. IsSpace(p, m, 0)
    BY <2>1 DEF IsSpace
  <2> QED
    BY <2>1, <2>2, SpacesAre
<1>2. ASSUME NEW q \in Around(P), Has(t, q, local) PROVE q = P
  <2> DEFINE y == t[<<q, local>>]
  <2>1. Holds(t, q, local, y)
    BY <1>2 DEF Holds, Has
  <2> HIDE DEF y
  <2>2. 0 \in Nat
    OBVIOUS
  <2> QED
    BY <1>1, <2>1, <2>2, SeenFrom
<1>3. \/ x = Nothing /\ \A q \in Around(P) : ~Has(t, q, local)
      \/ \E q \in Around(P) : Holds(t, q, local, x)
  BY <1>1, LookupIs
<1>4. P \in Around(P)
  BY <1>1, AroundItself
<1>5. \A s : Holds(t, P, local, s) => s # Nothing
  BY KeyStored
<1> HIDE DEF x, P
<1>6. x # Nothing => Holds(t, P, local, x)
  BY <1>2, <1>3 DEF Holds, Has
<1>7. ASSUME NEW s, Holds(t, P, local, s) PROVE x = s /\ s # Nothing
  <2>1. Has(t, P, local) /\ t[<<P, local>>] = s
    BY <1>7 DEF Holds, Has
  <2>2. Holds(t, P, local, x)
    BY <1>2, <1>3, <1>4, <2>1 DEF Holds, Has
  <2>3. x = s
    BY <1>7, <2>2 DEF Holds
  <2> QED
    BY <1>5, <1>7, <2>3
<1> QED
  BY <1>6, <1>7 DEF x, P

-----------------------------------------------------------------------------
(* What a path is found to be, from a module and from inside of one *)

(* What resolve_qualified finds of a path from a module: the symbol in the *)
(* namespace the path leads to from around, a variant behind its           *)
(* enumeration, or a method behind its struct.                             *)
FoundAt(t, space, path, s) ==
  \/ \E q \in Around(space) : Holds(t, q \o Front(path), <<Last(path)>>, s)
  \/ /\ Len(path) # 1 /\ Holds(t, space, <<Last(path)>>, s)
     /\ \E e : Holds(t, space, <<Head(path)>>, e) /\ e.kind = "enum"
  \/ Len(path) = 2 /\ Holds(t, space, path, s)

LEMMA HoldsStays ==
  ASSUME NEW t, NEW u, Extends(t, u), NEW space, NEW local, NEW s, Holds(t, space, local, s)
  PROVE  Holds(u, space, local, s)
  BY DEF Holds, Extends

LEMMA FoundStays ==
  ASSUME NEW t, NEW u, Extends(t, u), NEW space, NEW path, NEW s, FoundAt(t, space, path, s)
  PROVE  FoundAt(u, space, path, s)
<1>1. \A q, local, x : Holds(t, q, local, x) => Holds(u, q, local, x)
  BY HoldsStays
<1> QED
  BY <1>1 DEF FoundAt

LEMMA HoldsOne ==
  ASSUME NEW t, NEW space, NEW local, NEW s, Holds(t, space, local, s)
  PROVE  /\ Has(t, space, local)
         /\ \A x : Holds(t, space, local, x) => x = s
  BY DEF Holds, Has

LEMMA ModuleSpace ==
  ASSUME NEW p \in Programs, NEW m \in 1 .. Len(p)
  PROVE  /\ m \in Nat /\ IsSpace(p, m, 0) /\ SpaceAt(p, m, 0) = p[m].path
         /\ p[m].path \in Seq(STRING) /\ p[m].path \in Around(p[m].path)
<1>1. Len(p[m].body) \in Nat /\ p[m].path \in Seq(STRING) /\ Len(p) \in Nat
  BY ProgramShape
<1>2. IsSpace(p, m, 0)
  BY <1>1 DEF IsSpace
<1> QED
  BY <1>1, <1>2, SpacesAre, AroundItself

(* The names of types in the table are those of types of the program. *)
LEMMA TypeIs ==
  ASSUME NEW p \in Programs, NEW t, GroundedTable(p, t), NEW space, NEW name,
         NEW e, Holds(t, space, <<name>>, e), e.kind \in {"struct", "enum"}
  PROVE  \E m, i \in Nat : TypeNamed(p, m, i, name) /\ p[m].body[i].kind = e.kind
<1> DEFINE local == <<name>>
<1>1. local[1] = name
  OBVIOUS
<1>2. Holds(t, space, local, e)
  OBVIOUS
<1> HIDE DEF local
<1>3. PICK m, i \in Nat : MadeOf(p, e, local, m, i)
  BY <1>2, KeyPlace
<1>4. TypeNamed(p, m, i, local[1]) /\ p[m].body[i].kind = e.kind
  BY <1>3, MadeShape
<1> QED
  BY <1>1, <1>4

LEMMA MethodIs ==
  ASSUME NEW p \in Programs, NEW t, GroundedTable(p, t), NEW space, NEW local,
         NEW s, Holds(t, space, local, s)
  PROVE  /\ local \in Seq(STRING) /\ Len(local) \in {1, 2}
         /\ Len(local) = 2 => \E m, i \in Nat : TypeNamed(p, m, i, local[1]) /\ p[m].body[i].kind = "struct"
<1>1. PICK m, i \in Nat : MadeOf(p, s, local, m, i)
  BY KeyPlace
<1>2. local \in Seq(STRING) /\ Len(local) \in {1, 2}
  BY <1>1, MadeShape
<1>3. ASSUME Len(local) = 2 PROVE TypeNamed(p, m, i, local[1]) /\ p[m].body[i].kind = "struct"
  <2>1. MadeOf(p, s, local, m, i) /\ m \in Nat /\ i \in Nat
    BY <1>1
  <2>2. p[m].body[i].kind = "struct" /\ s.kind = "func" /\ TypeNamed(p, m, i, local[1])
    BY <1>3, <2>1, MadeMethod
  <2> QED
    BY <2>2
<1> QED
  BY <1>2, <1>3

(* A path that starts with a type leads to no namespace. *)
LEMMA TypeLeadsNowhere ==
  ASSUME NEW p \in Programs, TypesApart(p), NEW t, GroundedTable(p, t),
         NEW path \in Seq(STRING), path # <<>>, Len(path) # 1,
         NEW m \in Nat, NEW i \in Nat, TypeNamed(p, m, i, Head(path)), NEW space \in Seq(STRING)
  PROVE  Inner(t, space, path) = Nothing
<1>0. Len(path) > 1
  BY FrontIs
<1>1. \A q \in Around(space) : q \in Seq(STRING)
  BY AroundIs
<1>2. \A q \in Around(space) : \A local : ~Has(t, q \o Front(path), local)
  BY <1>0, <1>1, NoTypeInside
<1>3. \/ Inner(t, space, path) = Nothing
      \/ \E q \in Around(space) : Holds(t, q \o Front(path), <<Last(path)>>, Inner(t, space, path))
  BY InnerIs
<1> QED
  BY <1>2, <1>3, HoldsOne

LEMMA FoundIsResolved ==
  ASSUME NEW p \in Programs, NamesApart(p), NEW t, GroundedTable(p, t), NEW m \in 1 .. Len(p),
         NEW path \in Seq(STRING), path # <<>>, NEW s, FoundAt(t, p[m].path, path, s)
  PROVE  Resolve(t, << >>, p[m].path, path) = s /\ s # Nothing
<1> DEFINE P == p[m].path
           R == Resolve(t, << >>, P, path)
           I == Inner(t, P, path)
           first == <<Head(path)>>
           last == <<Last(path)>>
           L(local) == Lookup(t, << >>, P, local)
<1>1. /\ ModulesApart(p) /\ SpacesNamedApart(p) /\ TypesApart(p) /\ StructsOutside(p)
  BY DEF NamesApart
<1>2. m \in Nat /\ IsSpace(p, m, 0) /\ SpaceAt(p, m, 0) = P /\ P \in Seq(STRING) /\ P \in Around(P)
  BY ModuleSpace
<1>3. /\ Len(path) = 1 => R = L(path)
      /\ Len(path) # 1 /\ I # Nothing => R = I
      /\ Len(path) # 1 /\ I = Nothing /\ L(first).kind = "enum" => R = L(last)
      /\ Len(path) # 1 /\ I = Nothing /\ L(first).kind # "enum" => R = L(path)
  BY ResolveIs
<1>4. \A local : /\ \A x : Holds(t, P, local, x) => L(local) = x
                 /\ L(local) # Nothing => Holds(t, P, local, L(local))
  BY <1>1, LookupAtModule
<1>5. \A space, local, x : Holds(t, space, local, x) => x # Nothing
  BY KeyStored
<1>6. ASSUME NEW q \in Around(P), Holds(t, q \o Front(path), last, s) PROVE R = s /\ s # Nothing
  <2>1. CASE Len(path) = 1
    <3>1. q \o Front(path) = q /\ path = last
      <4>1. Front(path) = <<>> /\ path = last
        BY <2>1, PathSplit
      <4>2. q \in Seq(STRING)
        BY <1>2, AroundIs
      <4> QED
        BY <4>1, <4>2, ConcatEmptySeq
    <3>2. Holds(t, q, path, s)
      BY <1>6, <3>1
    <3>3. q \in Around(SpaceAt(p, m, 0)) /\ 0 \in Nat
      BY <1>2
    <3>4. q = P
      BY <1>1, <1>2, <3>2, <3>3, SeenFrom
    <3> QED
      BY <1>3, <1>4, <1>5, <2>1, <3>2, <3>4
  <2>2. CASE Len(path) # 1
    <3>1. Has(t, q \o Front(path), last) /\ q \in Seq(STRING)
      BY <1>2, <1>6, HoldsOne, AroundIs
    <3>2. \E r \in Around(P) : Holds(t, r \o Front(path), last, I)
      BY <1>2, <3>1, InnerIs
    <3>3. PICK r \in Around(P) : Holds(t, r \o Front(path), last, I)
      BY <3>2
    <3>4. Has(t, r \o Front(path), last) /\ r \in Seq(STRING)
      BY <1>2, <3>3, HoldsOne, AroundIs
    <3>5. q = r
      BY <1>1, <2>2, <3>1, <3>4, OneInner
    <3>6. I = s
      BY <1>6, <3>3, <3>5, HoldsOne
    <3> QED
      BY <1>3, <1>5, <1>6, <2>2, <3>6
  <2> QED
    BY <2>1, <2>2
<1>7. ASSUME Len(path) # 1, Holds(t, P, last, s), NEW e, Holds(t, P, first, e), e.kind = "enum"
      PROVE  R = s /\ s # Nothing
  <2>1. PICK k, i \in Nat : TypeNamed(p, k, i, Head(path))
    BY <1>7, TypeIs
  <2>2. I = Nothing
    BY <1>1, <1>2, <1>7, <2>1, TypeLeadsNowhere
  <2> QED
    BY <1>3, <1>4, <1>5, <1>7, <2>2
<1>8. ASSUME Len(path) = 2, Holds(t, P, path, s) PROVE R = s /\ s # Nothing
  <2>1. PICK k, i \in Nat : TypeNamed(p, k, i, path[1]) /\ p[k].body[i].kind = "struct"
    BY <1>8, MethodIs
  <2>2. path[1] = Head(path) /\ Len(path) # 1
    BY <1>8
  <2>3. I = Nothing
    BY <1>1, <1>2, <2>1, <2>2, TypeLeadsNowhere
  <2>4. ASSUME L(first).kind = "enum" PROVE FALSE
    <3>1. L(first) # Nothing
      BY <2>4 DEF Nothing
    <3>2. PICK n, j \in Nat : TypeNamed(p, n, j, Head(path)) /\ p[n].body[j].kind = L(first).kind
      BY <1>4, <2>4, <3>1, TypeIs
    <3> QED
      BY <1>1, <2>1, <2>2, <2>4, <3>2 DEF TypesApart
  <2> QED
    BY <1>3, <1>4, <1>5, <1>8, <2>2, <2>3, <2>4
<1> HIDE DEF R, P
<1>9. \/ \E q \in Around(P) : Holds(t, q \o Front(path), last, s)
      \/ Len(path) # 1 /\ Holds(t, P, last, s) /\ \E e : Holds(t, P, first, e) /\ e.kind = "enum"
      \/ Len(path) = 2 /\ Holds(t, P, path, s)
  BY DEF FoundAt, P
<1> QED
  BY <1>6, <1>7, <1>8, <1>9 DEF R, P

LEMMA ResolvedIsFound ==
  ASSUME NEW p \in Programs, NamesApart(p), NEW t, GroundedTable(p, t), NEW m \in 1 .. Len(p),
         NEW path \in Seq(STRING), path # <<>>, NEW s, s # Nothing,
         Resolve(t, << >>, p[m].path, path) = s
  PROVE  FoundAt(t, p[m].path, path, s)
<1> DEFINE P == p[m].path
           I == Inner(t, P, path)
           first == <<Head(path)>>
           last == <<Last(path)>>
           L(local) == Lookup(t, << >>, P, local)
<1>1. ModulesApart(p) /\ StructsOutside(p)
  BY DEF NamesApart
<1>2. P \in Seq(STRING) /\ P \in Around(P)
  BY ModuleSpace
<1>3. \A local : L(local) # Nothing => Holds(t, P, local, L(local))
  BY <1>1, LookupAtModule
<1>4. CASE Len(path) = 1
  <2>1. s = L(path)
    BY <1>4, ResolveIs
  <2>2. Front(path) = <<>> /\ path = last
    BY <1>4, PathSplit
  <2>3. P \o Front(path) = P
    BY <1>2, <2>2, ConcatEmptySeq
  <2>4. Holds(t, P, path, s)
    BY <1>3, <2>1
  <2> QED
    BY <1>2, <2>2, <2>3, <2>4 DEF FoundAt
<1>5. CASE Len(path) # 1 /\ I # Nothing
  <2>1. s = I
    BY <1>5, ResolveIs
  <2>2. \E q \in Around(P) : Holds(t, q \o Front(path), last, I)
    BY <1>2, <1>5, InnerIs
  <2> QED
    BY <2>1, <2>2 DEF FoundAt
<1>6. CASE Len(path) # 1 /\ I = Nothing /\ L(first).kind = "enum"
  <2>1. s = L(last)
    BY <1>6, ResolveIs
  <2>2. L(first) # Nothing
    BY <1>6 DEF Nothing
  <2>3. Holds(t, P, last, s) /\ Holds(t, P, first, L(first))
    BY <1>3, <2>1, <2>2
  <2> QED
    BY <1>6, <2>3 DEF FoundAt
<1>7. CASE Len(path) # 1 /\ I = Nothing /\ L(first).kind # "enum"
  <2>1. s = L(path)
    BY <1>7, ResolveIs
  <2>2. Holds(t, P, path, s)
    BY <1>3, <2>1
  <2>3. Len(path) = 2
    BY <1>7, <2>2, MethodIs
  <2> QED
    BY <2>2, <2>3 DEF FoundAt
<1> QED
  BY <1>4, <1>5, <1>6, <1>7

(* What resolve_qualified finds from a namespace in a module. *)
LEMMA ResolvedFrom ==
  ASSUME NEW p \in Programs, NEW t, GroundedTable(p, t), NEW space \in Seq(STRING),
         NEW path \in Seq(STRING), path # <<>>, NEW s, s # Nothing,
         Resolve(t, << >>, space, path) = s
  PROVE  \/ \E q \in Around(space) : Holds(t, q \o Front(path), <<Last(path)>>, s)
         \/ /\ Len(path) # 1
            /\ \E q \in Around(space) : Holds(t, q, <<Last(path)>>, s)
            /\ \E q, e : Holds(t, q, <<Head(path)>>, e) /\ e.kind = "enum"
         \/ Len(path) = 2 /\ \E q \in Around(space) : Holds(t, q, path, s)
<1> DEFINE I == Inner(t, space, path)
           first == <<Head(path)>>
           last == <<Last(path)>>
           L(local) == Lookup(t, << >>, space, local)
<1>1. \A local : L(local) # Nothing => \E q \in Around(space) : Holds(t, q, local, L(local))
  BY LookupIs
<1>2. CASE Len(path) = 1
  <2>1. s = L(path)
    BY <1>2, ResolveIs
  <2>2. Front(path) = <<>> /\ path = last
    BY <1>2, PathSplit
  <2>3. PICK q \in Around(space) : Holds(t, q, path, s)
    BY <1>1, <2>1
  <2>4. q \in Seq(STRING)
    BY AroundIs
  <2>5. q \o Front(path) = q
    BY <2>2, <2>4, ConcatEmptySeq
  <2> QED
    BY <2>2, <2>3, <2>5
<1>3. CASE Len(path) # 1 /\ I # Nothing
  <2>1. s = I
    BY <1>3, ResolveIs
  <2>2. \E q \in Around(space) : Holds(t, q \o Front(path), last, I)
    BY <1>3, InnerIs
  <2> QED
    BY <2>1, <2>2
<1>4. CASE Len(path) # 1 /\ I = Nothing /\ L(first).kind = "enum"
  <2>1. s = L(last)
    BY <1>4, ResolveIs
  <2>2. L(first) # Nothing
    BY <1>4 DEF Nothing
  <2> QED
    BY <1>1, <1>4, <2>1, <2>2
<1>5. CASE Len(path) # 1 /\ I = Nothing /\ L(first).kind # "enum"
  <2>1. s = L(path)
    BY <1>5, ResolveIs
  <2>2. PICK q \in Around(space) : Holds(t, q, path, s)
    BY <1>1, <2>1
  <2>3. Len(path) = 2
    BY <1>5, <2>2, MethodIs
  <2> QED
    BY <2>2, <2>3
<1> QED
  BY <1>2, <1>3, <1>4, <1>5

LEMMA SameAhead ==
  ASSUME NEW S, NEW p \in Seq(S), NEW q \in Seq(S), NEW r \in Seq(S), NEW s \in Seq(S),
         p \o r = q \o s, Len(r) = Len(s)
  PROVE  p = q
  BY SameTail

LEMMA SameBehind ==
  ASSUME NEW S, NEW p \in Seq(S), NEW q \in Seq(S), NEW r \in Seq(S), NEW s \in Seq(S),
         p \o r = q \o s, Len(r) = Len(s)
  PROVE  r = s
  BY SameTail

LEMMA SameRest ==
  ASSUME NEW S, NEW p \in Seq(S), NEW r \in Seq(S), NEW s \in Seq(S), p \o r = p \o s
  PROVE  r = s
<1>1. Len(r) = Len(s) \/ Len(p) = Len(p)
  OBVIOUS
<1>2. p = p /\ r = s
  BY <1>1, SameTail
<1> QED
  BY <1>2

LEMMA PathJoin ==
  ASSUME NEW S, NEW q \in Seq(S), NEW p \in Seq(S), p # <<>>
  PROVE  q \o Front(p) \in Seq(S) /\ (q \o Front(p)) \o <<Last(p)>> = q \o p
<1>1. q \o p = (q \o Front(p)) \o <<Last(p)>> /\ q \o Front(p) \in Seq(S) /\ q \o p \in Seq(S)
  BY PathBehind
<1> QED
  BY <1>1

LEMMA FrontJoin ==
  ASSUME NEW S, NEW q \in Seq(S), NEW p \in Seq(S), p # <<>>,
         NEW y \in Seq(S), NEW l \in Seq(S), Len(l) = 1, q \o p = y \o l
  PROVE  q \o Front(p) = y
<1> DEFINE z == q \o Front(p)
           e == <<Last(p)>>
<1>1. z \in Seq(S) /\ z \o e = q \o p
  BY PathJoin
<1>2. e \in Seq(S) /\ Len(e) = 1
  BY PathSplit
<1> HIDE DEF z, e
<1>3. z \o e = y \o l /\ Len(e) = Len(l)
  BY <1>1, <1>2
<1> QED
  BY <1>1, <1>2, <1>3, SameAhead DEF z

LEMMA LastJoin ==
  ASSUME NEW S, NEW q \in Seq(S), NEW p \in Seq(S), p # <<>>,
         NEW y \in Seq(S), NEW l \in Seq(S), Len(l) = 1, q \o p = y \o l
  PROVE  <<Last(p)>> = l
<1> DEFINE z == q \o Front(p)
           e == <<Last(p)>>
<1>1. z \in Seq(S) /\ z \o e = q \o p
  BY PathJoin
<1>2. e \in Seq(S) /\ Len(e) = 1
  BY PathSplit
<1> HIDE DEF z, e
<1>3. z \o e = y \o l /\ Len(e) = Len(l)
  BY <1>1, <1>2
<1>4. e = l
  BY <1>1, <1>2, <1>3, SameBehind
<1> QED
  BY <1>4 DEF e

LEMMA JoinHolds ==
  ASSUME NEW S, NEW q \in Seq(S), NEW p \in Seq(S), p # <<>>,
         NEW y \in Seq(S), NEW l \in Seq(S), Len(l) = 1, q \o p = y \o l,
         NEW t, NEW s, Holds(t, y, l, s)
  PROVE  Holds(t, q \o Front(p), <<Last(p)>>, s)
<1>1. q \o Front(p) = y
  BY FrontJoin
<1>2. <<Last(p)>> = l
  BY LastJoin
<1> QED
  BY <1>1, <1>2

LEMMA OneBehind ==
  ASSUME NEW S, NEW q \in Seq(S), NEW p \in Seq(S), p # <<>>, Len(p) = 1
  PROVE  q \o Front(p) = q /\ <<Last(p)>> = p
<1>1. Front(p) = <<>> /\ p = <<Last(p)>>
  BY PathSplit
<1> QED
  BY <1>1, ConcatEmptySeq

LEMMA SameFront ==
  ASSUME NEW S, NEW p \in Seq(S), NEW q \in Seq(S), NEW r \in Seq(S), p \o r = q \o r
  PROVE  p = q
<1>1. Len(r) = Len(r) \/ Len(p) = Len(q)
  OBVIOUS
<1>2. p = q /\ r = r
  BY <1>1, SameTail
<1> QED
  BY <1>2

(* What is inside of a module comes from it. *)
LEMMA OwnInside ==
  ASSUME NEW p \in Programs, ModulesApart(p), NEW t, GroundedTable(p, t),
         NEW m \in 1 .. Len(p), NEW space, p[m].path \in Around(space), space # p[m].path,
         NEW local, NEW s, Holds(t, space, local, s)
  PROVE  s.owner = p[m].path
<1>1. PICK k, i \in Nat :
        /\ MadeOf(p, s, local, k, i) /\ IsSpace(p, k, i) /\ IsItem(p, k, i)
        /\ space = SpaceAt(p, k, i) \/ \E n \in 1 .. Len(p) : space = p[n].path
  BY KeyPlace
<1>2. space = SpaceAt(p, k, i)
  BY <1>1 DEF ModulesApart
<1>3. m = k
  BY <1>1, <1>2, OneModule
<1> QED
  BY <1>1, <1>3, MadeOwner

(* A symbol of another module that is found under the name it has there is *)
(* found from the module as well.                                          *)
LEMMA OutsideFound ==
  ASSUME NEW p \in Programs, NamesApart(p), NEW t, GroundedTable(p, t),
         NEW m \in Nat, NEW i \in Nat, IsSpace(p, m, i),
         NEW path \in Seq(STRING), path # <<>>, NEW s, s # Nothing,
         Resolve(t, << >>, SpaceAt(p, m, i), path) = s,
         s.owner # p[m].path, s.home = s.owner \o path
  PROVE  FoundAt(t, p[m].path, path, s)
<1> DEFINE P == p[m].path
           X == SpaceAt(p, m, i)
           first == <<Head(path)>>
           last == <<Last(path)>>
<1>1. /\ ModulesApart(p) /\ SpacesNamedApart(p) /\ TypesApart(p) /\ StructsOutside(p)
  BY DEF NamesApart
<1>2. m \in 1 .. Len(p) /\ P \in Seq(STRING) /\ X \in Seq(STRING) /\ P \in Around(P) /\ P \in Around(X)
  BY SpacesAre, AroundItself DEF IsSpace
<1>3. ASSUME NEW q \in Around(X), NEW local, Holds(t, q, local, s) PROVE q = P
  BY <1>1, <1>3, SeenFrom
<1>4. ASSUME NEW q \in Around(X), Holds(t, q \o Front(path), last, s) PROVE FoundAt(t, P, path, s)
  <2>1. q \in Seq(STRING)
    BY <1>2, AroundIs
  <2>2. CASE Len(path) = 1
    <3>1. q \o Front(path) = q
      BY <2>1, <2>2, PathBehind
    <3>2. q = P
      BY <1>3, <1>4, <3>1
    <3> QED
      BY <1>2, <1>4, <3>2 DEF FoundAt
  <2>3. CASE Len(path) # 1
    <3>1. CASE q \in Around(P)
      BY <1>4, <3>1 DEF FoundAt
    <3>2. CASE q \notin Around(P)
      <4> DEFINE S == STRING
                 f == Front(path)
                 y == q \o f
      <4>1. f \in Seq(S) /\ f # <<>> /\ q \in Seq(S) /\ P \in Seq(S)
        BY <1>2, <2>1, <2>3, FrontIs
      <4>2. P \in Around(q)
        BY <1>2, <3>2, AroundLine
      <4> HIDE DEF f, S
      <4>3. q \in Around(y) /\ y \in Seq(S) /\ Len(y) = Len(q) + Len(f)
        BY <4>1, AroundConcat, ConcatProperties
      <4>4. P \in Around(y)
        BY <4>2, <4>3, AroundSteps
      <4>5. y # P
        <5>1. Len(P) <= Len(q) /\ Len(P) \in Nat /\ Len(q) \in Nat /\ Len(f) \in Nat \ {0}
          BY <4>1, <4>2, AroundIs, EmptySeq
        <5> HIDE DEF y, P
        <5> QED
          BY <4>3, <5>1
      <4>6. Holds(t, y, last, s)
        BY <1>4 DEF f
      <4> HIDE DEF y
      <4> QED
        BY <1>1, <1>2, <4>4, <4>5, <4>6, OwnInside
    <3> QED
      BY <3>1, <3>2
  <2> QED
    BY <2>2, <2>3
<1>5. ASSUME Len(path) # 1, NEW q \in Around(X), Holds(t, q, last, s),
             NEW r, NEW e, Holds(t, r, first, e), e.kind = "enum"
      PROVE  FALSE
  <2>1. PICK k, j \in Nat : TypeNamed(p, k, j, Head(path))
    BY <1>5, TypeIs
  <2>2. PICK n, l \in Nat : MadeOf(p, s, last, n, l) /\ IsSpace(p, n, l)
    BY <1>5, KeyPlace
  <2>0. MadeOf(p, s, last, n, l)
    BY <2>2
  <2>3. s.owner = p[n].path /\ s.home = SpaceAt(p, n, l) \o last
    <3> HIDE DEF last
    <3> QED
      BY <2>0 DEF MadeOf
  <2> DEFINE S == STRING
             o == s.owner
             y == SpaceAt(p, n, l)
  <2>4. o \in Seq(S) /\ y \in Seq(S) /\ path \in Seq(S) /\ last \in Seq(S) /\ Len(path) > 1
    BY <1>5, <2>2, <2>3, SpacesAre, PathSplit, FrontIs
  <2>5. y \o last = o \o path
    BY <2>3
  <2>6. Head(path) \notin Range(y)
    BY <1>1, <2>1, <2>2 DEF TypesApart
  <2> HIDE DEF o, y, S
  <2>7. o \o path = (o \o Front(path)) \o last /\ o \o Front(path) \in Seq(S)
    BY <2>4, PathBehind
  <2>8. Head(path) \in Range(o \o Front(path))
    BY <2>4, HeadBehind
  <2> DEFINE z == o \o Front(path)
  <2>9. y \o last = z \o last /\ z \in Seq(S) /\ Head(path) \in Range(z)
    BY <2>5, <2>7, <2>8
  <2> HIDE DEF last, z
  <2>10. y = z
    BY <2>4, <2>9, SameFront
  <2> QED
    BY <2>6, <2>9, <2>10
<1>6. ASSUME Len(path) = 2, NEW q \in Around(X), Holds(t, q, path, s) PROVE FoundAt(t, P, path, s)
  <2>1. q = P
    BY <1>3, <1>6
  <2> QED
    BY <1>6, <2>1 DEF FoundAt
<1> HIDE DEF X, P
<1>7. \/ \E q \in Around(X) : Holds(t, q \o Front(path), last, s)
      \/ /\ Len(path) # 1
         /\ \E q \in Around(X) : Holds(t, q, last, s)
         /\ \E q, e : Holds(t, q, first, e) /\ e.kind = "enum"
      \/ Len(path) = 2 /\ \E q \in Around(X) : Holds(t, q, path, s)
  BY <1>2, ResolvedFrom DEF X
<1> QED
  BY <1>4, <1>5, <1>6, <1>7 DEF P

LEMMA AroundBoth ==
  ASSUME NEW S, NEW p \in Seq(S), NEW q \in Around(p), p \in Around(q)
  PROVE  p = q
<1>1. q \in Seq(S) /\ Len(q) <= Len(p) /\ \A i \in 1 .. Len(q) : q[i] = p[i]
  BY AroundIs
<1>2. Len(p) <= Len(q)
  BY <1>1, AroundIs
<1>3. Len(p) = Len(q)
  BY <1>1, <1>2
<1>4. \A i \in 1 .. Len(p) : p[i] = q[i]
  BY <1>1, <1>3
<1> QED
  BY <1>1, <1>3, <1>4, SeqEqual

(* x is the full name of a function or a method of module m. *)
IsOwn(p, m, x) ==
  \E i \in Nat : IsItem(p, m, i) /\ \E local \in Locals(p, m, i) : x = SpaceAt(p, m, i) \o local

(* The functions and methods of module m are in the table, as themselves.  *)
OwnHeld(p, t, m) ==
  \A i \in Nat : IsItem(p, m, i) => \A local \in Locals(p, m, i) :
    \E s : Holds(t, SpaceAt(p, m, i), local, s) /\ s.home = SpaceAt(p, m, i) \o local

LEMMA OwnPlace ==
  ASSUME NEW p \in Programs, NEW m, NEW x, IsOwn(p, m, x)
  PROVE  \E i \in Nat : \E local \in Locals(p, m, i) :
           /\ IsItem(p, m, i) /\ IsSpace(p, m, i) /\ x = SpaceAt(p, m, i) \o local
           /\ local \in Seq(STRING) /\ SpaceAt(p, m, i) \in Seq(STRING)
<1>1. PICK i \in Nat : IsItem(p, m, i) /\ \E local \in Locals(p, m, i) : x = SpaceAt(p, m, i) \o local
  BY DEF IsOwn
<1>2. PICK local \in Locals(p, m, i) : x = SpaceAt(p, m, i) \o local
  BY <1>1
<1>3. IsSpace(p, m, i)
  BY <1>1 DEF IsItem, IsSpace
<1>4. SpaceAt(p, m, i) \in Seq(STRING)
  BY <1>3, SpacesAre
<1>5. local \in Seq(STRING)
  BY <1>1, MethodLocals
<1> QED
  BY <1>1, <1>2, <1>3, <1>4, <1>5

(* The names a module gives its functions are in its namespace alone. *)
LEMMA OwnApart ==
  ASSUME NEW p \in Programs, ModulesApart(p), NEW n, NEW x, IsOwn(p, n, x),
         NEW m \in 1 .. Len(p), p[m].path \in Around(x)
  PROVE  m = n
<1> DEFINE S == STRING
<1>1. PICK i \in Nat : \E local \in Locals(p, n, i) :
           /\ IsSpace(p, n, i) /\ x = SpaceAt(p, n, i) \o local
           /\ local \in Seq(S) /\ SpaceAt(p, n, i) \in Seq(S)
  BY OwnPlace
<1>2. PICK local : local \in Seq(S) /\ x = SpaceAt(p, n, i) \o local
  BY <1>1
<1> DEFINE y == SpaceAt(p, n, i)
<1>3. y \in Seq(S) /\ local \in Seq(S) /\ x = y \o local /\ p[n].path \in Around(y) /\ n \in 1 .. Len(p)
  BY <1>1, <1>2, SpacesAre DEF IsSpace
<1> HIDE DEF S, y
<1>4. x \in Seq(S) /\ y \in Around(x)
  BY <1>3, AroundConcat
<1>5. p[n].path \in Around(x)
  BY <1>3, <1>4, AroundSteps
<1>6. p[n].path \in Around(p[m].path) \/ p[m].path \in Around(p[n].path)
  BY <1>4, <1>5, AroundLine
<1> QED
  BY <1>3, <1>6 DEF ModulesApart

LEMMA OwnHome ==
  ASSUME NEW p \in Programs, ModulesApart(p), NEW s, NEW local, NEW k \in Nat, NEW j \in Nat,
         MadeOf(p, s, local, k, j), s.kind = "func"
  PROVE  /\ IsOwn(p, k, s.home) /\ k \in 1 .. Len(p)
         /\ \A m \in 1 .. Len(p) : p[m].path \in Around(s.home) => IsOwn(p, m, s.home)
<1>1. IsItem(p, k, j) /\ s.home = SpaceAt(p, k, j) \o local /\ local \in Locals(p, k, j)
  BY DEF MadeOf
<1>2. IsOwn(p, k, s.home)
  BY <1>1 DEF IsOwn
<1>3. \A m \in 1 .. Len(p) : p[m].path \in Around(s.home) => IsOwn(p, m, s.home)
  BY <1>2, OwnApart
<1> QED
  BY <1>1, <1>2, <1>3 DEF IsItem

(* The full name of a symbol is a path read from a namespace.              *)
HomeIs(s, space, path) == s.home = space \o path

(* The function of the module whose full name is the one written, read     *)
(* from the namespace it is written in, is what analysis finds.            *)
LEMMA OwnResolved ==
  ASSUME NEW p \in Programs, NamesApart(p), NEW t, GroundedTable(p, t),
         NEW m \in Nat, OwnHeld(p, t, m), NEW i \in Nat, IsSpace(p, m, i),
         NEW X, X = SpaceAt(p, m, i), NEW path \in Seq(STRING), path # <<>>, IsOwn(p, m, X \o path),
         NEW s, Resolve(t, << >>, X, path) = s
  PROVE  HomeIs(s, X, path)
<1> DEFINE S == STRING
           P == p[m].path
           last == <<Last(path)>>
<1>1. /\ ModulesApart(p) /\ SpacesNamedApart(p) /\ TypesApart(p) /\ StructsOutside(p)
  BY DEF NamesApart
<1>2. /\ m \in 1 .. Len(p) /\ P \in Seq(S) /\ X \in Seq(S) /\ P \in Around(P) /\ P \in Around(X)
      /\ path \in Seq(S) /\ last \in Seq(S) /\ Len(last) = 1 /\ X \in Around(X)
  BY SpacesAre, AroundItself, PathSplit DEF IsSpace
<1>3. PICK j \in Nat : \E local \in Locals(p, m, j) :
           /\ IsItem(p, m, j) /\ X \o path = SpaceAt(p, m, j) \o local
           /\ local \in Seq(S) /\ SpaceAt(p, m, j) \in Seq(S)
  BY OwnPlace
<1>4. PICK local \in Locals(p, m, j) : local \in Seq(S) /\ X \o path = SpaceAt(p, m, j) \o local
  BY <1>3
<1> DEFINE Y == SpaceAt(p, m, j)
<1>5. Y \in Seq(S) /\ X \o path = Y \o local
  BY <1>3, <1>4
<1>6. PICK s0 : Holds(t, Y, local, s0) /\ s0.home = Y \o local
  BY <1>3 DEF OwnHeld
<1>7. \/ Len(local) = 1
      \/ Len(local) = 2 /\ p[m].body[j].kind = "struct" /\ TypeNamed(p, m, j, local[1])
  BY <1>3, MethodLocals
<1>8. s0 # Nothing
  BY <1>6, KeyStored
<1> SUFFICES s = s0
  BY <1>5, <1>6, <1>8 DEF HomeIs
<1>9. CASE Len(local) = 1
  <2>2. Holds(t, X \o Front(path), last, s0)
    <3> HIDE DEF Y, S
    <3>0. /\ X \in Seq(S) /\ path \in Seq(S) /\ path # <<>> /\ Y \in Seq(S) /\ local \in Seq(S)
          /\ Len(local) = 1 /\ X \o path = Y \o local /\ Holds(t, Y, local, s0)
      BY <1>2, <1>4, <1>5, <1>6, <1>9
    <3> QED
      BY <3>0, JoinHolds
  <2>3. Has(t, X \o Front(path), last)
    BY <2>2, HoldsOne
  <2>4. CASE Len(path) = 1
    <3>1. X \o Front(path) = X /\ path = last
      <4> HIDE DEF S
      <4> QED
        BY <1>2, <2>4, OneBehind
    <3>2. Has(t, X, path) /\ Holds(t, X, path, s0)
      BY <2>2, <2>3, <3>1
    <3>3. s = Lookup(t, << >>, X, path)
      BY <2>4, ResolveIs
    <3>4. PICK q \in Around(X) : Holds(t, q, path, s) /\ X \in Around(q)
      BY <1>2, <3>2, <3>3, LookupIs
    <3>5. q = X
      BY <1>2, <3>4, AroundBoth
    <3> QED
      BY <3>2, <3>4, <3>5, HoldsOne
  <2>5. CASE Len(path) # 1
    <3> DEFINE I == Inner(t, X, path)
    <3>1. PICK r \in Around(X) : Holds(t, r \o Front(path), last, I)
      BY <1>2, <2>3, InnerIs
    <3>2. Has(t, r \o Front(path), last) /\ r \in Seq(STRING)
      BY <1>2, <3>1, HoldsOne, AroundIs
    <3>3. X = r
      BY <1>1, <1>2, <2>3, <2>5, <3>2, OneInner
    <3>4. I = s0
      BY <2>2, <3>1, <3>3, HoldsOne
    <3> QED
      BY <1>8, <2>5, <3>4, ResolveIs
  <2> QED
    BY <2>4, <2>5
<1>10. CASE Len(local) = 2 /\ p[m].body[j].kind = "struct" /\ TypeNamed(p, m, j, local[1])
  <2>1. Y = P
    BY <1>1, <1>3, <1>10 DEF StructsOutside
  <2>2. CASE X = P
    <3>1. path = local
      <4> HIDE DEF Y, P, S
      <4>1. X \o path = X \o local
        BY <1>5, <2>1, <2>2
      <4> QED
        BY <1>2, <1>4, <4>1, SameRest
    <3>2. FoundAt(t, P, path, s0)
      BY <1>6, <1>10, <2>1, <3>1 DEF FoundAt
    <3> QED
      BY <1>2, <2>2, <3>2, FoundIsResolved
  <2>3. CASE X # P
    <3> HIDE DEF Y, P, S
    <3>1. Len(P) < Len(X)
      <4>1. Len(P) <= Len(X) /\ Len(P) \in Nat /\ Len(X) \in Nat
        BY <1>2, AroundIs
      <4>2. Len(P) # Len(X)
        BY <1>2, <2>3, AroundLine
      <4> QED
        BY <4>1, <4>2
    <3>0. Len(P) \in Nat /\ Len(X) \in Nat /\ Len(path) \in Nat /\ Len(local) = 2
      BY <1>2, <1>4, <1>10
    <3>2. /\ \A n \in 1 .. Len(X) + Len(path) :
               (X \o path)[n] = IF n <= Len(X) THEN X[n] ELSE path[n - Len(X)]
          /\ \A n \in 1 .. Len(P) + Len(local) :
               (P \o local)[n] = IF n <= Len(P) THEN P[n] ELSE local[n - Len(P)]
      <4>1. X \in Seq(S) /\ P \in Seq(S) /\ path \in Seq(S) /\ local \in Seq(S)
        BY <1>2, <1>4 DEF S
      <4> QED
        BY ONLY <4>1, ConcatProperties
    <3>3. X \o path = P \o local
      BY <1>5, <2>1
    <3>4. 1 \in 1 .. Len(local) /\ Len(P) + 1 \in 1 .. Len(X)
      BY <1>2, <1>10, <3>1
    <3>5. X[Len(P) + 1] = local[1]
      <4> DEFINE n == Len(P) + 1
      <4>1. (X \o path)[n] = X[n]
        BY <3>0, <3>2, <3>4
      <4>2. (P \o local)[n] = local[1]
        <5>1. n \in 1 .. Len(P) + Len(local) /\ ~(n <= Len(P)) /\ n - Len(P) = 1
          BY <3>0
        <5> HIDE DEF n
        <5>2. (P \o local)[n] = local[n - Len(P)]
          BY <3>2, <5>1
        <5> QED
          BY <5>1, <5>2
      <4> QED
        BY <3>3, <4>1, <4>2
    <3>6. local[1] \in Range(X)
      BY <1>2, <3>4, <3>5 DEF Range
    <3>7. local[1] \notin Range(X)
      BY <1>1, <1>10 DEF TypesApart
    <3> QED
      BY <3>6, <3>7
  <2> QED
    BY <2>2, <2>3
<1> QED
  BY <1>7, <1>9, <1>10

(* Names a call is plain by: the full name, or what leads to it from the   *)
(* namespace, the module or the owner.                                     *)
PlainName(p, m, i, path, s) ==
  \/ s.home = path \/ HomeIs(s, SpaceAt(p, m, i), path)
  \/ HomeIs(s, p[m].path, path) \/ HomeIs(s, s.owner, path)

(* What is known of a symbol that analysis finds for a plain name: code    *)
(* generation, which looks from the module, comes to the same.             *)
Leads(p, t, m, i, path, s) ==
  LET X == SpaceAt(p, m, i)
      P == p[m].path
  IN  /\ IsOwn(p, m, X \o path) => HomeIs(s, X, path)
      /\ (s.kind = "func" /\ PlainName(p, m, i, path, s)
            /\ IsOwn(p, m, P \o path) /\ ~IsOwn(p, m, X \o path)) => s.home = path \/ HomeIs(s, P, path)
      /\ (s.owner # P /\ HomeIs(s, s.owner, path)) => FoundAt(t, P, path, s)
      /\ X = P => FoundAt(t, P, path, s)

LEMMA LeadsStays ==
  ASSUME NEW p, NEW t, NEW u, Extends(t, u), NEW m, NEW i, NEW path, NEW s, Leads(p, t, m, i, path, s)
  PROVE  Leads(p, u, m, i, path, s)
<1>1. \A space : FoundAt(t, space, path, s) => FoundAt(u, space, path, s)
  BY FoundStays
<1> QED
  BY <1>1 DEF Leads

LEMMA FoundPlain ==
  ASSUME NEW p \in Programs, NamesApart(p), NEW t, GroundedTable(p, t),
         NEW m \in 1 .. Len(p), NEW x, x = p[m].path,
         NEW path \in Seq(STRING), path # <<>>, NEW s, FoundAt(t, x, path, s)
  PROVE  Resolve(t, << >>, x, path) = s
  BY FoundIsResolved

LEMMA ResolvedMade ==
  ASSUME NEW p \in Programs, NEW t, GroundedTable(p, t), NEW space \in Seq(STRING),
         NEW path \in Seq(STRING), path # <<>>, NEW s, s # Nothing, Resolve(t, << >>, space, path) = s
  PROVE  \E n, j \in Nat : \E local : MadeOf(p, s, local, n, j)
<1>1. \E q, local : Holds(t, q, local, s)
  BY ResolvedFrom
<1>2. PICK q, local : Holds(t, q, local, s)
  BY <1>1
<1> QED
  BY <1>2, KeyPlace

LEMMA ResolvedLeads ==
  ASSUME NEW p \in Programs, NamesApart(p), NEW t, GroundedTable(p, t),
         NEW m \in Nat, OwnHeld(p, t, m), NEW i \in Nat, IsSpace(p, m, i),
         NEW path \in Seq(STRING), path # <<>>, NEW s, s # Nothing,
         Resolve(t, << >>, SpaceAt(p, m, i), path) = s
  PROVE  Leads(p, t, m, i, path, s)
<1> DEFINE X == SpaceAt(p, m, i)
           P == p[m].path
<1>1. /\ m \in 1 .. Len(p) /\ IsSpace(p, m, 0) /\ SpaceAt(p, m, 0) = P /\ 0 \in Nat
      /\ X \in Seq(STRING) /\ P \in Around(X) /\ P \in Seq(STRING)
  BY SpacesAre DEF IsSpace
<1>2. IsOwn(p, m, X \o path) => HomeIs(s, X, path)
  BY OwnResolved
<1>3. s.owner # P /\ HomeIs(s, s.owner, path) => FoundAt(t, P, path, s)
  BY OutsideFound DEF HomeIs
<1>4. X = P => FoundAt(t, P, path, s)
  BY <1>1, ResolvedIsFound
<1>5. ASSUME s.kind = "func", PlainName(p, m, i, path, s), IsOwn(p, m, P \o path), ~IsOwn(p, m, X \o path)
      PROVE  s.home = path \/ HomeIs(s, P, path)
  <2>1. s.home = path \/ HomeIs(s, X, path) \/ HomeIs(s, P, path) \/ HomeIs(s, s.owner, path)
    BY <1>5 DEF PlainName
  <2>2. ASSUME HomeIs(s, X, path) PROVE FALSE
    <3>1. PICK n, j \in Nat : \E local : MadeOf(p, s, local, n, j)
      BY <1>1, ResolvedMade
    <3>2. \A k \in 1 .. Len(p) : p[k].path \in Around(s.home) => IsOwn(p, k, s.home)
      BY <1>5, <3>1, OwnHome DEF NamesApart
    <3> DEFINE S == STRING
               x == X \o path
    <3>3. X \in Seq(S) /\ path \in Seq(S)
      BY <1>1
    <3> HIDE DEF X, S
    <3>4. X \in Around(x) /\ x \in Seq(S)
      BY <3>3, AroundConcat
    <3>5. P \in Around(x)
      BY <1>1, <3>4, AroundSteps
    <3>6. s.home = x
      BY <2>2 DEF HomeIs
    <3> QED
      BY <1>1, <1>5, <3>2, <3>5, <3>6
  <2>3. ASSUME HomeIs(s, s.owner, path), s.owner # P PROVE HomeIs(s, P, path)
    <3>1. FoundAt(t, P, path, s)
      BY <1>3, <2>3
    <3>2. Resolve(t, << >>, P, path) = s
      BY <1>1, <3>1, FoundPlain
    <3>3. IsSpace(p, m, 0) /\ P = SpaceAt(p, m, 0) /\ IsOwn(p, m, P \o path) /\ 0 \in Nat
      BY <1>1, <1>5
    <3> HIDE DEF P, X
    <3> QED
      BY <3>2, <3>3, OwnResolved
  <2> QED
    BY <2>1, <2>2, <2>3
<1> QED
  BY <1>2, <1>3, <1>4, <1>5 DEF Leads

LEMMA PrefixedName ==
  ASSUME NEW S, NEW a \in Seq(S), Len(a) = 1, NEW path \in Seq(S)
  PROVE  Len(a \o path) = 1 + Len(path) /\ (a \o path)[1] = a[1]
<1>1. /\ Len(a \o path) = Len(a) + Len(path)
      /\ \A i \in 1 .. Len(a) : (a \o path)[i] = a[i]
  BY ConcatProperties
<1>2. 1 \in 1 .. Len(a)
  OBVIOUS
<1> QED
  BY <1>1, <1>2

LEMMA PrefixedSpace ==
  ASSUME NEW S, NEW y \in Seq(S), NEW a \in Seq(S), Len(a) = 1
  PROVE  y \o a \in Seq(S) /\ a[1] \in Range(y \o a) /\ Len(y \o a) = Len(y) + 1
<1>1. y \o a \in Seq(S) /\ Len(y \o a) = Len(y) + Len(a)
  BY ConcatProperties
<1>2. Range(y \o a) = Range(y) \cup Range(a)
  BY ConcatRange
<1>3. a[1] \in Range(a)
  <2>1. 1 \in DOMAIN a
    OBVIOUS
  <2> QED
    BY <2>1 DEF Range
<1> QED
  BY <1>1, <1>2, <1>3

LEMMA LongerThan ==
  ASSUME NEW S, NEW z \in Seq(S), NEW path \in Seq(S), z # <<>>
  PROVE  z \o path # path
<1> SUFFICES ASSUME z \o path = path PROVE FALSE
  OBVIOUS
<1>1. Len(z \o path) = Len(z) + Len(path)
  BY ConcatProperties
<1>2. Len(z) \in Nat \ {0} /\ Len(path) \in Nat
  BY EmptySeq
<1> QED
  BY <1>1, <1>2

(* A method is no plain name for a bare call of it. *)
LEMMA NoPlainMethod ==
  ASSUME NEW p \in Programs, TypesApart(p), NEW t, GroundedTable(p, t), NEW q,
         NEW path \in Seq(STRING), path # <<>>, NEW a \in Seq(STRING), Len(a) = 1,
         NEW s, Holds(t, q, a \o path, s), NEW m \in Nat, NEW i \in Nat, IsSpace(p, m, i)
  PROVE  ~PlainName(p, m, i, path, s)
<1> DEFINE S == STRING
           local == a \o path
<1>1. local \in Seq(STRING) /\ Len(local) \in {1, 2}
  BY MethodIs
<1>2. a \in Seq(S) /\ path \in Seq(S) /\ Holds(t, q, local, s)
  OBVIOUS
<1>3. Len(path) \in Nat \ {0}
  BY FrontIs
<1> HIDE DEF S
<1>4. Len(local) = 1 + Len(path) /\ local[1] = a[1]
  BY <1>2, PrefixedName
<1> HIDE DEF local
<1>5. Len(local) = 2
  BY <1>1, <1>3, <1>4
<1>6. PICK l, e \in Nat : TypeNamed(p, l, e, a[1])
  <2>1. \E n, j \in Nat : TypeNamed(p, n, j, local[1]) /\ p[n].body[j].kind = "struct"
    BY <1>2, <1>5, MethodIs
  <2> QED
    BY <1>4, <2>1
<1>7. PICK k, o \in Nat : MadeOf(p, s, local, k, o) /\ IsSpace(p, k, o)
  BY <1>2, KeyPlace
<1> DEFINE y == SpaceAt(p, k, o)
           z == y \o a
<1>8. s.home = y \o local /\ s.owner = p[k].path
  BY <1>7 DEF MadeOf
<1>9. y \in Seq(S) /\ IsSpace(p, k, 0) /\ SpaceAt(p, k, 0) = p[k].path
  BY <1>7, SpacesAre DEF S
<1> HIDE DEF y
<1>10. z \in Seq(S) /\ a[1] \in Range(z) /\ Len(z) = Len(y) + 1
  BY <1>2, <1>9, PrefixedSpace
<1>11. s.home = z \o path
  <2>1. a \in Seq(S) /\ path \in Seq(S) /\ y \in Seq(S)
    BY <1>2, <1>9
  <2>2. (y \o a) \o path = y \o (a \o path)
    BY <2>1, PathsAssociate
  <2> QED
    BY <1>8, <2>2 DEF local
<1> HIDE DEF z
<1>12. s.home # path
  <2>1. z # <<>>
    BY <1>9, <1>10, EmptySeq
  <2> QED
    BY <1>2, <1>10, <1>11, <2>1, LongerThan
<1>13. ASSUME NEW n \in Nat, NEW j \in Nat, IsSpace(p, n, j) PROVE ~HomeIs(s, SpaceAt(p, n, j), path)
  <2> DEFINE w == SpaceAt(p, n, j)
  <2>1. a[1] \notin Range(w)
    BY <1>6, <1>13 DEF TypesApart
  <2>2. w \in Seq(S)
    BY <1>13, SpacesAre DEF S
  <2> HIDE DEF w
  <2>3. w \o path = z \o path => w = z
    BY <1>2, <1>10, <2>2, SameFront
  <2>4. s.home # w \o path
    BY <1>10, <1>11, <2>1, <2>3
  <2> QED
    BY <2>4 DEF w, HomeIs
<1>14. /\ IsSpace(p, k, 0) /\ SpaceAt(p, k, 0) = s.owner /\ 0 \in Nat
       /\ IsSpace(p, m, 0) /\ SpaceAt(p, m, 0) = p[m].path
  BY <1>8, <1>9, SpacesAre
<1>15. ~HomeIs(s, SpaceAt(p, k, 0), path) /\ ~HomeIs(s, SpaceAt(p, m, 0), path)
  BY <1>13, <1>14
<1> QED
  BY <1>12, <1>13, <1>14, <1>15 DEF PlainName

-----------------------------------------------------------------------------
(* What analysis binds, and what the code generator registers *)

LEMMA EmptyScope == ASSUME NEW f, f.imports = <<>> PROVE Scope(f) = << >>
<1> DEFINE added(i) == Imported(f.imports[i])
           Copying(s) == s = [i \in 0 .. Len(f.imports) |-> IF i = 0 THEN << >> ELSE Extend(s[i - 1], added(i))]
           scope == CHOOSE s : Copying(s)
<1>1. Scope(f) = scope[Len(f.imports)]
  BY DEF Scope
<1>2. Len(f.imports) = 0
  OBVIOUS
<1> HIDE DEF added
<1>3. Copying([i \in 0 .. Len(f.imports) |-> << >>])
  BY <1>2
<1>4. Copying(scope)
  BY <1>3
<1> HIDE DEF scope
<1> QED
  BY <1>1, <1>2, <1>4

(* What lookup answers is in a scope or is in the table. *)
LEMMA ScopeAnswers ==
  ASSUME NEW open, IsList(open), NEW p, NEW local
  PROVE  LET x == Lookup(symbols, open, p, local)
         IN  x = Lookup(symbols, << >>, p, local) \/ In(open, local, x)
<1> DEFINE found == {n \in DOMAIN open : local \in DOMAIN open[n]}
           x == Lookup(symbols, open, p, local)
           y == Lookup(symbols, << >>, p, local)
<1>1. x = IF found # {} THEN open[Max(found)][local] ELSE y
  <2>1. {n \in DOMAIN << >> : local \in DOMAIN (<< >>[n])} = {}
    OBVIOUS
  <2> QED
    BY <2>1 DEF Lookup, Climb
<1>2. found # {} => Max(found) \in found
  <2>1. found \in SUBSET (0 .. Len(open)) /\ Len(open) \in Nat
    BY ListItems
  <2> HIDE DEF found
  <2> QED
    BY <2>1, MostOf
<1>3. found # {} => In(open, local, open[Max(found)][local])
  BY <1>2 DEF In
<1> HIDE DEF found, y
<1> QED
  BY <1>1, <1>3 DEF y

(* The scopes a function without imports of its own is looked at in. *)
LEMMA OpenScopes ==
  ASSUME IsList(scopes), GlobalsIn(scopes), NEW f, f.imports = <<>>
  PROVE  LET open == Append(scopes, Scope(f))
         IN  /\ IsList(open) /\ GlobalsIn(open)
             /\ scopes = <<>> => \A local, x : ~In(open, local, x)
<1> DEFINE open == Append(scopes, << >>)
<1>1. Scope(f) = << >>
  BY EmptyScope
<1>2. IsList(open) /\ DOMAIN scopes = 1 .. Len(scopes) /\ Len(scopes) \in Nat
  BY ListAppend, ListItems
<1>3. /\ DOMAIN open = 1 .. Len(scopes) + 1 /\ open[Len(scopes) + 1] = << >>
      /\ \A n \in 1 .. Len(scopes) : open[n] = scopes[n]
  BY AppendItems
<1> HIDE DEF open
<1>4. ASSUME NEW local, NEW x, In(open, local, x) PROVE In(scopes, local, x)
  <2>1. PICK n \in DOMAIN open : local \in DOMAIN open[n] /\ x = open[n][local]
    BY <1>4 DEF In
  <2>2. n # Len(scopes) + 1
    BY <1>3, <2>1
  <2>3. n \in 1 .. Len(scopes)
    BY <1>2, <1>3, <2>2
  <2> QED
    BY <1>2, <1>3, <2>1, <2>3 DEF In
<1>5. GlobalsIn(open)
  BY <1>4 DEF GlobalsIn
<1>6. scopes = <<>> => \A local, x : ~In(scopes, local, x)
  BY DEF In
<1> QED
  BY <1>1, <1>2, <1>4, <1>5, <1>6 DEF open

(* What analysis finds is what is found without the scopes of namespaces,  *)
(* a global in one of them, or the method of a struct that a global there  *)
(* has the name of.                                                        *)
LEMMA TargetIs ==
  ASSUME IsList(scopes), GlobalsIn(scopes), NEW f, f.imports = <<>>, NEW use, Len(use.path) \in Nat
  PROVE  LET x == Target(f, use)
             Outside(local) == Lookup(symbols, << >>, current, local)
         IN  \/ x = Resolve(symbols, << >>, current, use.path)
             \/ use.call /\ f.struct # "" /\ (x = Outside(<<f.struct>> \o use.path) \/ x.kind \in {"global", "const"})
             \/ scopes # <<>> /\ x.kind \in {"global", "const"}
             \/ /\ scopes # <<>> /\ Len(use.path) # 1 /\ x = Outside(use.path)
                /\ Outside(<<Head(use.path)>>).kind = "enum"
<1> DEFINE open == Append(scopes, Scope(f))
           path == use.path
           Here_(local) == Lookup(symbols, open, current, local)
           Outside(local) == Lookup(symbols, << >>, current, local)
           inner == Climb(symbols, current, LAMBDA ns : <<ns \o Front(path), <<Last(path)>>>>)
           y == Resolve(symbols, open, current, path)
           z == Resolve(symbols, << >>, current, path)
<1>1. /\ IsList(open) /\ GlobalsIn(open)
      /\ scopes = <<>> => \A local, x : ~In(open, local, x)
  BY OpenScopes
<1> HIDE DEF open
<1>2. \A local : \/ Here_(local) = Outside(local)
                 \/ /\ scopes # <<>> /\ Len(local) = 1
                    /\ Here_(local).kind \in {"global", "const"}
  BY <1>1, ScopeAnswers DEF GlobalsIn
<1>3. y = IF Len(path) = 1 THEN Here_(path)
          ELSE IF inner # Nothing THEN inner
          ELSE IF Here_(<<Head(path)>>).kind = "enum" THEN Here_(<<Last(path)>>)
          ELSE Here_(path)
  BY DEF Resolve
<1>4. z = IF Len(path) = 1 THEN Outside(path)
          ELSE IF inner # Nothing THEN inner
          ELSE IF Outside(<<Head(path)>>).kind = "enum" THEN Outside(<<Last(path)>>)
          ELSE Outside(path)
  BY DEF Resolve
<1>5. Target(f, use) = y \/ (use.call /\ f.struct # "" /\ Target(f, use) = Here_(<<f.struct>> \o path))
  BY DEF Target, open
<1> HIDE DEF Here_, Outside, inner, y, z, path
<1>6. \/ y = z
      \/ scopes # <<>> /\ y.kind \in {"global", "const"}
      \/ scopes # <<>> /\ Len(path) # 1 /\ y = Outside(path) /\ Outside(<<Head(path)>>).kind = "enum"
  <2> DEFINE first == <<Head(path)>>
             last == <<Last(path)>>
             Scoped(local) == scopes # <<>> /\ Len(local) = 1 /\ Here_(local).kind \in {"global", "const"}
  <2>0. /\ Here_(path) = Outside(path) \/ Scoped(path)
        /\ Here_(first) = Outside(first) \/ Scoped(first)
        /\ Here_(last) = Outside(last) \/ Scoped(last)
    BY <1>2
  <2>1. CASE Len(path) = 1 \/ inner # Nothing
    BY <1>3, <1>4, <2>0, <2>1
  <2>2. CASE Len(path) # 1 /\ inner = Nothing /\ Here_(first).kind = "enum"
    <3>1. y = Here_(last)
      BY <1>3, <2>2
    <3>2. Outside(first).kind = "enum"
      BY <2>0, <2>2
    <3>3. z = Outside(last)
      BY <1>4, <2>2, <3>2
    <3> QED
      BY <2>0, <3>1, <3>3
  <2>3. CASE Len(path) # 1 /\ inner = Nothing /\ Here_(first).kind # "enum"
    <3>1. y = Outside(path)
      BY <1>3, <2>0, <2>3
    <3>2. CASE Outside(first).kind = "enum"
      BY <2>0, <2>3, <3>1, <3>2
    <3>3. CASE Outside(first).kind # "enum"
      <4>1. z = Outside(path)
        BY <1>4, <2>3, <3>3
      <4> QED
        BY <3>1, <4>1
    <3> QED
      BY <3>2, <3>3
  <2> QED
    BY <2>1, <2>2, <2>3
<1>7. Target(f, use) = y \/ (use.call /\ f.struct # "" /\ (Target(f, use) = Outside(<<f.struct>> \o path)
                                                            \/ Target(f, use).kind \in {"global", "const"}))
  BY <1>2, <1>5
<1> QED
  BY <1>6, <1>7 DEF Outside, y, z, path

(* The use is in the text at item i of module m, and what analysis found   *)
(* for it is what code generation will find, if it is called by a plain    *)
(* name.                                                                   *)
BoundAt(p, t, b) ==
  LET use == b.site.use
      s == b.symbol
  IN  /\ use.path \in Seq(STRING) /\ use.path # <<>> /\ Fits(use, s)
      /\ \E n, j \in Nat : \E local : MadeOf(p, s, local, n, j) /\ Holds(t, SpaceAt(p, n, j), local, s)
      /\ \E m, i \in Nat :
           /\ IsItem(p, m, i) /\ b.site.module = p[m].path /\ b.site.space = SpaceAt(p, m, i)
           /\ b.site.struct # "" => SpaceAt(p, m, i) = p[m].path
           /\ (use.call => PlainName(p, m, i, use.path, s)) => Leads(p, t, m, i, use.path, s)

LEMMA BoundStays ==
  ASSUME NEW p, NEW t, NEW u, Extends(t, u), NEW b, BoundAt(p, t, b)
  PROVE  BoundAt(p, u, b)
<1>1. \A m, i, path, s : Leads(p, t, m, i, path, s) => Leads(p, u, m, i, path, s)
  BY LeadsStays
<1>2. \A space, local, s : Holds(t, space, local, s) => Holds(u, space, local, s)
  BY HoldsStays
<1> QED
  BY <1>1, <1>2 DEF BoundAt

LEMMA BodyShape ==
  ASSUME NEW p \in Programs, NEW m, NEW i, IsItem(p, m, i), NEW f \in Bodies(p[m].body[i])
  PROVE  /\ IsBody(f)
         /\ f.struct # "" => p[m].body[i].kind = "struct" /\ f.struct \in STRING
<1> DEFINE d == p[m].body[i]
<1>1. IsDeclaration(d)
  BY ItemShape
<1>2. f \in Bodies(d)
  OBVIOUS
<1> HIDE DEF d
<1>3. CASE d.kind = "func"
  <2>1. f = d
    BY <1>2, <1>3 DEF Bodies
  <2>2. IsBody(d) /\ d.struct = ""
    BY <1>1, <1>3 DEF IsDeclaration
  <2>3. f.struct = "" /\ IsBody(f)
    BY <2>1, <2>2
  <2> QED
    BY <2>3
<1>4. CASE d.kind = "struct"
  <2>1. f \in Range(d.methods) /\ d.name \in STRING
    BY <1>1, <1>2, <1>4 DEF IsDeclaration, Bodies
  <2>2. IsBody(f) /\ f.struct = d.name
    BY <1>1, <1>4, <2>1 DEF IsDeclaration
  <2> QED
    BY <1>4, <2>1, <2>2 DEF d
<1> QED
  BY <1>2, <1>3, <1>4 DEF Bodies

LEMMA OwnHeldHere ==
  ASSUME NEW m \in Nat, Held(m + 1, 1)
  PROVE  OwnHeld(program, symbols, m)
<1> SUFFICES ASSUME NEW i \in Nat, IsItem(program, m, i), NEW local \in Locals(program, m, i)
             PROVE  \E s : Holds(symbols, SpaceAt(program, m, i), local, s) /\ s.home = SpaceAt(program, m, i) \o local
  BY DEF OwnHeld
<1>1. Before(m, i, m + 1, 1)
  BY DEF Before, IsItem
<1> DEFINE key == <<SpaceAt(program, m, i), local>>
<1>2. key \in DOMAIN symbols /\ symbols[key].home = SpaceAt(program, m, i) \o local
  BY <1>1 DEF Held
<1> QED
  BY <1>2 DEF Holds

(* A method's struct has no enumeration's name. *)
LEMMA NoMethodOfEnum ==
  ASSUME NEW p \in Programs, TypesApart(p), NEW t, GroundedTable(p, t), NEW space \in Seq(STRING),
         NEW path \in Seq(STRING), path # <<>>, Len(path) # 1,
         Lookup(t, << >>, space, path) # Nothing
  PROVE  Lookup(t, << >>, space, <<Head(path)>>).kind # "enum"
<1> DEFINE first == <<Head(path)>>
           x == Lookup(t, << >>, space, path)
           e == Lookup(t, << >>, space, first)
<1>1. PICK q : Holds(t, q, path, x)
  BY LookupIs
<1>2. Len(path) = 2
  BY <1>1, MethodIs
<1>3. PICK m, i \in Nat : TypeNamed(p, m, i, path[1]) /\ p[m].body[i].kind = "struct"
  BY <1>1, <1>2, MethodIs
<1> SUFFICES ASSUME e.kind = "enum" PROVE FALSE
  OBVIOUS
<1> HIDE DEF x
<1>4. e # Nothing
  <2> HIDE DEF e
  <2> QED
    BY DEF Nothing
<1>5. PICK r : Holds(t, r, first, e)
  BY <1>4, LookupIs
<1> HIDE DEF e
<1>6. PICK n, j \in Nat : TypeNamed(p, n, j, Head(path)) /\ p[n].body[j].kind = "enum"
  BY <1>5, TypeIs
<1>7. Head(path) = path[1]
  OBVIOUS
<1> QED
  BY <1>3, <1>6, <1>7 DEF TypesApart

(* What analysis finds for a use in a body without imports of its own, if  *)
(* it is a call or outside of the namespaces in the module.                *)
LEMMA UseBound ==
  ASSUME NamesInvariant, Plainly, GroundedTable(program, symbols), phase = "analyze", Held(module + 1, 1),
         GlobalsIn(scopes), Item.kind \in {"func", "struct"}, NEW f \in Bodies(Item), f.imports = <<>>,
         NEW u \in DOMAIN f.uses, Wrong(f, f.uses[u]) = {}, f.uses[u].call \/ current = Here.path
  PROVE  BoundAt(program, symbols, [site |-> Site(current, f, u), symbol |-> Target(f, f.uses[u])])
<1> DEFINE use == f.uses[u]
           path == use.path
           s == Target(f, use)
           b == [site |-> Site(current, f, u), symbol |-> s]
<1>1. /\ current = SpaceAt(program, module, at) /\ IsItem(program, module, at)
      /\ module \in Nat /\ at \in Nat /\ Here = program[module] /\ Item = program[module].body[at]
      /\ program \in Programs /\ current \in Seq(STRING)
  BY ItemHere
<1>2. /\ NamesApart(program) /\ TypesApart(program) /\ StructsOutside(program)
      /\ IsSpace(program, module, at) /\ OwnHeld(program, symbols, module)
  BY <1>1, OwnHeldHere DEF Plainly, NamesApart, IsItem, IsSpace
<1>3. IsBody(f) /\ (f.struct # "" => Item.kind = "struct" /\ f.struct \in STRING)
  BY <1>1, BodyShape
<1>4. path \in Seq(STRING) /\ path # <<>>
  BY <1>3 DEF IsBody
<1>5. s # Nothing /\ Fits(use, s)
  BY NoWrongUse
<1>6. /\ b.site.use = use /\ b.site.module = program[module].path /\ b.site.space = current
      /\ b.site.struct = f.struct /\ b.symbol = s /\ use.path = path
  BY <1>1 DEF Site
<1>7. f.struct # "" => current = program[module].path
  BY <1>1, <1>2, <1>3 DEF StructsOutside
<1>8. \/ s = Resolve(symbols, << >>, current, path)
      \/ use.call /\ f.struct # "" /\ s = Lookup(symbols, << >>, current, <<f.struct>> \o path)
  <2> DEFINE method == <<f.struct>> \o path
             x == Lookup(symbols, << >>, current, path)
             e == Lookup(symbols, << >>, current, <<Head(path)>>)
             y == Resolve(symbols, << >>, current, path)
             z == Lookup(symbols, << >>, current, method)
  <2>1. IsList(scopes) /\ Len(use.path) \in Nat
    BY <1>4 DEF NamesInvariant, ScopesFollow
  <2>2. \/ s = y
        \/ use.call /\ f.struct # "" /\ (s = z \/ s.kind \in {"global", "const"})
        \/ scopes # <<>> /\ s.kind \in {"global", "const"}
        \/ scopes # <<>> /\ Len(path) # 1 /\ s = x /\ e.kind = "enum"
    BY <2>1, TargetIs
  <2>3. scopes # <<>> => use.call
    BY <1>1, OutsideScopes
  <2>4. ~(Len(path) # 1 /\ s = x /\ e.kind = "enum")
    BY <1>1, <1>2, <1>4, <1>5, NoMethodOfEnum
  <2> HIDE DEF s, x, e, y, z, path, use
  <2>5. use.call => s.kind = "func"
    BY <1>5 DEF Fits
  <2> QED
    BY <2>2, <2>3, <2>4, <2>5 DEF y, z
<1> HIDE DEF s, path, b, use
<1>9. /\ \E q, local : Holds(symbols, q, local, s)
      /\ (use.call => PlainName(program, module, at, path, s)) => Leads(program, symbols, module, at, path, s)
  <2>1. CASE s = Resolve(symbols, << >>, current, path)
    <3>1. Leads(program, symbols, module, at, path, s)
      BY <1>1, <1>2, <1>4, <1>5, <2>1, ResolvedLeads
    <3>2. \E q, local : Holds(symbols, q, local, s)
      BY <1>1, <1>4, <1>5, <2>1, ResolvedFrom
    <3> QED
      BY <3>1, <3>2
  <2>2. CASE use.call /\ f.struct # "" /\ s = Lookup(symbols, << >>, current, <<f.struct>> \o path)
    <3> DEFINE a == <<f.struct>>
    <3>1. a \in Seq(STRING) /\ Len(a) = 1
      BY <1>3, <2>2, OneName
    <3> HIDE DEF a
    <3>2. s = Lookup(symbols, << >>, current, a \o path)
      BY <2>2 DEF a
    <3>3. PICK q : Holds(symbols, q, a \o path, s)
      BY <1>1, <1>5, <3>2, LookupIs
    <3>4. ~PlainName(program, module, at, path, s)
      BY <1>1, <1>2, <1>4, <3>1, <3>3, NoPlainMethod
    <3> QED
      BY <2>2, <3>3, <3>4
  <2> QED
    BY <1>8, <2>1, <2>2
<1>10. \E n, j \in Nat : \E local : MadeOf(program, s, local, n, j) /\ Holds(symbols, SpaceAt(program, n, j), local, s)
  BY <1>1, <1>9, KeyPlace
<1>11. \E m, i \in Nat :
          /\ IsItem(program, m, i) /\ b.site.module = program[m].path /\ b.site.space = SpaceAt(program, m, i)
          /\ b.site.struct # "" => SpaceAt(program, m, i) = program[m].path
          /\ (use.call => PlainName(program, m, i, path, s)) => Leads(program, symbols, m, i, path, s)
  BY <1>1, <1>6, <1>7, <1>9
<1>12. BoundAt(program, symbols, b)
  BY <1>4, <1>5, <1>6, <1>10, <1>11 DEF BoundAt
<1> QED
  BY <1>12 DEF b, s, use

(* What a step of the analysis adds to what is bound. *)
LEMMA NewBound ==
  ASSUME Analyze, errors' = {}, NEW b \in bound' \ bound
  PROVE  /\ Item.kind \in {"func", "struct"} /\ phase = "analyze" /\ UNCHANGED <<program, symbols>>
         /\ \E f \in Bodies(Item) : \E u \in DOMAIN f.uses :
              /\ b = [site |-> Site(current, f, u), symbol |-> Target(f, f.uses[u])]
              /\ Wrong(f, f.uses[u]) = {}
<1> DEFINE Found(f, u) == [site |-> Site(current, f, u), symbol |-> Target(f, f.uses[u])]
<1>1. phase = "analyze" /\ (Item.kind = "func" \/ Item.kind = "struct") /\ UNCHANGED program
  BY DEF Analyze
<1>2. CASE Item.kind = "func"
  <2> DEFINE uses == IF Item.defined THEN DOMAIN Item.uses ELSE {}
  <2>1. AnalyzeFunction(Item) /\ UNCHANGED symbols
    BY <1>2 DEF Analyze, table
  <2>2. /\ errors' = errors \cup {Error("namespace not found") : i \in Missing(Item)}
                       \cup UNION {Wrong(Item, Item.uses[u]) : u \in uses}
        /\ bound' = bound \cup {Found(Item, u) : u \in uses}
    BY <2>1 DEF AnalyzeFunction
  <2>3. PICK u \in uses : b = Found(Item, u)
    BY <2>2
  <2>4. Wrong(Item, Item.uses[u]) = {}
    BY <2>2
  <2>5. Item \in Bodies(Item) /\ u \in DOMAIN Item.uses
    BY <1>2 DEF Bodies
  <2> HIDE DEF Found
  <2> QED
    BY <1>1, <2>1, <2>3, <2>4, <2>5 DEF Found
<1>3. CASE Item.kind = "struct"
  <2>1. AnalyzeStruct(Item) /\ UNCHANGED symbols
    BY <1>3 DEF Analyze, table
  <2> DEFINE met == {m \in DOMAIN Item.methods : IsMethod(Item.methods[m])}
             new == UNION {{Found(Item.methods[m], u) : u \in DOMAIN Item.methods[m].uses} : m \in met}
             wrong == UNION {UNION {Wrong(Item.methods[m], Item.methods[m].uses[u]) :
                                      u \in DOMAIN Item.methods[m].uses} : m \in met}
             unmet == {Error("no method of the struct") : m \in DOMAIN Item.methods \ met}
             missing == UNION {{Error("namespace not found") : i \in Missing(Item.methods[m])} : m \in met}
  <2>2. errors' = errors \cup unmet \cup missing \cup wrong /\ bound' = bound \cup new
    BY <2>1 DEF AnalyzeStruct
  <2>8. b \in new /\ wrong = {}
    <3> HIDE DEF new, wrong, unmet, missing
    <3> QED
      BY <2>2
  <2> HIDE DEF Found
  <2>3. PICK m \in met : \E u \in DOMAIN Item.methods[m].uses :
          b = Found(Item.methods[m], u)
    <3> HIDE DEF met
    <3> QED
      BY <2>8
  <2>4. PICK u \in DOMAIN Item.methods[m].uses : b = Found(Item.methods[m], u)
    BY <2>3
  <2>6. Wrong(Item.methods[m], Item.methods[m].uses[u]) = {}
    <3> HIDE DEF met
    <3> QED
      BY <2>8
  <2>7. Item.methods[m] \in Bodies(Item)
    BY <1>3 DEF Bodies, Range
  <2> QED
    BY <1>1, <2>1, <2>4, <2>6, <2>7 DEF Found
<1> QED
  BY <1>1, <1>2, <1>3

(* Where names are found in the table: a read in a namespace inside of the *)
(* module may find a global that is gone with its block.                   *)
FromTable(site) == site.imports = <<>> /\ (site.use.call \/ site.space = site.module)

(* What is bound was found in the table as it grows. *)
BoundGrounded ==
  (errors = {} \/ phase = "generate") =>
    \A b \in bound : FromTable(b.site) => BoundAt(program, symbols, b)

LEMMA BoundStep ==
  ASSUME HomeInvariant, Plainly, GroundedTable(program, symbols), HeldInOrder, BoundGrounded,
         GlobalsIn(scopes), [Next]_vars
  PROVE  BoundGrounded'
<1> SUFFICES ASSUME (errors = {} \/ phase = "generate")', NEW b \in bound', FromTable(b.site)
             PROVE  BoundAt(program, symbols, b)'
  BY DEF BoundGrounded
<1>1. UNCHANGED program
  BY DEF Next, Hide, Import, Collect, Analyze, Leave, Register, Generate, vars
<1>2. Extends(symbols, symbols') /\ NamesInvariant
  BY TableStep DEF Grown, HomeInvariant, UsesInvariant
<1>3. errors = {} \/ phase = "generate"
  <2>1. phase' = "generate" => phase = "generate" \/ phase = "register"
    BY DEF Next, Hide, Import, Collect, Analyze, Leave, Register, Generate, vars, Advance
  <2>2. phase = "register" => errors = {}
    BY DEF HomeInvariant, UsesInvariant, CleanUses
  <2> QED
    BY <2>1, <2>2, NothingLost
<1>4. BoundAt(program, symbols, b)
  <2>1. CASE b \in bound
    BY <1>3, <2>1 DEF BoundGrounded
  <2>2. CASE b \notin bound
    <3>1. Analyze
      BY <2>2 DEF Next, Hide, Import, Collect, Leave, Register, Generate, vars
    <3>2. phase = "analyze" /\ phase' # "generate"
      BY <3>1 DEF Analyze, Advance
    <3>3. errors' = {} /\ errors = {}
      BY <3>2, NothingLost
    <3>4. /\ Item.kind \in {"func", "struct"}
          /\ \E f \in Bodies(Item) : \E u \in DOMAIN f.uses :
               /\ b = [site |-> Site(current, f, u), symbol |-> Target(f, f.uses[u])]
               /\ Wrong(f, f.uses[u]) = {}
      BY <2>2, <3>1, <3>3, NewBound
    <3>5. PICK f \in Bodies(Item) : \E u \in DOMAIN f.uses :
               /\ b = [site |-> Site(current, f, u), symbol |-> Target(f, f.uses[u])]
               /\ Wrong(f, f.uses[u]) = {}
      BY <3>4
    <3>6. PICK u \in DOMAIN f.uses :
               /\ b = [site |-> Site(current, f, u), symbol |-> Target(f, f.uses[u])]
               /\ Wrong(f, f.uses[u]) = {}
      BY <3>5
    <3>7. f.imports = <<>> /\ (f.uses[u].call \/ current = Here.path)
      BY <3>6 DEF Site, FromTable
    <3>8. Held(module + 1, 1)
      BY <3>2, <3>3 DEF HeldInOrder
    <3> QED
      BY <1>2, <3>2, <3>4, <3>6, <3>7, <3>8, UseBound
  <2> QED
    BY <2>1, <2>2
<1> QED
  BY <1>1, <1>2, <1>4, BoundStays

(* The full names of the functions and methods of an item. *)
NamesOf(p, m, i) == {SpaceAt(p, m, i) \o local : local \in Locals(p, m, i)}

LEMMA OwnIs ==
  ASSUME NEW p, NEW m, NEW x
  PROVE  IsOwn(p, m, x) <=> \E i \in Nat : IsItem(p, m, i) /\ x \in NamesOf(p, m, i)
  BY DEF IsOwn, NamesOf

LEMMA NamesAre ==
  ASSUME NEW p \in Programs, NEW m, NEW i, IsItem(p, m, i)
  PROVE  LET d == p[m].body[i]
         IN  /\ d.kind = "func" => NamesOf(p, m, i) = {Append(SpaceAt(p, m, i), d.name)}
             /\ d.kind = "struct" =>
                  NamesOf(p, m, i) = {SpaceAt(p, m, i) \o <<d.name, d.methods[k].name>> : k \in DOMAIN d.methods}
             /\ d.kind \notin {"func", "struct"} => NamesOf(p, m, i) = {}
<1> DEFINE d == p[m].body[i]
           X == SpaceAt(p, m, i)
           F(local) == X \o local
<1>1. NamesOf(p, m, i) = {F(local) : local \in Locals(p, m, i)}
  BY DEF NamesOf
<1>2. /\ d.kind = "func" => Locals(p, m, i) = {<<d.name>>}
      /\ d.kind = "struct" => Locals(p, m, i) = {<<d.name, d.methods[k].name>> : k \in DOMAIN d.methods}
      /\ d.kind \notin {"func", "struct"} => Locals(p, m, i) = {}
  BY LocalsAre
<1>3. d.kind = "func" => F(<<d.name>>) = Append(X, d.name)
  <2>1. X \in Seq(STRING) /\ (d.kind = "func" => d.name \in STRING)
    <3>1. IsSpace(p, m, i)
      BY DEF IsItem, IsSpace
    <3>2. IsDeclaration(d)
      BY ItemShape
    <3> QED
      BY <3>1, <3>2, SpacesAre DEF IsDeclaration, IsBody
  <2> DEFINE e == d.name
             S == STRING
  <2>2. X \in Seq(S) /\ (d.kind = "func" => e \in S)
    BY <2>1
  <2> HIDE DEF X, e, S
  <2>3. e \in S => Append(X, e) = X \o <<e>>
    BY <2>2, AppendIsConcat
  <2> QED
    BY <2>2, <2>3 DEF e
<1> HIDE DEF F
<1>4. d.kind = "func" => NamesOf(p, m, i) = {F(<<d.name>>)}
  BY <1>1, <1>2
<1>5. d.kind = "struct" => NamesOf(p, m, i) = {F(<<d.name, d.methods[k].name>>) : k \in DOMAIN d.methods}
  BY <1>1, <1>2
<1>6. d.kind \notin {"func", "struct"} => NamesOf(p, m, i) = {}
  BY <1>1, <1>2
<1>7. d.kind = "func" => NamesOf(p, m, i) = {Append(X, d.name)}
  BY <1>3, <1>4
<1> QED
  BY <1>5, <1>6, <1>7 DEF F

(* The code generator knows every function by its full name, and the       *)
(* globals that the module of their declaration finds.                     *)
FunctionsKnown ==
  \A x : x \in functions <=> \E m, i \in Nat : IsItem(program, m, i) /\ x \in NamesOf(program, m, i)

GlobalsKnown ==
  \A m, i \in Nat : \A s :
    LET d == program[m].body[i]
    IN  (/\ IsItem(program, m, i) /\ d.kind = "global" /\ s.kind \in {"global", "const"}
         /\ Holds(symbols, program[m].path, <<d.name>>, s)) => Append(s.owner, d.name) \in globals

Registered == phase = "generate" => FunctionsKnown /\ GlobalsKnown

LEMMA RegisterKnows ==
  ASSUME NamesInvariant, NamesApart(program), GroundedTable(program, symbols), Register
  PROVE  FunctionsKnown' /\ GlobalsKnown'
<1> DEFINE p == program
           Full(m, i) == p[m].path \o SpaceOf(p[m].body, i)
           Of(m, i) ==
             LET d == p[m].body[i]
             IN  CASE d.kind = "func" -> {Append(Full(m, i), d.name)}
                   [] d.kind = "struct" -> {Full(m, i) \o <<d.name, d.methods[k].name>> : k \in DOMAIN d.methods}
                   [] OTHER -> {}
           Found(m, i) == Lookup(symbols, << >>, p[m].path, <<p[m].body[i].name>>)
           Global(m, i) ==
             LET d == p[m].body[i]
                 symbol == IF d.kind = "global" THEN Found(m, i) ELSE Nothing
             IN  IF symbol.kind \in {"global", "const"} THEN {Append(symbol.owner, d.name)} ELSE {}
<1>1. /\ functions' = UNION {UNION {Of(m, i) : i \in 1 .. Len(p[m].body)} : m \in 1 .. Len(p)}
      /\ globals' = UNION {UNION {Global(m, i) : i \in 1 .. Len(p[m].body)} : m \in 1 .. Len(p)}
      /\ UNCHANGED <<program, symbols>>
  BY DEF Register
<1>2. /\ p \in Programs /\ ModulesApart(p) /\ StructsOutside(p)
  BY DEF NamesInvariant, Placed, NamesApart
<1>3. \A m, i : IsItem(p, m, i) => m \in Nat /\ i \in Nat
  <2>1. Len(p) \in Nat /\ \A m \in 1 .. Len(p) : Len(p[m].body) \in Nat
    BY <1>2, ProgramShape
  <2> QED
    BY <2>1 DEF IsItem
<1>4. ASSUME NEW m, NEW i, IsItem(p, m, i) PROVE Of(m, i) = NamesOf(p, m, i)
  <2>1. Full(m, i) = SpaceAt(p, m, i)
    BY DEF SpaceAt
  <2> DEFINE d == p[m].body[i]
  <2>2. /\ d.kind = "func" => NamesOf(p, m, i) = {Append(SpaceAt(p, m, i), d.name)}
        /\ d.kind = "struct" =>
             NamesOf(p, m, i) = {SpaceAt(p, m, i) \o <<d.name, d.methods[k].name>> : k \in DOMAIN d.methods}
        /\ d.kind \notin {"func", "struct"} => NamesOf(p, m, i) = {}
    BY <1>2, <1>4, NamesAre
  <2> HIDE DEF Full, d
  <2>3. Of(m, i) = CASE d.kind = "func" -> {Append(Full(m, i), d.name)}
                     [] d.kind = "struct" -> {Full(m, i) \o <<d.name, d.methods[k].name>> : k \in DOMAIN d.methods}
                     [] OTHER -> {}
    BY DEF d
  <2> HIDE DEF Of
  <2> QED
    BY <2>1, <2>2, <2>3
<1>5. ASSUME NEW m, NEW i, IsItem(p, m, i), p[m].body[i].kind = "global", NEW s, s.kind \in {"global", "const"},
             Holds(symbols, p[m].path, <<p[m].body[i].name>>, s)
      PROVE  Append(s.owner, p[m].body[i].name) \in Global(m, i)
  <2>1. Found(m, i) = s
    BY <1>2, <1>5, LookupAtModule DEF IsItem
  <2> HIDE DEF Found
  <2> QED
    BY <1>5, <2>1
<1> HIDE DEF Of, Global
<1>6. FunctionsKnown'
  <2>1. ASSUME NEW x PROVE x \in functions' <=> \E m, i \in Nat : IsItem(p, m, i) /\ x \in NamesOf(p, m, i)
    <3>1. x \in functions' <=> \E m, i : IsItem(p, m, i) /\ x \in Of(m, i)
      BY <1>1 DEF IsItem
    <3> QED
      BY <1>3, <1>4, <3>1
  <2> QED
    BY <1>1, <2>1 DEF FunctionsKnown
<1>7. GlobalsKnown'
  <2>1. \A m, i, x : IsItem(p, m, i) /\ x \in Global(m, i) => x \in globals'
    BY <1>1 DEF IsItem
  <2>2. ASSUME NEW m \in Nat, NEW i \in Nat, NEW s, IsItem(p, m, i), p[m].body[i].kind = "global",
               s.kind \in {"global", "const"}, Holds(symbols, p[m].path, <<p[m].body[i].name>>, s)
        PROVE  Append(s.owner, p[m].body[i].name) \in globals'
    BY <1>5, <2>1, <2>2
  <2> QED
    BY <1>1, <2>2 DEF GlobalsKnown
<1> QED
  BY <1>6, <1>7

LEMMA RegisteredStep ==
  ASSUME HomeInvariant, Plainly, GroundedTable(program, symbols), Registered, [Next]_vars
  PROVE  Registered'
<1>1. NamesInvariant /\ NamesApart(program)
  BY DEF HomeInvariant, UsesInvariant, Plainly
<1>2. CASE Register
  BY <1>1, <1>2, RegisterKnows DEF Registered
<1>3. CASE Generate \/ UNCHANGED vars
  BY <1>3 DEF Generate, vars, table, code, Registered, FunctionsKnown, GlobalsKnown
<1>4. CASE Hide \/ Import \/ Collect \/ Analyze \/ Leave
  BY <1>4 DEF Hide, Import, Collect, Analyze, Leave, Advance, Registered
<1> QED
  BY <1>2, <1>3, <1>4 DEF Next

(* The first candidate that is known. *)
LEMMA CandidatesAre ==
  ASSUME NEW a, NEW b, NEW c, NEW d, NEW more \in BOOLEAN
  PROVE  LET C == <<a, b, c>> \o (IF more THEN <<d>> ELSE << >>)
         IN  /\ DOMAIN C = IF more THEN 1 .. 4 ELSE 1 .. 3
             /\ C[1] = a /\ C[2] = b /\ C[3] = c /\ (more => C[4] = d)
<1>1. CASE more
  BY <1>1
<1>2. CASE ~more
  BY <1>2
<1> QED
  BY <1>1, <1>2

LEMMA FirstKnown ==
  ASSUME NEW C, NEW more, NEW F, NEW h,
         DOMAIN C = IF more THEN 1 .. 4 ELSE 1 .. 3,
         \/ C[1] \in F /\ h = C[1]
         \/ C[1] \notin F /\ C[2] \in F /\ h = C[2]
         \/ C[1] \notin F /\ C[2] \notin F /\ C[3] \in F /\ h = C[3]
         \/ C[1] \notin F /\ C[2] \notin F /\ C[3] \notin F /\ more /\ C[4] \in F /\ h = C[4],
         NEW known, known = {i \in DOMAIN C : C[i] \in F}
  PROVE  known # {} /\ C[Min(known)] = h
<1>1. PICK n \in known : C[n] = h /\ \A i \in known : n <= i
  OBVIOUS
<1>2. n \in Nat /\ known \subseteq Nat
  OBVIOUS
<1>3. \E x \in known : \A y \in known : x <= y
  BY <1>1
<1>4. Min(known) \in known /\ \A y \in known : Min(known) <= y
  BY <1>3 DEF Min
<1>5. Min(known) \in Nat /\ Min(known) <= n /\ n <= Min(known)
  BY <1>1, <1>2, <1>4
<1>6. Min(known) = n
  BY <1>2, <1>5
<1> QED
  BY <1>1, <1>6

(* Where the generator stands: current is the module's namespace.          *)
Within == current \o nested

(* The names under which the generator looks for a function. *)
LEMMA FunctionIdIs ==
  ASSUME NEW path, NEW s
  PROVE  LET r == FunctionId(path, s)
             b == Within \o path
             c == current \o path
             d == s.owner \o path
         IN  /\ path \in functions => r.kind = "func" /\ r.home = path
             /\ path \notin functions /\ b \in functions => r.kind = "func" /\ HomeIs(r, Within, path)
             /\ path \notin functions /\ b \notin functions /\ c \in functions =>
                  r.kind = "func" /\ HomeIs(r, current, path)
             /\ (path \notin functions /\ b \notin functions /\ c \notin functions /\ s.kind = "func"
                   /\ d \in functions) => r.kind = "func" /\ HomeIs(r, s.owner, path)
<1> DEFINE r == FunctionId(path, s)
           b == Within \o path
           c == current \o path
           d == s.owner \o path
           more == s.kind = "func"
           candidates == <<path, b, c>> \o (IF more THEN <<d>> ELSE << >>)
           known == {i \in DOMAIN candidates : candidates[i] \in functions}
<1>1. r = IF known = {} THEN Nothing ELSE [kind |-> "func", home |-> candidates[Min(known)]]
  BY DEF FunctionId, Within
<1>2. more \in BOOLEAN
  OBVIOUS
<1>3. /\ \A x : (r.home = x /\ x = b) => HomeIs(r, Within, path)
      /\ \A x : (r.home = x /\ x = c) => HomeIs(r, current, path)
      /\ \A x : (r.home = x /\ x = d) => HomeIs(r, s.owner, path)
  BY DEF HomeIs
<1> HIDE DEF b, c, d, r, more
<1>0. /\ DOMAIN candidates = IF more THEN 1 .. 4 ELSE 1 .. 3
      /\ candidates[1] = path /\ candidates[2] = b /\ candidates[3] = c /\ (more => candidates[4] = d)
  BY <1>2, CandidatesAre
<1> HIDE DEF candidates
<1>4. ASSUME NEW h,
             \/ path \in functions /\ h = path
             \/ path \notin functions /\ b \in functions /\ h = b
             \/ path \notin functions /\ b \notin functions /\ c \in functions /\ h = c
             \/ path \notin functions /\ b \notin functions /\ c \notin functions /\ more /\ d \in functions /\ h = d
      PROVE  r.kind = "func" /\ r.home = h
  <2>1. \A K : K = {i \in DOMAIN candidates : candidates[i] \in functions} => K # {} /\ candidates[Min(K)] = h
    BY <1>0, <1>4, FirstKnown
  <2>2. known # {} /\ candidates[Min(known)] = h
    BY <2>1
  <2> HIDE DEF known
  <2> QED
    BY <1>1, <2>2
<1> HIDE DEF known
<1>5. /\ path \in functions => r.kind = "func" /\ r.home = path
      /\ path \notin functions /\ b \in functions => r.kind = "func" /\ r.home = b
      /\ path \notin functions /\ b \notin functions /\ c \in functions => r.kind = "func" /\ r.home = c
      /\ path \notin functions /\ b \notin functions /\ c \notin functions /\ more /\ d \in functions =>
           r.kind = "func" /\ r.home = d
  BY <1>4
<1>6. /\ path \in functions => r.kind = "func" /\ r.home = path
      /\ path \notin functions /\ b \in functions => r.kind = "func" /\ HomeIs(r, Within, path)
      /\ path \notin functions /\ b \notin functions /\ c \in functions => r.kind = "func" /\ HomeIs(r, current, path)
      /\ path \notin functions /\ b \notin functions /\ c \notin functions /\ more /\ d \in functions =>
           r.kind = "func" /\ HomeIs(r, s.owner, path)
  BY <1>3, <1>5
<1> QED
  BY <1>6 DEF b, c, d, r, more

-----------------------------------------------------------------------------
(* The generator finds what analysis found *)

(* Where the generator stands, seen from the text. *)
LEMMA GeneratePlace ==
  ASSUME NamesInvariant, phase = "generate", Item.kind \in {"func", "struct"}
  PROVE  /\ Within = SpaceAt(program, module, at) /\ current = program[module].path
         /\ IsItem(program, module, at) /\ IsSpace(program, module, at)
         /\ module \in Nat /\ at \in Nat /\ Here = program[module] /\ Item = program[module].body[at]
         /\ program \in Programs
<1>1. /\ Nested(Here.body) /\ at \in 1 .. Len(Here.body) /\ module \in 1 .. Len(program)
      /\ Len(program) \in Nat /\ Len(Here.body) \in Nat
  BY HereShape DEF NamesInvariant
<1>2. nested = SpaceOf(Here.body, at - 1) /\ current = Here.path /\ program \in Programs
  BY DEF NamesInvariant, StackFollows, SpacesFollow, Placed
<1>3. SpaceOf(Here.body, at) = SpaceOf(Here.body, at - 1)
  <2>1. Here.body[at].kind \notin {"enter", "exit"}
    BY DEF Item
  <2> QED
    BY <1>1, <2>1, SpaceStep
<1>4. nested = SpaceOf(Here.body, at)
  BY <1>2, <1>3
<1>5. Within = SpaceAt(program, module, at)
  BY <1>2, <1>4 DEF Within, SpaceAt, Here
<1> QED
  BY <1>1, <1>2, <1>5 DEF Here, Item, IsItem, IsSpace

LEMMA PlainIs ==
  ASSUME NEW site, NEW s, Plain(site, s)
  PROVE  LET path == site.use.path
         IN  /\ site.imports = <<>> /\ ~ImportsInside
             /\ path \in functions => s.home = path
             /\ site.use.call => \/ s.home = path \/ HomeIs(s, site.space, path)
                                 \/ HomeIs(s, site.module, path) \/ HomeIs(s, s.owner, path)
             /\ ~site.use.call => /\ site.space = site.module
                                  /\ s.kind = "const" \/ (Len(path) = 1 /\ HomeIs(s, s.owner, path))
  BY DEF Plain, HomeIs

LEMMA SameHome ==
  ASSUME NEW r, NEW s, NEW space, NEW path, HomeIs(r, space, path), HomeIs(s, space, path)
  PROVE  r.home = s.home
<1> DEFINE z == space \o path
<1>1. r.home = z /\ s.home = z
  BY DEF HomeIs
<1> HIDE DEF z
<1> QED
  BY <1>1

LEMMA HomeKnown ==
  ASSUME NEW s, NEW space, NEW path, HomeIs(s, space, path), s.home \in functions
  PROVE  space \o path \in functions
<1> DEFINE z == space \o path
<1>1. s.home = z
  BY DEF HomeIs
<1> HIDE DEF z
<1>2. z \in functions
  BY <1>1
<1> QED
  BY <1>2 DEF z

(* The functions under the path of a module are its own. *)
LEMMA KnownIsOwn ==
  ASSUME NEW p \in Programs, p = program, ModulesApart(p), FunctionsKnown, NEW m \in 1 .. Len(p), m \in Nat,
         NEW space \in Seq(STRING), p[m].path \in Around(space), NEW path \in Seq(STRING)
  PROVE  space \o path \in functions <=> IsOwn(p, m, space \o path)
<1> DEFINE x == space \o path
<1>0. space \in Around(x) /\ x \in Seq(STRING)
  BY AroundConcat
<1>1. p[m].path \in Around(x)
  BY <1>0, AroundSteps
<1> HIDE DEF x
<1>2. x \in functions <=> \E n \in Nat : IsOwn(p, n, x)
  BY OwnIs DEF FunctionsKnown
<1>3. \A n : IsOwn(p, n, x) => m = n
  BY <1>1, OwnApart
<1>4. x \in functions <=> IsOwn(p, m, x)
  BY <1>2, <1>3
<1> QED
  BY <1>4 DEF x

(* The text a bound use is in, when it is what the generator writes.       *)
LEMMA BoundHere ==
  ASSUME NamesInvariant, NamesApart(program), phase = "generate", Item.kind \in {"func", "struct"},
         NEW b, BoundAt(program, symbols, b), b.site.space = Within, b.site.module = Here.path
  PROVE  LET use == b.site.use
             s == b.symbol
         IN  /\ use.path \in Seq(STRING) /\ use.path # <<>> /\ Fits(use, s)
             /\ \E n, j \in Nat : \E local :
                  MadeOf(program, s, local, n, j) /\ Holds(symbols, SpaceAt(program, n, j), local, s)
             /\ \E i \in Nat :
                  /\ SpaceAt(program, module, i) = Within /\ IsSpace(program, module, i)
                  /\ b.site.struct # "" => Within = program[module].path
                  /\ (use.call => PlainName(program, module, i, use.path, s)) =>
                        Leads(program, symbols, module, i, use.path, s)
<1> DEFINE use == b.site.use
           s == b.symbol
<1>1. /\ Within = SpaceAt(program, module, at) /\ IsSpace(program, module, at)
      /\ module \in Nat /\ at \in Nat /\ Here = program[module] /\ program \in Programs
      /\ module \in 1 .. Len(program)
  BY GeneratePlace DEF IsItem
<1>2. PICK m, i \in Nat :
           /\ IsItem(program, m, i) /\ b.site.module = program[m].path /\ b.site.space = SpaceAt(program, m, i)
           /\ b.site.struct # "" => SpaceAt(program, m, i) = program[m].path
           /\ (use.call => PlainName(program, m, i, use.path, s)) => Leads(program, symbols, m, i, use.path, s)
  BY DEF BoundAt
<1>3. IsSpace(program, m, i) /\ program[m].path = program[module].path
  <2>0. IsItem(program, m, i)
    BY <1>2
  <2>1. IsSpace(program, m, i)
    BY <2>0 DEF IsItem, IsSpace
  <2>2. Here.path = program[module].path /\ b.site.module = program[m].path
    BY <1>1, <1>2
  <2> QED
    BY <2>1, <2>2
<1>4. program[m].path \in Around(SpaceAt(program, module, at)) /\ m \in 1 .. Len(program)
  BY <1>1, <1>2, <1>3, SpacesAre DEF IsItem
<1>5. m = module
  BY <1>1, <1>4, OneModule DEF NamesApart
<1>6. SpaceAt(program, module, i) = Within /\ IsSpace(program, module, i)
  BY <1>2, <1>3, <1>5
<1> HIDE DEF use, s
<1>7. /\ b.site.struct # "" => Within = program[module].path
      /\ (use.call => PlainName(program, module, i, use.path, s)) =>
            Leads(program, symbols, module, i, use.path, s)
  BY <1>2, <1>5, <1>6
<1>8. /\ use.path \in Seq(STRING) /\ use.path # <<>> /\ Fits(use, s)
      /\ \E n, j \in Nat : \E local :
           MadeOf(program, s, local, n, j) /\ Holds(symbols, SpaceAt(program, n, j), local, s)
  BY DEF BoundAt, use, s
<1> QED
  BY <1>6, <1>7, <1>8 DEF use, s

(* A call of a plain name is of a function that the generator knows: which *)
(* of its candidates that is, and when the table has the same symbol for   *)
(* the name, read from the module, as analysis had.                        *)
CalledPlainly(struct, path, s) ==
  /\ path \in Seq(STRING) /\ path # <<>> /\ s.kind = "func" /\ s.home \in functions
  /\ path \in functions => s.home = path
  /\ Within \o path \in functions => HomeIs(s, Within, path)
  /\ (path \notin functions /\ Within \o path \notin functions /\ current \o path \in functions) =>
       HomeIs(s, current, path)
  /\ (path \notin functions /\ Within \o path \notin functions /\ current \o path \notin functions) =>
       HomeIs(s, s.owner, path) /\ Resolve(symbols, << >>, current, path) = s
  /\ struct # "" => Resolve(symbols, << >>, current, path) = s

LEMMA CallHere ==
  ASSUME NamesInvariant, NamesApart(program), GroundedTable(program, symbols), FunctionsKnown,
         phase = "generate", Item.kind \in {"func", "struct"},
         NEW b, BoundAt(program, symbols, b), b.site.space = Within, b.site.module = Here.path,
         b.site.use.call, Plain(b.site, b.symbol)
  PROVE  CalledPlainly(b.site.struct, b.site.use.path, b.symbol)
<1> SUFFICES ASSUME NEW path, path = b.site.use.path, NEW s, s = b.symbol
             PROVE  CalledPlainly(b.site.struct, path, s)
  OBVIOUS
<1> DEFINE p == program
           P == program[module].path
           use == b.site.use
<1>1. /\ current = P /\ module \in Nat /\ p \in Programs /\ module \in 1 .. Len(p) /\ Here.path = P
      /\ P \in Seq(STRING) /\ P \in Around(P) /\ ModulesApart(p)
  BY GeneratePlace, ModuleSpace DEF IsItem, NamesApart
<1>2. /\ path \in Seq(STRING) /\ path # <<>> /\ Fits(use, s)
      /\ \E n, j \in Nat : \E local : MadeOf(p, s, local, n, j)
  BY BoundHere
<1>3. PICK i \in Nat :
        /\ SpaceAt(p, module, i) = Within /\ IsSpace(p, module, i)
        /\ b.site.struct # "" => Within = P
        /\ PlainName(p, module, i, path, s) => Leads(p, symbols, module, i, path, s)
  BY BoundHere
<1>4. /\ path \in functions => s.home = path
      /\ s.home = path \/ HomeIs(s, Within, path) \/ HomeIs(s, P, path) \/ HomeIs(s, s.owner, path)
  BY <1>1, PlainIs
<1>5. PlainName(p, module, i, path, s)
  BY <1>3, <1>4 DEF PlainName
<1>6. s.kind = "func"
  BY <1>2 DEF Fits
<1>7. Within \in Seq(STRING) /\ P \in Around(Within)
  BY <1>1, <1>3, SpacesAre
<1>8. /\ Within \o path \in functions <=> IsOwn(p, module, Within \o path)
      /\ P \o path \in functions <=> IsOwn(p, module, P \o path)
  BY <1>1, <1>2, <1>7, KnownIsOwn
<1>9. s.home \in functions
  <2>1. PICK n, j \in Nat : \E local : MadeOf(p, s, local, n, j)
    BY <1>2
  <2>2. IsOwn(p, n, s.home)
    BY <1>1, <1>6, <2>1, OwnHome
  <2> QED
    BY <2>2, OwnIs DEF FunctionsKnown
<1>10. /\ IsOwn(p, module, Within \o path) => HomeIs(s, Within, path)
       /\ (IsOwn(p, module, P \o path) /\ ~IsOwn(p, module, Within \o path)) => s.home = path \/ HomeIs(s, P, path)
       /\ (s.owner # P /\ HomeIs(s, s.owner, path)) => FoundAt(symbols, P, path, s)
       /\ Within = P => FoundAt(symbols, P, path, s)
  BY <1>3, <1>5, <1>6 DEF Leads
<1>11. FoundAt(symbols, P, path, s) => Resolve(symbols, << >>, current, path) = s
  <2> SUFFICES ASSUME FoundAt(symbols, P, path, s) PROVE Resolve(symbols, << >>, current, path) = s
    OBVIOUS
  <2> DEFINE x == current
  <2>1. x = program[module].path /\ FoundAt(symbols, x, path, s)
    BY <1>1
  <2>3. p \in Programs /\ NamesApart(p) /\ GroundedTable(p, symbols) /\ module \in 1 .. Len(p) /\ x = p[module].path
    BY <1>1
  <2>4. path \in Seq(STRING) /\ path # <<>>
    BY <1>2
  <2> HIDE DEF x, p, P, use
  <2>2. Resolve(symbols, << >>, x, path) = s
    BY <2>1, <2>3, <2>4, FoundPlain
  <2> QED
    BY <2>2 DEF x
<1>12. \A space : HomeIs(s, space, path) => space \o path \in functions
  BY <1>9, HomeKnown
<1>13. s.home = path => path \in functions
  BY <1>9
<1> HIDE DEF p, P, use
<1>14. ASSUME path \notin functions, Within \o path \notin functions, P \o path \notin functions
       PROVE  HomeIs(s, s.owner, path) /\ FoundAt(symbols, P, path, s)
  <2>1. ~HomeIs(s, Within, path) /\ ~HomeIs(s, P, path) /\ s.home # path
    BY <1>12, <1>13, <1>14
  <2>2. HomeIs(s, s.owner, path) /\ s.owner # P
    BY <1>4, <2>1
  <2> QED
    BY <1>10, <2>2
<1>15. Within \o path \in functions => HomeIs(s, Within, path)
  BY <1>8, <1>10
<1>16. path \notin functions /\ Within \o path \notin functions /\ P \o path \in functions => HomeIs(s, P, path)
  BY <1>8, <1>10, <1>13
<1>17. b.site.struct # "" => FoundAt(symbols, P, path, s)
  BY <1>3, <1>10
<1> QED
  BY <1>1, <1>2, <1>4, <1>6, <1>9, <1>11, <1>14, <1>15, <1>16, <1>17 DEF CalledPlainly

(* The generator refers to the same function.                              *)
LEMMA CallAgrees ==
  ASSUME NamesInvariant, NamesApart(program), GroundedTable(program, symbols), FunctionsKnown,
         phase = "generate", Item.kind \in {"func", "struct"},
         NEW b, BoundAt(program, symbols, b), b.site.space = Within, b.site.module = Here.path,
         b.site.use.call, Plain(b.site, b.symbol),
         NEW f, f.struct = b.site.struct
  PROVE  LET r == CallId(f, b.site.use.path)
         IN  r.kind = "func" /\ b.symbol.kind = "func" /\ r.home = b.symbol.home
<1> DEFINE path == b.site.use.path
           s == b.symbol
           found == Resolve(symbols, << >>, current, path)
           r == FunctionId(path, found)
<1>1. CalledPlainly(f.struct, path, s)
  BY CallHere
<1>2. /\ path \in functions => r.kind = "func" /\ r.home = path
      /\ path \notin functions /\ Within \o path \in functions => r.kind = "func" /\ HomeIs(r, Within, path)
      /\ path \notin functions /\ Within \o path \notin functions /\ current \o path \in functions =>
           r.kind = "func" /\ HomeIs(r, current, path)
      /\ (path \notin functions /\ Within \o path \notin functions /\ current \o path \notin functions
            /\ found.kind = "func" /\ found.owner \o path \in functions) =>
           r.kind = "func" /\ HomeIs(r, found.owner, path)
  BY FunctionIdIs
<1>3. CallId(f, path) = r
  <2>1. f.struct # "" => found.kind = "func"
    BY <1>1 DEF CalledPlainly
  <2> HIDE DEF r
  <2>2. CallId(f, path) = FunctionId(path, found)
    <3> DEFINE method == <<f.struct>> \o path
    <3> HIDE DEF method
    <3> QED
      BY <2>1 DEF CallId
  <2> QED
    BY <2>2 DEF r
<1>4. HomeIs(s, s.owner, path) => s.owner \o path \in functions
  BY <1>1, HomeKnown DEF CalledPlainly
<1> HIDE DEF r, found, s, path
<1>5. \A space : HomeIs(r, space, path) /\ HomeIs(s, space, path) => r.home = s.home
  BY SameHome
<1>6. CASE path \in functions
  BY <1>1, <1>2, <1>3, <1>6 DEF CalledPlainly, found, s, path
<1>7. CASE path \notin functions /\ Within \o path \in functions
  BY <1>1, <1>2, <1>3, <1>5, <1>7 DEF CalledPlainly, found, s, path
<1>8. CASE path \notin functions /\ Within \o path \notin functions /\ current \o path \in functions
  BY <1>1, <1>2, <1>3, <1>5, <1>8 DEF CalledPlainly, found, s, path
<1>9. CASE path \notin functions /\ Within \o path \notin functions /\ current \o path \notin functions
  <2>1. HomeIs(s, s.owner, path) /\ found = s
    BY <1>1, <1>9 DEF CalledPlainly, found
  <2>2. found.kind = "func" /\ found.owner \o path \in functions
    BY <1>1, <1>4, <2>1 DEF CalledPlainly
  <2>3. r.kind = "func" /\ HomeIs(r, s.owner, path)
    BY <1>2, <1>9, <2>1, <2>2
  <2>4. r.home = s.home
    BY <1>5, <2>1, <2>3
  <2> QED
    BY <1>1, <1>3, <2>3, <2>4 DEF CalledPlainly, s, path
<1> QED
  BY <1>6, <1>7, <1>8, <1>9

(* A value read in its own module, or by the module's own name for it.     *)
LEMMA ValueHere ==
  ASSUME NamesInvariant, NamesApart(program), GroundedTable(program, symbols),
         phase = "generate", Item.kind \in {"func", "struct"},
         NEW b, BoundAt(program, symbols, b), b.site.space = Within, b.site.module = Here.path,
         ~b.site.use.call, Plain(b.site, b.symbol)
  PROVE  Resolve(symbols, << >>, current, b.site.use.path) = b.symbol
<1> DEFINE p == program
           P == program[module].path
           path == b.site.use.path
           s == b.symbol
<1>1. /\ current = P /\ p \in Programs /\ module \in 1 .. Len(p) /\ Here.path = P /\ NamesApart(p)
  BY GeneratePlace DEF IsItem
<1>2. path \in Seq(STRING) /\ path # <<>>
  BY BoundHere
<1>3. PICK i \in Nat : SpaceAt(p, module, i) = Within /\ Leads(p, symbols, module, i, path, s)
  BY BoundHere
<1>4. Within = P
  BY <1>1, PlainIs
<1> DEFINE x == current
<1>5. x = p[module].path /\ FoundAt(symbols, x, path, s) /\ GroundedTable(p, symbols)
  BY <1>1, <1>3, <1>4 DEF Leads
<1> HIDE DEF x, p, path, s, P
<1>6. Resolve(symbols, << >>, x, path) = s
  BY <1>1, <1>2, <1>5, FoundPlain
<1> QED
  BY <1>6 DEF x, path, s

(* A variable outside of namespaces is known under its owner's name.       *)
LEMMA GlobalKnown ==
  ASSUME NEW p \in Programs, p = program, GlobalsKnown, NEW s, s.kind = "global", NEW local,
         NEW n \in Nat, NEW j \in Nat, MadeOf(p, s, local, n, j), Holds(symbols, SpaceAt(p, n, j), local, s),
         NEW path \in Seq(STRING), Len(path) = 1, HomeIs(s, s.owner, path)
  PROVE  s.owner \o path \in globals
<1> DEFINE d == p[n].body[j]
           X == SpaceAt(p, n, j)
           P == p[n].path
<1>1. /\ IsSpace(p, n, j) /\ IsItem(p, n, j) /\ local \in Seq(STRING) /\ Len(local) \in {1, 2}
      /\ s.owner = P /\ HomeIs(s, X, local) /\ (Len(local) = 2 => s.kind = "func")
  <2>1. /\ IsSpace(p, n, j) /\ IsItem(p, n, j) /\ local \in Seq(STRING) /\ Len(local) \in {1, 2}
        /\ s.owner = P /\ (Len(local) = 2 => s.kind = "func")
    <3>1. s.owner = P
      BY Zenon DEF MadeOf
    <3>2. IsSpace(p, n, j) /\ IsItem(p, n, j)
      BY DEF MadeOf, IsItem, IsSpace
    <3>3. local \in Seq(STRING)
      BY ONLY MadeShape, MadeOf(p, s, local, n, j), p \in Programs, n \in Nat, j \in Nat
    <3>4. Len(local) \in {1, 2}
      BY ONLY MadeShape, MadeOf(p, s, local, n, j), p \in Programs, n \in Nat, j \in Nat
    <3>5. Len(local) = 2 => s.kind = "func"
      BY MadeMethod
    <3> QED
      BY <3>1, <3>2, <3>3, <3>4, <3>5
  <2>2. HomeIs(s, X, local)
    BY Zenon DEF MadeOf, HomeIs
  <2> QED
    BY <2>1, <2>2
<1>2. d.kind = "global" /\ local = <<d.name>> /\ Len(local) = 1
  BY <1>1, MadeGlobal
<1>3. X \in Seq(STRING) /\ P \in Seq(STRING)
  BY <1>1, SpacesAre
<1>4. HomeIs(s, P, path)
  BY <1>1
<1> HIDE DEF X, P, d
<1>5. X = P /\ local = path
  <2>1. X \o local = P \o path
    <3> DEFINE y == X \o local
               z == P \o path
    <3>1. s.home = y /\ s.home = z
      BY <1>1, <1>4 DEF HomeIs
    <3> HIDE DEF y, z
    <3>2. y = z
      BY <3>1
    <3> QED
      BY <3>2 DEF y, z
  <2>2. Len(local) = Len(path)
    BY <1>2
  <2> DEFINE S == STRING
  <2>3. X \in Seq(S) /\ P \in Seq(S) /\ local \in Seq(S) /\ path \in Seq(S)
    BY <1>1, <1>3
  <2> HIDE DEF S
  <2>4. X = P
    BY ONLY <2>1, <2>2, <2>3, SameAhead
  <2>5. local = path
    BY ONLY <2>1, <2>2, <2>3, SameBehind
  <2> QED
    BY <2>4, <2>5
<1>6. Append(s.owner, d.name) \in globals
  BY <1>1, <1>2, <1>5 DEF GlobalsKnown, d, X, P
<1>7. Append(s.owner, d.name) = s.owner \o path
  <2>1. d.name \in STRING
    <3>1. IsDeclaration(d)
      BY <1>1, ItemShape DEF d
    <3> QED
      BY <1>2, <3>1 DEF IsDeclaration
  <2>2. s.owner \in Seq(STRING)
    BY <1>1, <1>3
  <2> DEFINE S == STRING
             e == d.name
             o == s.owner
  <2>3. o \in Seq(S) /\ e \in S
    BY <2>1, <2>2
  <2> HIDE DEF S, e, o
  <2>4. Append(o, e) = o \o <<e>>
    BY <2>3, AppendIsConcat
  <2>5. <<e>> = path
    BY <1>2, <1>5 DEF e
  <2> QED
    BY <2>4, <2>5 DEF e, o
<1> QED
  BY <1>6, <1>7

LEMMA ValueAgrees ==
  ASSUME NamesInvariant, NamesApart(program), GroundedTable(program, symbols), GlobalsKnown,
         phase = "generate", Item.kind \in {"func", "struct"},
         NEW b, BoundAt(program, symbols, b), b.site.space = Within, b.site.module = Here.path,
         ~b.site.use.call, Plain(b.site, b.symbol)
  PROVE  LET r == ValueId(b.site.use.path)
         IN  r # Nothing /\ r.kind = b.symbol.kind /\ r.home = b.symbol.home
<1> DEFINE path == b.site.use.path
           s == b.symbol
           z == s.owner \o path
<1>1. Resolve(symbols, << >>, current, path) = s
  BY ValueHere
<1>2. s.kind = "const" \/ (Len(path) = 1 /\ HomeIs(s, s.owner, path))
  BY PlainIs
<1>3. /\ path \in Seq(STRING) /\ Fits(b.site.use, s)
      /\ \E n, j \in Nat : \E local :
           MadeOf(program, s, local, n, j) /\ Holds(symbols, SpaceAt(program, n, j), local, s)
  BY BoundHere
<1>4. CASE s.kind = "const"
  <2> HIDE DEF s
  <2>1. ValueId(path) = [kind |-> "const", home |-> s.home]
    BY <1>1, <1>4 DEF ValueId
  <2> QED
    BY <1>4, <2>1 DEF s, Nothing
<1>5. CASE s.kind # "const"
  <2>1. s.kind = "global" /\ Len(path) = 1 /\ HomeIs(s, s.owner, path)
    BY <1>2, <1>3, <1>5 DEF Fits
  <2>2. z \in globals
    <3>1. PICK n, j \in Nat : \E local :
           MadeOf(program, s, local, n, j) /\ Holds(symbols, SpaceAt(program, n, j), local, s)
      BY <1>3
    <3>2. PICK local : MadeOf(program, s, local, n, j) /\ Holds(symbols, SpaceAt(program, n, j), local, s)
      BY <3>1
    <3>3. program \in Programs
      BY DEF NamesInvariant, Placed
    <3> HIDE DEF s, path
    <3> QED
      BY <1>3, <2>1, <3>2, <3>3, GlobalKnown
  <2>3. s.home = z
    BY <2>1 DEF HomeIs
  <2>4. ValueId(path) = IF z \in globals THEN [kind |-> "global", home |-> z] ELSE Nothing
    <3>1. s.kind # "const" /\ ~(Len(path) > 1) /\ s.kind = "global" /\ Len(path) = 1
      BY <2>1
    <3> HIDE DEF s, path
    <3> QED
      BY <1>1, <3>1, Zenon DEF ValueId
  <2> HIDE DEF z
  <2> QED
    BY <2>1, <2>2, <2>3, <2>4 DEF Nothing
<1> QED
  BY <1>4, <1>5

(* What a step of the generator adds to the code. *)
LEMMA NewGenerated ==
  ASSUME Generate, NEW g \in generated' \ generated
  PROVE  /\ Item.kind \in {"func", "struct"} /\ phase = "generate"
         /\ \E f \in Bodies(Item) : \E u \in DOMAIN f.uses :
              g = [site |-> Site(Within, f, u), symbol |-> Reference(f, f.uses[u])]
<1> DEFINE Made(f, u) == [site |-> Site(Within, f, u), symbol |-> Reference(f, f.uses[u])]
           fs == {h \in Bodies(Item) : h.defined}
<1>1. phase = "generate" /\ Item.kind \in {"func", "struct"}
  BY DEF Generate, GenerateBodies
<1>2. GenerateBodies(Bodies(Item))
  <2>1. CASE Item.kind = "func"
    BY <2>1 DEF Generate, Bodies
  <2>2. CASE Item.kind = "struct"
    BY <2>2 DEF Generate, Bodies
  <2> QED
    BY <1>1, <2>1, <2>2
<1>3. Generated(Bodies(Item)) = UNION {{Made(f, u) : u \in DOMAIN f.uses} : f \in fs}
  BY DEF Generated, Within
<1>4. g \in Generated(Bodies(Item))
  BY <1>2 DEF GenerateBodies
<1> HIDE DEF Made
<1>5. PICK f \in fs : \E u \in DOMAIN f.uses : g = Made(f, u)
  BY <1>3, <1>4
<1>6. PICK u \in DOMAIN f.uses : g = Made(f, u)
  BY <1>5
<1> QED
  BY <1>1, <1>6 DEF Made

(* A step of the generator keeps the agreement. *)
LEMMA GenerateAgrees ==
  ASSUME NamesInvariant, NamesApart(program), GroundedTable(program, symbols), BoundGrounded, Registered,
         Generate, NEW b \in bound, NEW g \in generated' \ generated,
         b.site = g.site, Plain(b.site, b.symbol)
  PROVE  g.symbol # Nothing /\ g.symbol.kind = b.symbol.kind /\ g.symbol.home = b.symbol.home
<1>1. /\ Item.kind \in {"func", "struct"} /\ phase = "generate"
      /\ \E f \in Bodies(Item) : \E u \in DOMAIN f.uses :
           g = [site |-> Site(Within, f, u), symbol |-> Reference(f, f.uses[u])]
  BY NewGenerated
<1>2. PICK f, u : g = [site |-> Site(Within, f, u), symbol |-> Reference(f, f.uses[u])]
  BY <1>1
<1>3. /\ b.site.space = Within /\ b.site.module = Here.path /\ b.site.struct = f.struct
      /\ b.site.use = f.uses[u] /\ g.symbol = Reference(f, b.site.use)
  BY <1>2 DEF Site
<1>4. FunctionsKnown /\ GlobalsKnown
  BY <1>1 DEF Registered
<1>5. FromTable(b.site)
  BY PlainIs DEF FromTable
<1>6. BoundAt(program, symbols, b)
  BY <1>1, <1>5 DEF BoundGrounded
<1>7. CASE b.site.use.call
  <2> DEFINE r == CallId(f, b.site.use.path)
  <2>1. r.kind = "func" /\ b.symbol.kind = "func" /\ r.home = b.symbol.home
    BY <1>1, <1>3, <1>4, <1>6, <1>7, CallAgrees
  <2>2. g.symbol = r
    BY <1>3, <1>7 DEF Reference
  <2> HIDE DEF r
  <2> QED
    BY <2>1, <2>2 DEF Nothing
<1>8. CASE ~b.site.use.call
  <2> DEFINE r == ValueId(b.site.use.path)
  <2>1. r # Nothing /\ r.kind = b.symbol.kind /\ r.home = b.symbol.home
    BY <1>1, <1>3, <1>4, <1>6, <1>8, ValueAgrees
  <2>2. g.symbol = r
    BY <1>3, <1>8 DEF Reference
  <2> HIDE DEF r
  <2> QED
    BY <2>1, <2>2
<1> QED
  BY <1>7, <1>8

LEMMA AgreeStep ==
  ASSUME HomeInvariant, NamesApart(program), GroundedTable(program, symbols), BoundGrounded, Registered,
         PlainUsesAgree, [Next]_vars
  PROVE  PlainUsesAgree'
<1>1. CASE Generate
  <2>1. UNCHANGED <<program, functions, bound>>
    BY <1>1 DEF Generate
  <2>2. NamesInvariant
    BY DEF HomeInvariant, UsesInvariant
  <2>3. ASSUME NEW b \in bound, NEW g \in generated', b.site = g.site, b.symbol # Nothing, Plain(b.site, b.symbol)
        PROVE  g.symbol # Nothing /\ g.symbol.kind = b.symbol.kind /\ g.symbol.home = b.symbol.home
    <3>1. CASE g \in generated
      BY <2>3, <3>1 DEF PlainUsesAgree
    <3>2. CASE g \notin generated
      BY <1>1, <2>2, <2>3, <3>2, GenerateAgrees
    <3> QED
      BY <3>1, <3>2
  <2>4. \A site, s : Plain(site, s)' => Plain(site, s)
    BY <2>1 DEF Plain, ImportsInside
  <2> QED
    BY <2>1, <2>3, <2>4 DEF PlainUsesAgree
<1>2. CASE Hide \/ Import \/ Collect \/ Analyze \/ Leave \/ Register
  <2>1. phase \in {"hide", "import", "collect", "analyze", "leave", "register"}
    BY <1>2 DEF Hide, Import, Collect, Analyze, Leave, Register
  <2>2. generated = {}
    BY <2>1 DEF HomeInvariant, UsesInvariant, WrittenInOrder
  <2>3. generated' = generated
    BY <1>2 DEF Hide, Import, Collect, Analyze, Leave, Register, code
  <2> QED
    BY <2>2, <2>3 DEF PlainUsesAgree
<1>3. CASE UNCHANGED vars
  BY <1>3 DEF PlainUsesAgree, Plain, ImportsInside, vars, code
<1> QED
  BY <1>1, <1>2, <1>3 DEF Next

(* The table, what analysis found in it and what the code generator looks  *)
(* up agree, module by module, when names are apart.                       *)
AgreeInvariant ==
  /\ HomeInvariant
  /\ Plainly => /\ GroundedTable(program, symbols) /\ HeldInOrder /\ GlobalsIn(scopes)
                /\ BoundGrounded /\ Registered /\ PlainUsesAgree

LEMMA AgreeInit == Init => AgreeInvariant
<1> SUFFICES ASSUME Init PROVE AgreeInvariant
  OBVIOUS
<1>1. HomeInvariant
  BY HomeInit
<1>2. GroundedTable(program, symbols)
  BY DEF Init, GroundedTable
<1>3. HeldInOrder
  <2>1. phase = "hide" /\ module = 1
    BY DEF Init
  <2>2. Held(module, 1)
    <3>1. program \in Programs
      BY DEF Init
    <3> QED
      BY <2>1, <3>1 DEF Held, Before
  <2> QED
    BY <2>1, <2>2 DEF HeldInOrder
<1>4. GlobalsIn(scopes) /\ BoundGrounded /\ Registered /\ PlainUsesAgree
  BY DEF Init, GlobalsIn, In, BoundGrounded, Registered, PlainUsesAgree
<1> QED
  BY <1>1, <1>2, <1>3, <1>4 DEF AgreeInvariant

LEMMA AgreeKept == AgreeInvariant /\ [Next]_vars => AgreeInvariant'
<1> SUFFICES ASSUME AgreeInvariant, [Next]_vars PROVE AgreeInvariant'
  OBVIOUS
<1>1. HomeInvariant /\ HomeInvariant'
  BY HomeStep DEF AgreeInvariant
<1>2. UNCHANGED program
  BY DEF Next, Hide, Import, Collect, Analyze, Leave, Register, Generate, vars
<1> SUFFICES ASSUME Plainly'
             PROVE  (/\ GroundedTable(program, symbols) /\ HeldInOrder /\ GlobalsIn(scopes)
                     /\ BoundGrounded /\ Registered /\ PlainUsesAgree)'
  BY <1>1 DEF AgreeInvariant
<1>3. Plainly
  BY <1>2 DEF Plainly, ImportsInside
<1>4. /\ GroundedTable(program, symbols) /\ HeldInOrder /\ GlobalsIn(scopes)
      /\ BoundGrounded /\ Registered /\ PlainUsesAgree
  BY <1>3 DEF AgreeInvariant
<1>5. GroundedTable(program, symbols')
  BY <1>1, <1>3, <1>4, TableStep, TableGrows
<1>6. GroundedTable(program, symbols)'
  BY <1>2, <1>5
<1>7. HeldInOrder' /\ BoundGrounded' /\ Registered'
  BY <1>1, <1>3, <1>4, HeldStep, BoundStep, RegisteredStep
<1>8. PlainUsesAgree'
  BY <1>1, <1>3, <1>4, AgreeStep DEF Plainly
<1>9. GlobalsIn(scopes)'
  <2>1. NamesInvariant
    BY <1>1 DEF HomeInvariant, UsesInvariant
  <2>2. GlobalsIn(scopes')
    BY <1>3, <1>4, <2>1, GlobalsStep DEF Plainly
  <2> QED
    BY <2>2 DEF GlobalsIn, In
<1> QED
  BY <1>6, <1>7, <1>8, <1>9

(* Analysis and code generation read every plain use the same way, in any  *)
(* program whose names are apart: functions come with their bodies, no     *)
(* module's path leads into another's, no namespace has a name of those    *)
(* around another, a type's name is not a namespace's and is of one kind,  *)
(* and structs stand outside of the namespaces in a module.                *)
THEOREM PlainUsesMeanTheSame == Spec => [](NamesApart(program) => PlainUsesAgree)
<1>1. AgreeInvariant => (NamesApart(program) => PlainUsesAgree)
  <2> SUFFICES ASSUME AgreeInvariant, NamesApart(program) PROVE PlainUsesAgree
    OBVIOUS
  <2>1. CASE ImportsInside
    BY <2>1 DEF PlainUsesAgree, Plain
  <2>2. CASE ~ImportsInside
    BY <2>2 DEF AgreeInvariant, Plainly
  <2> QED
    BY <2>1, <2>2
<1> QED
  BY <1>1, AgreeInit, AgreeKept, PTL DEF Spec
=============================================================================
