----------------------------- MODULE BackendProofs -----------------------------
(***************************************************************************)
(* Proofs about the code for AArch64: whatever the program, every          *)
(* instruction leaves the stack pointer a multiple of 16 bytes, since      *)
(* nothing but the code that makes and drops frames moves it.              *)
(***************************************************************************)
EXTENDS Backend, SequenceTheorems, WellFoundedInduction, TLAPS

(* A set of numbers has a least element. *)
LEMMA LeastOf ==
  ASSUME NEW T \in SUBSET Nat, T # {}
  PROVE  \E x \in T : \A y \in T : x <= y
<1> DEFINE R == OpToRel(<, Nat)
<1>1. IsWellFoundedOn(R, Nat)
  BY NatLessThanWellFounded
<1>2. \A x, y \in Nat : y < x => <<y, x>> \in R
  BY DEF OpToRel
<1> HIDE DEF R
<1>3. PICK x \in T : \A y \in T : ~ (<<y, x>> \in R)
  BY <1>1, WFMin
<1>4. ASSUME NEW y \in T PROVE x <= y
  <2>1. ~ (<<y, x>> \in R)
    BY <1>3
  <2>2. ~ (y < x)
    BY <1>2, <2>1, Zenon
  <2> QED
    BY <2>2
<1> QED
  BY <1>4

-----------------------------------------------------------------------------
(* Functions defined by recursion over an interval *)

Iteration(start, step, a, n, f) ==
  f = [i \in a .. n |-> IF i = a THEN start ELSE step[<<i, f[i - 1]>>]]

LEMMA IterationExists ==
  ASSUME NEW start, NEW step, NEW a \in Nat, NEW n \in Nat, a <= n
  PROVE  \E f : Iteration(start, step, a, n, f)
<1> DEFINE T == {k \in Nat : a <= k /\ ~ \E f : Iteration(start, step, a, k, f)}
<1> SUFFICES ASSUME T # {} PROVE FALSE
  OBVIOUS
<1>1. PICK k \in T : \A j \in T : k <= j
  BY LeastOf
<1>2. k # a
  <2>1. Iteration(start, step, a, a, [i \in a .. a |-> start])
    BY DEF Iteration
  <2> QED
    BY <1>1, <2>1
<1>3. k - 1 \in Nat /\ a <= k - 1 /\ k - 1 \notin T
  BY <1>1, <1>2
<1>4. PICK g : Iteration(start, step, a, k - 1, g)
  BY <1>3
<1> DEFINE h == [i \in a .. k |-> IF i = k THEN step[<<k, g[k - 1]>>] ELSE g[i]]
<1>5. ASSUME NEW i \in a .. k
      PROVE  h[i] = IF i = a THEN start ELSE step[<<i, h[i - 1]>>]
  <2>1. CASE i = k
    <3>1. k - 1 \in a .. k /\ k - 1 # k /\ i # a
      BY <1>2, <1>3, <2>1
    <3> QED
      BY <2>1, <3>1
  <2>2. CASE i # k
    <3>1. i \in a .. (k - 1)
      BY <1>3, <2>2
    <3>2. g[i] = IF i = a THEN start ELSE step[<<i, g[i - 1]>>]
      BY <1>4, <3>1 DEF Iteration
    <3>3. i # a => i - 1 \in a .. k /\ i - 1 # k
      BY <1>3, <3>1
    <3> QED
      BY <2>2, <3>2, <3>3
  <2> QED
    BY <2>1, <2>2
<1>6. Iteration(start, step, a, k, h)
  <2> DEFINE e == [i \in a .. k |-> IF i = a THEN start ELSE step[<<i, h[i - 1]>>]]
  <2>1. DOMAIN h = a .. k /\ h = [i \in a .. k |-> h[i]]
    OBVIOUS
  <2> HIDE DEF h
  <2>2. h = e
    BY <1>5, <2>1
  <2> QED
    BY <2>2 DEF Iteration
<1> QED
  BY <1>1, <1>6

(* Its values stay where the step stays. *)
LEMMA IterationType ==
  ASSUME NEW V, NEW start \in V, NEW a \in Nat, NEW n \in Nat, NEW step, NEW f,
         Iteration(start, step, a, n, f),
         \A i \in a .. n : \A x \in V : step[<<i, x>>] \in V
  PROVE  f \in [a .. n -> V]
<1> DEFINE T == {k \in a .. n : f[k] \notin V}
<1>1. DOMAIN f = a .. n /\ \A i \in a .. n : f[i] = IF i = a THEN start ELSE step[<<i, f[i - 1]>>]
  BY DEF Iteration
<1>2. T = {}
  <2> SUFFICES ASSUME T # {} PROVE FALSE
    OBVIOUS
  <2>1. T \in SUBSET Nat
    OBVIOUS
  <2>2. PICK k \in T : \A j \in T : k <= j
    BY <2>1, LeastOf
  <2>3. k \in a .. n /\ f[k] \notin V
    BY <2>2
  <2>4. k # a
    BY <1>1, <2>3
  <2>5. k - 1 \in a .. n /\ k - 1 \notin T
    BY <2>2, <2>3, <2>4
  <2>6. f[k - 1] \in V
    BY <2>5
  <2> QED
    BY <1>1, <2>3, <2>4, <2>6
<1>3. f = [i \in a .. n |-> f[i]]
  BY DEF Iteration
<1> QED
  BY <1>2, <1>3

(* FlattenSeq puts one sequence behind the other. *)
LEMMA FlattenSteps ==
  ASSUME NEW S, NEW ss, Len(ss) \in Nat \ {0}, \A i \in 1 .. Len(ss) : ss[i] \in Seq(S)
  PROVE  \E f \in [1 .. Len(ss) -> Seq(S)] :
           /\ A!FlattenSeq(ss) = f[Len(ss)] /\ f[1] = ss[1]
           /\ \A i \in 2 .. Len(ss) : f[i] = f[i - 1] \o ss[i]
<1> DEFINE n == Len(ss)
           Flattens(f) == f = [i \in 1 .. n |-> IF i = 1 THEN ss[i] ELSE f[i - 1] \o ss[i]]
           W(f) == Seq(S) \cup {f[i] : i \in 1 .. n}
           step(f) == [p \in (1 .. n) \X W(f) |-> p[2] \o ss[p[1]]]
           flatten == CHOOSE f : Flattens(f)
<1>1. A!FlattenSeq(ss) = flatten[n]
  BY DEF A!FlattenSeq
<1>2. ASSUME NEW f, NEW i \in 1 .. n, NEW x \in W(f) PROVE step(f)[<<i, x>>] = x \o ss[i]
  OBVIOUS
<1>3. ASSUME NEW f, NEW i \in 1 .. n, NEW x \in Seq(S) PROVE step(f)[<<i, x>>] \in Seq(S)
  BY <1>2, ConcatProperties
<1>4. ss[1] \in Seq(S) /\ 1 \in Nat /\ n \in Nat /\ 1 <= n /\ \A f : Seq(S) \subseteq W(f)
  OBVIOUS
<1> HIDE DEF step
<1>5. \E f : Flattens(f)
  <2> DEFINE g == [i \in 1 .. n |-> << >>]
  <2>1. PICK f : Iteration(ss[1], step(g), 1, n, f)
    BY <1>4, IterationExists
  <2>2. \A i \in 1 .. n : \A x \in Seq(S) : step(g)[<<i, x>>] \in Seq(S)
    BY <1>3
  <2>3. f \in [1 .. n -> Seq(S)]
    <3> HIDE DEF g
    <3> QED
      BY <1>4, <2>1, <2>2, IterationType
  <2>4. f = [i \in 1 .. n |-> IF i = 1 THEN ss[1] ELSE step(g)[<<i, f[i - 1]>>]]
    BY <2>1 DEF Iteration
  <2>5. ASSUME NEW i \in 1 .. n, i # 1 PROVE step(g)[<<i, f[i - 1]>>] = f[i - 1] \o ss[i]
    <3>1. f[i - 1] \in W(g)
      BY <2>3, <2>5
    <3> QED
      BY <1>2, <3>1
  <2>6. f = [i \in 1 .. n |-> IF i = 1 THEN ss[i] ELSE f[i - 1] \o ss[i]]
    BY <2>4, <2>5
  <2> QED
    BY <2>6
<1>6. Flattens(flatten)
  BY <1>5
<1>7. Iteration(ss[1], step(flatten), 1, n, flatten)
  <2> HIDE DEF flatten
  <2>1. ASSUME NEW i \in 1 .. n, i # 1 PROVE step(flatten)[<<i, flatten[i - 1]>>] = flatten[i - 1] \o ss[i]
    <3>1. flatten[i - 1] \in W(flatten)
      BY <2>1
    <3> QED
      BY <1>2, <3>1
  <2>2. flatten = [i \in 1 .. n |-> IF i = 1 THEN ss[1] ELSE step(flatten)[<<i, flatten[i - 1]>>]]
    BY <1>6, <2>1
  <2> QED
    BY <2>2 DEF Iteration
<1>8. \A i \in 1 .. n : \A x \in Seq(S) : step(flatten)[<<i, x>>] \in Seq(S)
  BY <1>3
<1>9. flatten \in [1 .. n -> Seq(S)]
  <2> HIDE DEF flatten
  <2> QED
    BY <1>4, <1>7, <1>8, IterationType
<1> HIDE DEF flatten
<1>10. \A i \in 1 .. n : flatten[i] = IF i = 1 THEN ss[i] ELSE flatten[i - 1] \o ss[i]
  BY <1>6
<1>11. flatten[1] = ss[1] /\ \A i \in 2 .. n : flatten[i] = flatten[i - 1] \o ss[i]
  <2>1. 1 \in 1 .. n /\ \A i \in 2 .. n : i \in 1 .. n /\ i # 1
    BY <1>4
  <2> QED
    BY <1>10, <2>1
<1> QED
  BY <1>1, <1>9, <1>11

(* Of lists it makes a list. *)
LEMMA FlattenType ==
  ASSUME NEW S, NEW ss, IsList(ss), \A i \in DOMAIN ss : ss[i] \in Seq(S)
  PROVE  A!FlattenSeq(ss) \in Seq(S)
<1>1. DOMAIN ss = 1 .. Len(ss) /\ Len(ss) \in Nat
  BY DEF IsList
<1>2. CASE Len(ss) = 0
  <2>1. A!FlattenSeq(ss) = ss
    BY <1>2 DEF A!FlattenSeq
  <2>2. ss = << >>
    BY <1>1, <1>2 DEF IsList
  <2> QED
    BY <2>1, <2>2
<1>3. CASE Len(ss) # 0
  <2>1. PICK f \in [1 .. Len(ss) -> Seq(S)] : A!FlattenSeq(ss) = f[Len(ss)]
    BY <1>1, <1>3, FlattenSteps
  <2>2. Len(ss) \in 1 .. Len(ss)
    BY <1>1, <1>3
  <2> QED
    BY <2>1, <2>2
<1> QED
  BY <1>2, <1>3

LEMMA FunctionIsList ==
  ASSUME NEW n \in Nat, NEW s, s = [i \in 1 .. n |-> s[i]]
  PROVE  IsList(s) /\ DOMAIN s = 1 .. n /\ Len(s) = n
<1> DEFINE R == {s[i] : i \in 1 .. n}
<1>1. DOMAIN s = 1 .. n /\ \A i \in 1 .. n : s[i] \in R
  OBVIOUS
<1> HIDE DEF R
<1>2. s \in Seq(R)
  BY <1>1
<1> QED
  BY <1>1, <1>2 DEF R, IsList

LEMMA SeqIsList ==
  ASSUME NEW S, NEW s \in Seq(S)
  PROVE  IsList(s) /\ \A i \in DOMAIN s : s[i] \in S
BY DEF IsList

(* It has no elements but theirs. *)
LEMMA FlattenElements ==
  ASSUME NEW ss, IsList(ss), \A i \in DOMAIN ss : IsList(ss[i])
  PROVE  \E S : /\ A!FlattenSeq(ss) \in Seq(S)
                /\ \A x \in S : \E i \in DOMAIN ss : \E j \in DOMAIN ss[i] : x = ss[i][j]
<1> DEFINE S == UNION {{ss[i][j] : j \in DOMAIN ss[i]} : i \in DOMAIN ss}
<1>1. \A i \in DOMAIN ss : {ss[i][j] : j \in DOMAIN ss[i]} \subseteq S
  OBVIOUS
<1>2. ASSUME NEW i \in DOMAIN ss PROVE ss[i] \in Seq(S)
  <2> DEFINE T == {ss[i][j] : j \in DOMAIN ss[i]}
  <2>1. ss[i] \in Seq(T) /\ T \subseteq S
    BY <1>1 DEF IsList
  <2> HIDE DEF S, T
  <2> QED
    BY <2>1
<1>3. \A x \in S : \E i \in DOMAIN ss : \E j \in DOMAIN ss[i] : x = ss[i][j]
  OBVIOUS
<1> HIDE DEF S
<1>4. A!FlattenSeq(ss) \in Seq(S)
  BY <1>2, FlattenType
<1> QED
  BY <1>3, <1>4

-----------------------------------------------------------------------------
(* Instructions that leave the stack pointer alone or move it by 16 bytes  *)
(* at a time                                                               *)

Keeps(x) ==
  /\ "i" \in DOMAIN x
  /\ x.i \notin {"push", "pop", "leave", "import"}
  /\ x.i \in {"imm", "lea", "load", "loadAt", "loadHalf", "alu", "ext"} => x.r # "sp"
  /\ x.i = "sp" => x.n \in Int /\ x.n % 2 = 0

AllKeep(s) == \E S : s \in Seq(S) /\ \A x \in S : Keeps(x)

LEMMA InstructionsKeep ==
  /\ \A r, b, o : r # "sp" => Keeps(A!Load(r, b, o)) /\ Keeps(A!LoadHalf(r, b, o)) /\ Keeps(A!Lea(r, b, o))
  /\ \A r, w : r # "sp" => Keeps(A!Imm(r, w)) /\ Keeps(A!Addr(r, w)) /\ Keeps(A!Garbled(r))
  /\ \A b, o, r : Keeps(A!Store(b, o, r)) /\ Keeps(A!StoreHalf(b, o, r))
  /\ \A op, r, a, b : r # "sp" => Keeps(A!Alu(op, r, a, b)) /\ Keeps(A!Ext(r, op, a, b))
  /\ \A l, r : Keeps(A!Jmp(l)) /\ Keeps(A!Jnz(r, l)) /\ Keeps(A!Mark(l)) /\ Keeps(A!Define(l)) /\ Keeps(A!Call(l))
  /\ Keeps(A!Syscall) /\ Keeps(A!Ret)
<1>1. \A r, b, o : r # "sp" => Keeps(A!Load(r, b, o)) /\ Keeps(A!LoadHalf(r, b, o)) /\ Keeps(A!Lea(r, b, o))
  BY DEF Keeps, A!Load, A!LoadHalf, A!Lea
<1>2. \A r, w : r # "sp" => Keeps(A!Imm(r, w)) /\ Keeps(A!Addr(r, w)) /\ Keeps(A!Garbled(r))
  BY DEF Keeps, A!Imm, A!Addr, A!Garbled
<1>3. \A b, o, r : Keeps(A!Store(b, o, r)) /\ Keeps(A!StoreHalf(b, o, r))
  BY DEF Keeps, A!Store, A!StoreHalf
<1>4. \A op, r, a, b : r # "sp" => Keeps(A!Alu(op, r, a, b)) /\ Keeps(A!Ext(r, op, a, b))
  BY DEF Keeps, A!Alu, A!Ext
<1>5. \A l, r : Keeps(A!Jmp(l)) /\ Keeps(A!Jnz(r, l)) /\ Keeps(A!Mark(l)) /\ Keeps(A!Define(l)) /\ Keeps(A!Call(l))
  BY DEF Keeps, A!Jmp, A!Jnz, A!Mark, A!Define, A!Call
<1>6. Keeps(A!Syscall) /\ Keeps(A!Ret)
  BY DEF Keeps, A!Syscall, A!Ret
<1> QED
  BY <1>1, <1>2, <1>3, <1>4, <1>5, <1>6

(* The instructions that read slots and move words between registers. *)
LEMMA SlotsKeep ==
  /\ \A fn, r, t : r # "sp" => Keeps(A!LdrTemp(fn, r, t)) /\ Keeps(A!StrTemp(fn, t, r))
  /\ \A r, b, o : r # "sp" => Keeps(A!Ldur(r, b, o)) /\ Keeps(A!AddImm(r, b, o)) /\ Keeps(A!SubImm(r, b, o))
<1>1. \A fn, r, t : r # "sp" => Keeps(A!LdrTemp(fn, r, t)) /\ Keeps(A!StrTemp(fn, t, r))
  BY InstructionsKeep DEF A!LdrTemp, A!StrTemp
<1>2. \A r, b, o : r # "sp" => Keeps(A!Ldur(r, b, o)) /\ Keeps(A!AddImm(r, b, o)) /\ Keeps(A!SubImm(r, b, o))
  BY InstructionsKeep DEF A!Ldur, A!AddImm, A!SubImm
<1> QED
  BY <1>1, <1>2

LEMMA EvenKeeps ==
  ASSUME NEW n \in Int, A!FitsImm12(A!X!Align2(n))
  PROVE  Keeps(A!SubSP(A!X!Align2(n))) /\ Keeps(A!AddSP(A!X!Align2(n)))
<1> DEFINE h == (n + 1) \div 2
<1>1. A!X!Align2(n) = h * 2 /\ h \in Int
  BY DEF A!X!Align2
<1> HIDE DEF h
<1>2. (h * 2) % 2 = 0 /\ (-(h * 2)) % 2 = 0 /\ h * 2 \in Int /\ -(h * 2) \in Int
  BY <1>1
<1>3. A!SubSP(h * 2) = A!SubSp(h * 2) /\ A!AddSP(h * 2) = A!AddSp(h * 2)
  BY <1>1 DEF A!SubSP, A!AddSP
<1>4. Keeps(A!SubSp(h * 2)) /\ Keeps(A!AddSp(h * 2))
  BY <1>2 DEF Keeps, A!SubSp, A!AddSp
<1> QED
  BY <1>1, <1>3, <1>4

(* Lists of them. *)
LEMMA KeepOf ==
  ASSUME NEW S, NEW s \in Seq(S), \A x \in S : Keeps(x)
  PROVE  AllKeep(s)
BY DEF AllKeep

LEMMA NoneKeep == AllKeep(<< >>)
<1> DEFINE S == {}
<1>1. << >> \in Seq(S) /\ \A x \in S : Keeps(x)
  OBVIOUS
<1> HIDE DEF S
<1> QED
  BY <1>1, KeepOf

LEMMA OneKeeps ==
  ASSUME NEW a, Keeps(a)
  PROVE  AllKeep(<<a>>)
<1> DEFINE S == {a}
<1>1. <<a>> \in Seq(S) /\ \A x \in S : Keeps(x)
  OBVIOUS
<1> HIDE DEF S
<1> QED
  BY <1>1, KeepOf

LEMMA TwoKeep ==
  ASSUME NEW a, NEW b, Keeps(a), Keeps(b)
  PROVE  AllKeep(<<a, b>>)
<1> DEFINE S == {a, b}
<1>1. <<a, b>> \in Seq(S) /\ \A x \in S : Keeps(x)
  OBVIOUS
<1> HIDE DEF S
<1> QED
  BY <1>1, KeepOf

LEMMA ThreeKeep ==
  ASSUME NEW a, NEW b, NEW c, Keeps(a), Keeps(b), Keeps(c)
  PROVE  AllKeep(<<a, b, c>>)
<1> DEFINE S == {a, b, c}
<1>1. <<a, b, c>> \in Seq(S) /\ \A x \in S : Keeps(x)
  OBVIOUS
<1> HIDE DEF S
<1> QED
  BY <1>1, KeepOf

LEMMA FourKeep ==
  ASSUME NEW a, NEW b, NEW c, NEW d, Keeps(a), Keeps(b), Keeps(c), Keeps(d)
  PROVE  AllKeep(<<a, b, c, d>>)
<1> DEFINE S == {a, b, c, d}
<1>1. <<a, b, c, d>> \in Seq(S) /\ \A x \in S : Keeps(x)
  OBVIOUS
<1> HIDE DEF S
<1> QED
  BY <1>1, KeepOf

LEMMA FiveKeep ==
  ASSUME NEW a, NEW b, NEW c, NEW d, NEW e, Keeps(a), Keeps(b), Keeps(c), Keeps(d), Keeps(e)
  PROVE  AllKeep(<<a, b, c, d, e>>)
<1> DEFINE S == {a, b, c, d, e}
<1>1. <<a, b, c, d, e>> \in Seq(S) /\ \A x \in S : Keeps(x)
  OBVIOUS
<1> HIDE DEF S
<1> QED
  BY <1>1, KeepOf

LEMMA FourteenKeep ==
  ASSUME NEW a, NEW b, NEW c, NEW d, NEW e, NEW f, NEW g, NEW h, NEW i, NEW j, NEW k, NEW l,
         NEW m, NEW n, Keeps(a), Keeps(b), Keeps(c), Keeps(d), Keeps(e), Keeps(f), Keeps(g),
         Keeps(h), Keeps(i), Keeps(j), Keeps(k), Keeps(l), Keeps(m), Keeps(n)
  PROVE  AllKeep(<<a, b, c, d, e, f, g, h, i, j, k, l, m, n>>)
<1> DEFINE S == {a, b, c, d, e, f, g, h, i, j, k, l, m, n}
<1>1. <<a, b, c, d, e, f, g, h, i, j, k, l, m, n>> \in Seq(S) /\ \A x \in S : Keeps(x)
  OBVIOUS
<1> HIDE DEF S
<1> QED
  BY <1>1, KeepOf

LEMMA EighteenKeep ==
  ASSUME NEW a, NEW b, NEW c, NEW d, NEW e, NEW f, NEW g, NEW h, NEW i, NEW j, NEW k, NEW l,
         NEW m, NEW n, NEW o, NEW p, NEW q, NEW r, Keeps(a), Keeps(b), Keeps(c), Keeps(d),
         Keeps(e), Keeps(f), Keeps(g), Keeps(h), Keeps(i), Keeps(j), Keeps(k), Keeps(l),
         Keeps(m), Keeps(n), Keeps(o), Keeps(p), Keeps(q), Keeps(r)
  PROVE  AllKeep(<<a, b, c, d, e, f, g, h, i, j, k, l, m, n, o, p, q, r>>)
<1> DEFINE S == {a, b, c, d, e, f, g, h, i, j, k, l, m, n, o, p, q, r}
<1>1. <<a, b, c, d, e, f, g, h, i, j, k, l, m, n, o, p, q, r>> \in Seq(S) /\ \A x \in S : Keeps(x)
  OBVIOUS
<1> HIDE DEF S
<1> QED
  BY <1>1, KeepOf

LEMMA ConcatKeeps ==
  ASSUME NEW s, NEW t, AllKeep(s), AllKeep(t)
  PROVE  AllKeep(s \o t)
<1>1. PICK S : s \in Seq(S) /\ \A x \in S : Keeps(x)
  BY DEF AllKeep
<1>2. PICK T : t \in Seq(T) /\ \A x \in T : Keeps(x)
  BY DEF AllKeep
<1>3. s \o t \in Seq(S \cup T) /\ \A x \in S \cup T : Keeps(x)
  BY <1>1, <1>2
<1> QED
  BY <1>3, KeepOf

LEMMA FlattenKeeps ==
  ASSUME NEW ss, IsList(ss), \A i \in DOMAIN ss : AllKeep(ss[i])
  PROVE  AllKeep(A!FlattenSeq(ss))
<1>1. ASSUME NEW i \in DOMAIN ss PROVE IsList(ss[i]) /\ \A j \in DOMAIN ss[i] : Keeps(ss[i][j])
  <2>1. PICK T : ss[i] \in Seq(T) /\ \A x \in T : Keeps(x)
    BY DEF AllKeep
  <2> QED
    BY <2>1 DEF IsList
<1>2. PICK S : /\ A!FlattenSeq(ss) \in Seq(S)
               /\ \A x \in S : \E i \in DOMAIN ss : \E j \in DOMAIN ss[i] : x = ss[i][j]
  BY <1>1, FlattenElements
<1>3. \A x \in S : Keeps(x)
  BY <1>1, <1>2
<1> QED
  BY <1>2, <1>3, KeepOf

-----------------------------------------------------------------------------
(* The emitters *)

LEMMA LocalKeeps ==
  ASSUME NEW fn, NEW x, x.op \in {"loadConst", "loadLocal", "storeLocal", "addrOf"}
  PROVE  AllKeep(A!EmitLocal(fn, x))
<1>1. CASE x.op = "loadConst"
  BY <1>1, InstructionsKeep, SlotsKeep, TwoKeep DEF A!EmitLocal
<1>2. CASE x.op = "loadLocal"
  BY <1>2, InstructionsKeep, SlotsKeep, TwoKeep DEF A!EmitLocal
<1>3. CASE x.op = "storeLocal"
  BY <1>3, InstructionsKeep, SlotsKeep, TwoKeep DEF A!EmitLocal
<1>4. CASE x.op = "addrOf"
  BY <1>4, InstructionsKeep, SlotsKeep, TwoKeep DEF A!EmitLocal
<1> QED
  BY <1>1, <1>2, <1>3, <1>4

LEMMA ElementKeeps ==
  ASSUME NEW fn, NEW x, x.op \in A!X!Elements
  PROVE  AllKeep(A!EmitElement(fn, x))
<1>1. CASE x.op = "getField"
  BY <1>1, SlotsKeep, ThreeKeep DEF A!EmitElement
<1>2. CASE x.op = "setField"
  BY <1>2, InstructionsKeep, SlotsKeep, ThreeKeep DEF A!EmitElement
<1>3. CASE x.op = "loadElement"
  BY <1>3, InstructionsKeep, SlotsKeep, FiveKeep DEF A!EmitElement
<1>4. CASE x.op = "storeElement"
  BY <1>4, InstructionsKeep, SlotsKeep, FiveKeep DEF A!EmitElement
<1> QED
  BY <1>1, <1>2, <1>3, <1>4 DEF A!X!Elements

LEMMA StorageKeeps ==
  ASSUME NEW at, NEW fn, NEW x, x.op \in A!X!Storage
  PROVE  AllKeep(A!EmitStorage(at, fn, x))
<1>1. CASE x.op = "regionBegin"
  <2>1. AllKeep(A!EmitRegionBegin(x))
    BY InstructionsKeep, FourteenKeep DEF A!EmitRegionBegin
  <2> QED
    BY <1>1, <2>1 DEF A!EmitStorage
<1>2. CASE x.op = "regionAlloc"
  <2>1. AllKeep(A!EmitRegionAlloc(at, fn, x))
    BY InstructionsKeep, SlotsKeep, EighteenKeep DEF A!EmitRegionAlloc
  <2> QED
    BY <1>2, <2>1 DEF A!EmitStorage
<1>3. CASE x.op = "regionEnd"
  <2>1. AllKeep(A!EmitRegionEnd(x))
    BY InstructionsKeep, SlotsKeep, FiveKeep DEF A!EmitRegionEnd
  <2> QED
    BY <1>3, <2>1 DEF A!EmitStorage
<1>4. CASE x.op = "alloca"
  BY <1>4, SlotsKeep, TwoKeep DEF A!EmitStorage
<1>5. CASE x.op = "loadGlobal"
  BY <1>5, InstructionsKeep, SlotsKeep, ThreeKeep DEF A!EmitStorage
<1>6. CASE x.op = "storeGlobal"
  BY <1>6, InstructionsKeep, SlotsKeep, ThreeKeep DEF A!EmitStorage
<1>7. CASE x.op = "loadGlobalAddr"
  BY <1>7, InstructionsKeep, SlotsKeep, TwoKeep DEF A!EmitStorage
<1> QED
  BY <1>1, <1>2, <1>3, <1>4, <1>5, <1>6, <1>7 DEF A!X!Storage

LEMMA CastKeeps ==
  ASSUME NEW fn, NEW x
  PROVE  AllKeep(A!EmitCast(fn, x))
<1>1. AllKeep(A!Convert(x.from, x.to))
  <2>1. AllKeep(<<A!LoadHalf("x0", "sp", 0)>>)
    BY InstructionsKeep, OneKeeps
  <2>2. \A size, signed : AllKeep(<<A!Ext("x0", "x0", size, signed)>>)
    BY InstructionsKeep, OneKeeps
  <2>3. AllKeep(<<A!StoreHalf("sp", 0, "x0"), A!Ldur("x0", "sp", 0)>>)
    BY InstructionsKeep, SlotsKeep, TwoKeep
  <2> QED
    BY <2>1, <2>2, <2>3, NoneKeep DEF A!Convert
<1>2. AllKeep(<<A!LdrTemp(fn, "x0", x.src)>>) /\ AllKeep(<<A!StrTemp(fn, x.dst, "x0")>>)
  BY SlotsKeep, OneKeeps
<1> QED
  BY <1>1, <1>2, ConcatKeeps DEF A!EmitCast

LEMMA BinopKeeps ==
  ASSUME NEW fn, NEW x
  PROVE  AllKeep(A!EmitBinop(fn, x))
BY InstructionsKeep, SlotsKeep, FourKeep DEF A!EmitBinop

(* Frames that fit the operand of the instruction that makes them, which   *)
(* has 12 bits: those of functions and those for arguments on the stack.   *)
FramesFit(p) ==
  \A f \in DOMAIN p :
    /\ A!FitsImm12(A!FrameSize(p[f]))
    /\ \A k \in DOMAIN p[f].body :
         LET x == p[f].body[k]
         IN  x.op = "call" => A!FitsImm12(A!X!Align2(A!StackCount(x)))

LEMMA CallKeeps ==
  ASSUME NEW p, NEW fn, NEW x, IsList(x.args), x.sret \in BOOLEAN,
         A!FitsImm12(A!X!Align2(A!StackCount(x)))
  PROVE  AllKeep(A!EmitCall(p, fn, x))
<1> DEFINE n == Len(x.args)
           c == A!StackCount(x)
           frame == A!X!Align2(c)
<1>1. n \in Nat /\ c \in Nat /\ A!MaxReg(x.sret) \in {7, 8}
  BY DEF IsList, A!StackCount, A!MaxReg
<1>2. AllKeep(A!X!IfAny(frame, A!SubSP(frame))) /\ AllKeep(A!X!IfAny(frame, A!AddSP(frame)))
  BY <1>1, EvenKeeps, OneKeeps, NoneKeep DEF A!X!IfAny
<1>3. AllKeep(A!StackArgs(fn, x))
  <2> DEFINE Pass(i) == <<A!LdrTemp(fn, "x9", x.args[i]), A!Store("sp", i - 1 - A!MaxReg(x.sret), "x9")>>
             ss == [j \in 1 .. c |-> Pass(n + 1 - j)]
  <2>1. \A i : AllKeep(Pass(i))
    BY InstructionsKeep, SlotsKeep, TwoKeep
  <2>2. IsList(ss)
    <3> HIDE DEF Pass
    <3>1. ss = [j \in 1 .. c |-> ss[j]]
      OBVIOUS
    <3> HIDE DEF ss, c
    <3> QED
      BY <1>1, <3>1, FunctionIsList
  <2>3. \A j \in DOMAIN ss : AllKeep(ss[j])
    BY <2>1
  <2>4. A!StackArgs(fn, x) = A!FlattenSeq(ss)
    BY DEF A!StackArgs
  <2> HIDE DEF ss
  <2> QED
    BY <2>2, <2>3, <2>4, FlattenKeeps
<1>4. AllKeep(A!RegArgs(fn, x))
  <2> DEFINE first == IF x.sret THEN 1 ELSE 0
             count == IF n - first > A!MaxReg(x.sret) THEN A!MaxReg(x.sret) ELSE n - first
             S == {A!LdrTemp(fn, A!ArgReg(i), x.args[i + first]) : i \in 1 .. count}
             s == [i \in 1 .. count |-> A!LdrTemp(fn, A!ArgReg(i), x.args[i + first])]
             target_ == IF x.sret THEN <<A!LdrTemp(fn, "x8", x.args[1])>> ELSE << >>
  <2>1. count \in Int /\ count <= 8
    <3>1. first \in {0, 1}
      OBVIOUS
    <3> DEFINE m == A!MaxReg(x.sret)
    <3>2. m \in {7, 8}
      BY <1>1
    <3> HIDE DEF first, m, n
    <3>3. (IF n - first > m THEN m ELSE n - first) \in Int /\ (IF n - first > m THEN m ELSE n - first) <= 8
      BY <1>1, <3>1, <3>2
    <3> QED
      BY <3>3 DEF m
  <2>2. \A i \in 1 .. count : A!ArgReg(i) # "sp"
    <3> HIDE DEF count
    <3>1. \A i \in 1 .. count : i \in 1 .. 8
      BY <2>1
    <3> QED
      BY <3>1 DEF A!ArgReg
  <2>3. \A y \in S : Keeps(y)
    BY <2>2, SlotsKeep
  <2>4. s \in Seq(S)
    <3>1. CASE count \in Nat
      <4> HIDE DEF count
      <4> QED
        BY <3>1
    <3>2. CASE count \notin Nat
      <4> HIDE DEF count
      <4>1. 1 .. count = 1 .. 0
        BY <2>1, <3>2
      <4>2. s = [i \in 1 .. 0 |-> A!LdrTemp(fn, A!ArgReg(i), x.args[i + first])]
        BY <4>1
      <4> HIDE DEF s, S
      <4> QED
        BY <4>2
    <3> QED
      BY <3>1, <3>2
  <2>5. AllKeep(s)
    <3> HIDE DEF s, S
    <3> QED
      BY <2>3, <2>4, KeepOf
  <2>6. AllKeep(target_)
    BY SlotsKeep, OneKeeps, NoneKeep
  <2>7. A!RegArgs(fn, x) = target_ \o s
    BY DEF A!RegArgs
  <2> HIDE DEF s, target_
  <2> QED
    BY <2>5, <2>6, <2>7, ConcatKeeps
<1>5. AllKeep(<<A!Call(p[x.func].symbol)>>)
  BY InstructionsKeep, OneKeeps
<1>6. AllKeep(IF x.sret THEN << >> ELSE <<A!StrTemp(fn, x.dst, "x0")>>)
  BY SlotsKeep, OneKeeps, NoneKeep
<1>7. A!EmitCall(p, fn, x) =
        A!X!IfAny(frame, A!SubSP(frame)) \o A!StackArgs(fn, x) \o A!RegArgs(fn, x)
        \o <<A!Call(p[x.func].symbol)>> \o A!X!IfAny(frame, A!AddSP(frame))
        \o (IF x.sret THEN << >> ELSE <<A!StrTemp(fn, x.dst, "x0")>>)
  BY DEF A!EmitCall
<1> HIDE DEF frame
<1> QED
  BY <1>2, <1>3, <1>4, <1>5, <1>6, <1>7, ConcatKeeps

LEMMA ControlKeeps ==
  ASSUME NEW p, NEW f \in DOMAIN p, IsFunction(p[f]), FramesFit(p), NEW k \in DOMAIN p[f].body,
         p[f].body[k].op \in {"call", "return", "jump", "branch", "label"}
  PROVE  AllKeep(A!EmitControl(p, p[f], p[f].body[k]))
<1> DEFINE fn == p[f]
           x == fn.body[k]
<1>1. CASE x.op = "call"
  <2>1. IsList(x.args) /\ x.sret \in BOOLEAN /\ A!FitsImm12(A!X!Align2(A!StackCount(x)))
    BY <1>1 DEF IsFunction, IsInst, FramesFit
  <2>2. A!EmitControl(p, fn, x) = A!EmitCall(p, fn, x)
    BY <1>1 DEF A!EmitControl
  <2> HIDE DEF x, fn
  <2> QED
    BY <2>1, <2>2, CallKeeps DEF x, fn
<1>2. CASE x.op = "return"
  <2>1. Keeps(A!AddSP(A!FrameSize(fn)))
    BY EvenKeeps DEF IsFunction, FramesFit, A!FrameSize
  <2>2. AllKeep(A!EmitEpilogue(fn))
    BY <2>1, InstructionsKeep, FourKeep DEF A!EmitEpilogue
  <2>3. AllKeep(<<A!LdrTemp(fn, "x0", x.value)>>)
    BY SlotsKeep, OneKeeps
  <2>4. A!EmitControl(p, fn, x) = <<A!LdrTemp(fn, "x0", x.value)>> \o A!EmitEpilogue(fn)
    BY <1>2 DEF A!EmitControl
  <2> QED
    BY <2>2, <2>3, <2>4, ConcatKeeps
<1>3. CASE x.op = "jump"
  BY <1>3, InstructionsKeep, OneKeeps DEF A!EmitControl
<1>4. CASE x.op = "branch"
  BY <1>4, InstructionsKeep, SlotsKeep, ThreeKeep DEF A!EmitControl
<1>5. CASE x.op = "label"
  BY <1>5, InstructionsKeep, OneKeeps DEF A!EmitControl
<1> QED
  BY <1>1, <1>2, <1>3, <1>4, <1>5

LEMMA InstKeeps ==
  ASSUME NEW p, NEW f \in DOMAIN p, IsFunction(p[f]), FramesFit(p), NEW k \in DOMAIN p[f].body, NEW at
  PROVE  AllKeep(A!EmitInst(at, p, p[f], p[f].body[k]))
<1> DEFINE fn == p[f]
           x == fn.body[k]
<1>1. x.op \in Operations
  BY DEF IsFunction, IsInst
<1>2. CASE x.op = "binary"
  <2>1. A!EmitInst(at, p, fn, x) = A!EmitBinop(fn, x)
    BY <1>2 DEF A!EmitInst, A!X!Storage, A!X!Elements
  <2> QED
    BY <2>1, BinopKeeps
<1>3. CASE x.op = "cast"
  <2>1. A!EmitInst(at, p, fn, x) = A!EmitCast(fn, x)
    BY <1>3 DEF A!EmitInst, A!X!Storage, A!X!Elements
  <2> QED
    BY <2>1, CastKeeps
<1>4. CASE x.op \in {"loadConst", "loadLocal", "storeLocal", "addrOf"}
  <2>1. A!EmitInst(at, p, fn, x) = A!EmitLocal(fn, x)
    BY <1>4 DEF A!EmitInst, A!X!Storage, A!X!Elements
  <2> QED
    BY <1>4, <2>1, LocalKeeps
<1>5. CASE x.op \in A!X!Elements
  <2>1. A!EmitInst(at, p, fn, x) = A!EmitElement(fn, x)
    BY <1>5 DEF A!EmitInst, A!X!Storage, A!X!Elements
  <2> QED
    BY <1>5, <2>1, ElementKeeps
<1>6. CASE x.op \in A!X!Storage
  <2>1. A!EmitInst(at, p, fn, x) = A!EmitStorage(at, fn, x)
    BY <1>6 DEF A!EmitInst, A!X!Storage, A!X!Elements
  <2> QED
    BY <1>6, <2>1, StorageKeeps
<1>7. CASE x.op \in {"call", "return", "jump", "branch", "label"}
  <2>1. A!EmitInst(at, p, fn, x) = A!EmitControl(p, fn, x)
    BY <1>7 DEF A!EmitInst, A!X!Storage, A!X!Elements
  <2> QED
    BY <1>7, <2>1, ControlKeeps
<1> QED
  BY <1>1, <1>2, <1>3, <1>4, <1>5, <1>6, <1>7 DEF Operations, A!X!Elements, A!X!Storage

-----------------------------------------------------------------------------
(* Emitted code, whose elements are pairs of the place in the program and  *)
(* the instruction                                                         *)

EntriesKeep(s) == IsList(s) /\ \A i \in DOMAIN s : Keeps(s[i][2])

LEMMA EmittedKeeps ==
  ASSUME NEW from, NEW xs, AllKeep(xs)
  PROVE  EntriesKeep(A!Emitted(from, xs))
<1>1. PICK S : xs \in Seq(S) /\ \A x \in S : Keeps(x)
  BY DEF AllKeep
<1>2. DOMAIN xs = 1 .. Len(xs) /\ Len(xs) \in Nat /\ \A k \in DOMAIN xs : Keeps(xs[k])
  BY <1>1
<1> DEFINE e == A!Emitted(from, xs)
<1>3. e = [k \in 1 .. Len(xs) |-> e[k]] /\ \A k \in 1 .. Len(xs) : e[k][2] = xs[k]
  BY <1>2 DEF A!Emitted
<1> HIDE DEF e
<1>4. IsList(e) /\ DOMAIN e = 1 .. Len(xs)
  BY <1>2, <1>3, FunctionIsList
<1>5. EntriesKeep(e)
  BY <1>2, <1>3, <1>4 DEF EntriesKeep
<1> QED
  BY <1>5 DEF e

LEMMA ConcatEntries ==
  ASSUME NEW s, NEW t, EntriesKeep(s), EntriesKeep(t)
  PROVE  EntriesKeep(s \o t)
<1> DEFINE S == {s[i] : i \in DOMAIN s}
           T == {t[i] : i \in DOMAIN t}
<1>1. s \in Seq(S) /\ t \in Seq(T) /\ \A x \in S \cup T : Keeps(x[2])
  BY DEF EntriesKeep, IsList
<1> HIDE DEF S, T
<1>2. s \o t \in Seq(S \cup T)
  BY <1>1
<1> DEFINE c == s \o t
<1> HIDE DEF c
<1>3. IsList(c) /\ \A i \in DOMAIN c : c[i] \in S \cup T
  BY <1>2, SeqIsList DEF c
<1>4. EntriesKeep(c)
  BY <1>1, <1>3 DEF EntriesKeep
<1> QED
  BY <1>4 DEF c

LEMMA FlattenEntries ==
  ASSUME NEW ss, IsList(ss), \A i \in DOMAIN ss : EntriesKeep(ss[i])
  PROVE  EntriesKeep(A!FlattenSeq(ss))
<1>1. \A i \in DOMAIN ss : IsList(ss[i]) /\ \A j \in DOMAIN ss[i] : Keeps(ss[i][j][2])
  BY DEF EntriesKeep
<1>2. PICK S : /\ A!FlattenSeq(ss) \in Seq(S)
               /\ \A x \in S : \E i \in DOMAIN ss : \E j \in DOMAIN ss[i] : x = ss[i][j]
  BY <1>1, FlattenElements
<1>3. \A x \in S : Keeps(x[2])
  BY <1>1, <1>2
<1> DEFINE c == A!FlattenSeq(ss)
<1> HIDE DEF c
<1>4. c \in Seq(S)
  BY <1>2 DEF c
<1>5. IsList(c) /\ \A i \in DOMAIN c : c[i] \in S
  BY <1>4 DEF IsList
<1>6. EntriesKeep(c)
  BY <1>3, <1>5 DEF EntriesKeep
<1> QED
  BY <1>6 DEF c

LEMMA LinkKeeps ==
  ASSUME NEW e, EntriesKeep(e)
  PROVE  \A k \in DOMAIN A!Link(e).code : Keeps(A!Link(e).code[k])
<1> DEFINE ss == [k \in DOMAIN e |-> A!Room(e[k])]
           code == A!FlattenSeq(ss)
           Patched == {"jmp", "jnz", "call"}
<1>1. EntriesKeep(code)
  <2>1. IsList(ss) /\ DOMAIN ss = DOMAIN e
    <3>1. DOMAIN e = 1 .. Len(e) /\ Len(e) \in Nat
      BY DEF EntriesKeep, IsList
    <3>2. ss = [k \in 1 .. Len(e) |-> ss[k]]
      BY <3>1
    <3> HIDE DEF ss
    <3> QED
      BY <3>1, <3>2, FunctionIsList
  <2>2. ASSUME NEW k \in DOMAIN e PROVE EntriesKeep(A!Room(e[k]))
    <3>1. EntriesKeep(<<e[k]>>) /\ EntriesKeep(<< >>)
      <4>1. Keeps(e[k][2])
        BY DEF EntriesKeep
      <4>2. \A a : Keeps(a[2]) => EntriesKeep(<<a>>)
        BY DEF EntriesKeep, IsList
      <4>3. EntriesKeep(<< >>)
        BY DEF EntriesKeep, IsList
      <4> QED
        BY <4>1, <4>2, <4>3
    <3> QED
      BY <3>1 DEF A!Room
  <2>3. \A k \in DOMAIN ss : EntriesKeep(ss[k])
    BY <2>1, <2>2
  <2> HIDE DEF ss
  <2> QED
    BY <2>1, <2>3, FlattenEntries
<1>2. ASSUME NEW k \in DOMAIN A!Link(e).code
      PROVE  /\ k \in DOMAIN code
             /\ \E to : A!Link(e).code[k] =
                          IF code[k][2].i \in Patched THEN [code[k][2] EXCEPT !.to = to] ELSE code[k][2]
  BY DEF A!Link
<1>3. ASSUME NEW x, Keeps(x), x.i \in Patched, NEW to PROVE Keeps([x EXCEPT !.to = to])
  <2> DEFINE y == [x EXCEPT !.to = to]
  <2>1. DOMAIN y = DOMAIN x /\ y.i = x.i
    BY <1>3 DEF Keeps
  <2>2. y.i \in Patched
    BY <1>3, <2>1
  <2> HIDE DEF y
  <2>3. Keeps(y)
    BY <1>3, <2>1, <2>2 DEF Keeps
  <2> QED
    BY <2>3 DEF y
<1> HIDE DEF code
<1>4. ASSUME NEW k \in DOMAIN A!Link(e).code PROVE Keeps(A!Link(e).code[k])
  <2>1. Keeps(code[k][2])
    BY <1>1, <1>2 DEF EntriesKeep
  <2>2. PICK to : A!Link(e).code[k] =
                    IF code[k][2].i \in Patched THEN [code[k][2] EXCEPT !.to = to] ELSE code[k][2]
    BY <1>2
  <2> DEFINE x == code[k][2]
  <2> HIDE DEF x
  <2>3. Keeps(x) /\ A!Link(e).code[k] = IF x.i \in Patched THEN [x EXCEPT !.to = to] ELSE x
    BY <2>1, <2>2 DEF x
  <2>4. x.i \in Patched => Keeps([x EXCEPT !.to = to])
    BY <1>3, <2>3
  <2> QED
    BY <2>3, <2>4
<1> QED
  BY <1>4

LEMMA FunctionKeeps ==
  ASSUME NEW p, NEW f \in DOMAIN p, IsFunction(p[f]), FramesFit(p)
  PROVE  EntriesKeep(A!EmitFunc(p, f))
<1> DEFINE fn == p[f]
           start == A!Emitted(<<f, 0>>, <<A!Define(fn.symbol)>> \o A!EmitPrologue(fn))
           ss == [k \in DOMAIN fn.body |-> A!Emitted(<<f, k>>, A!EmitInst(<<f, k>>, p, fn, fn.body[k]))]
<1>1. EntriesKeep(start)
  <2> DEFINE as == [i \in 1 .. fn.args |-> A!IncomingArg(fn, i - 1)]
  <2>1. \A i : AllKeep(A!IncomingArg(fn, i))
    <3>1. \A a, b, o, r : AllKeep(<<A!Store(b, o, r)>>) /\ AllKeep(<<A!Ldur("x9", b, a), A!Store(b, o, r)>>)
      BY InstructionsKeep, SlotsKeep, OneKeeps, TwoKeep
    <3>2. TAKE i
    <3>3. CASE i < 8 /\ fn.sret /\ i = 0
      BY <3>1, <3>3 DEF A!IncomingArg
    <3>4. CASE i < 8 /\ ~(fn.sret /\ i = 0)
      BY <3>1, <3>4 DEF A!IncomingArg
    <3>5. CASE ~(i < 8)
      BY <3>1, <3>5 DEF A!IncomingArg
    <3> QED
      BY <3>3, <3>4, <3>5
  <2>2. IsList(as) /\ DOMAIN as = 1 .. fn.args
    <3>1. fn.args \in Nat /\ as = [i \in 1 .. fn.args |-> as[i]]
      BY DEF IsFunction
    <3> HIDE DEF as
    <3> QED
      BY <3>1, FunctionIsList
  <2>3. \A i \in DOMAIN as : AllKeep(as[i])
    BY <2>1, <2>2
  <2>4. AllKeep(A!FlattenSeq(as))
    <3> HIDE DEF as
    <3> QED
      BY <2>2, <2>3, FlattenKeeps
  <2>5. Keeps(A!SubSP(A!FrameSize(fn)))
    BY EvenKeeps DEF IsFunction, FramesFit, A!FrameSize
  <2>6. AllKeep(<<A!SubSP(A!FrameSize(fn)), A!Store("sp", 0, "x29"), A!Store("sp", 1, "x30"),
                  A!AddImm("x29", "sp", 0)>>)
    BY <2>5, InstructionsKeep, SlotsKeep, FourKeep
  <2>7. AllKeep(A!EmitPrologue(fn))
    BY <2>4, <2>6, ConcatKeeps DEF A!EmitPrologue
  <2>8. AllKeep(<<A!Define(fn.symbol)>>)
    BY InstructionsKeep, OneKeeps
  <2> QED
    BY <2>7, <2>8, ConcatKeeps, EmittedKeeps
<1>2. IsList(ss) /\ DOMAIN ss = DOMAIN fn.body
  <2>1. DOMAIN fn.body = 1 .. Len(fn.body) /\ Len(fn.body) \in Nat
    BY DEF IsFunction, IsList
  <2>2. ss = [k \in 1 .. Len(fn.body) |-> ss[k]]
    BY <2>1
  <2> HIDE DEF ss
  <2> QED
    BY <2>1, <2>2, FunctionIsList
<1>3. \A k \in DOMAIN ss : EntriesKeep(ss[k])
  BY <1>2, InstKeeps, EmittedKeeps
<1>4. A!EmitFunc(p, f) = start \o A!FlattenSeq(ss)
  BY DEF A!EmitFunc
<1> HIDE DEF start, ss
<1> QED
  BY <1>1, <1>2, <1>3, <1>4, FlattenEntries, ConcatEntries

(* No instruction of the program takes the stack pointer out of alignment. *)
LEMMA ProgramKeeps ==
  ASSUME NEW p, IsProgram(p), FramesFit(p)
  PROVE  \A k \in DOMAIN A!GenerateAArch64(p).code : Keeps(A!GenerateAArch64(p).code[k])
<1> DEFINE ss == [f \in DOMAIN p |-> IF p[f].syscall >= 0 THEN A!EmitSyscallStub(p, f) ELSE A!EmitFunc(p, f)]
<1>1. IsList(ss) /\ DOMAIN ss = DOMAIN p
  <2>1. DOMAIN p = 1 .. Len(p) /\ Len(p) \in Nat
    BY DEF IsProgram, IsList
  <2>2. ss = [k \in 1 .. Len(p) |-> ss[k]]
    BY <2>1
  <2> HIDE DEF ss
  <2> QED
    BY <2>1, <2>2, FunctionIsList
<1>2. ASSUME NEW f \in DOMAIN p PROVE EntriesKeep(A!EmitSyscallStub(p, f))
  BY InstructionsKeep, FourKeep, EmittedKeeps DEF A!EmitSyscallStub
<1>3. \A f \in DOMAIN p : EntriesKeep(A!EmitFunc(p, f))
  BY FunctionKeeps DEF IsProgram
<1>4. \A f \in DOMAIN ss : EntriesKeep(ss[f])
  BY <1>1, <1>2, <1>3
<1>5. EntriesKeep(A!EmitStart(p))
  BY InstructionsKeep, FourKeep, EmittedKeeps DEF A!EmitStart
<1>6. A!GenerateAArch64(p) = A!Link(A!FlattenSeq(ss) \o A!EmitStart(p))
  BY DEF A!GenerateAArch64
<1> HIDE DEF ss
<1>7. EntriesKeep(A!FlattenSeq(ss) \o A!EmitStart(p))
  BY <1>1, <1>4, <1>5, FlattenEntries, ConcatEntries
<1> QED
  BY <1>6, <1>7, LinkKeeps

-----------------------------------------------------------------------------
(* The machine *)

LEMMA BecomesIs ==
  ASSUME NEW r, NEW m, NEW next, Becomes(r, m, next)
  PROVE  regs' = r /\ UNCHANGED <<prog, image, target>>
BY DEF Becomes

LEMMA EndsIs ==
  ASSUME NEW w, Ends(w)
  PROVE  UNCHANGED <<prog, image, target, regs>>
BY DEF Ends

(* An operation sets its register, or it ends the process. *)
LEMMA AluIs ==
  ASSUME Alus
  PROVE  (\E w : Ends(w)) \/ \E w : Sets(Instr.r, w)
BY DEF Alus

(* The stack pointer is an address on the stack and a multiple of two      *)
(* words.                                                                  *)
OnBoundary(r) == "sp" \in DOMAIN r /\ \E a \in Int : r["sp"] = At(a) /\ a % 2 = 0

LEMMA OthersOnBoundary ==
  ASSUME NEW r, OnBoundary(r), NEW q, NEW w, q # "sp"
  PROVE  OnBoundary([r EXCEPT ![q] = w])
BY DEF OnBoundary

LEMMA MovedOnBoundary ==
  ASSUME NEW r, OnBoundary(r), NEW n \in Int, n % 2 = 0
  PROVE  OnBoundary([r EXCEPT !["sp"] = Plus(@, n)])
<1>1. PICK a \in Int : r["sp"] = At(a) /\ a % 2 = 0
  BY DEF OnBoundary
<1>2. Plus(At(a), n) = At(a + n)
  BY DEF Plus, At
<1>3. a + n \in Int /\ (a + n) % 2 = 0
  BY <1>1
<1> QED
  BY <1>1, <1>2, <1>3 DEF OnBoundary

ArmInvariant ==
  Arm /\ FramesFit(prog) =>
    /\ \A k \in DOMAIN image.code : Keeps(image.code[k])
    /\ OnBoundary(regs)

LEMMA StartsOnBoundary == Init => ArmInvariant
<1> SUFFICES ASSUME Init, Arm, FramesFit(prog)
             PROVE  (\A k \in DOMAIN image.code : Keeps(image.code[k])) /\ OnBoundary(regs)
  BY DEF ArmInvariant
<1>1. PICK run \in Runs :
        /\ prog = run[1] /\ target = run[2]
        /\ image = Generate(run[1], run[2])
        /\ regs = [[q \in Registers |-> Num(0)] EXCEPT ![SP] = At(IF target = "Windows" THEN -1 ELSE 0)]
  BY DEF Init
<1>2. IsProgram(prog) /\ image = A!GenerateAArch64(prog)
  BY <1>1, RunsAssumption DEF Arm, Generate
<1>3. OnBoundary(regs)
  <2>1. regs = [[q \in Registers |-> Num(0)] EXCEPT !["sp"] = At(0)]
    BY <1>1 DEF Arm, SP
  <2>2. "sp" \in Registers
    BY DEF Registers
  <2>3. regs["sp"] = At(0) /\ "sp" \in DOMAIN regs
    BY <2>1, <2>2
  <2> QED
    BY <2>3 DEF OnBoundary
<1> QED
  BY <1>2, <1>3, ProgramKeeps

(* The program and its code stay what they are. *)
LEMMA StepsKeepProgram == Next => UNCHANGED <<prog, image, target>>
<1> DEFINE Goal == UNCHANGED <<prog, image, target>>
<1>1. ASSUME NEW r, NEW m, NEW next, Becomes(r, m, next) PROVE Goal
  BY <1>1, BecomesIs
<1>2. ASSUME NEW w, Ends(w) PROVE Goal
  BY <1>2, EndsIs
<1>3. ASSUME NEW r, NEW w, Sets(r, w) PROVE Goal
  BY <1>1, <1>3 DEF Sets
<1>4. ASSUME NEW a, NEW w, Writes(a, w) PROVE Goal
  BY <1>1, <1>2, <1>4 DEF Writes, Faults
<1>5. ASSUME NEW r, NEW a, Reads(r, a) PROVE Goal
  BY <1>2, <1>3, <1>5 DEF Reads, Faults
<1>6. Imms \/ Leas \/ Alus \/ Exts \/ LoadHalves => Goal
  <2>1. Imms \/ Leas \/ Exts \/ LoadHalves => \E w : Sets(Instr.r, w)
    BY DEF Imms, Leas, Exts, LoadHalves
  <2>2. Alus => (\E w : Ends(w)) \/ \E w : Sets(Instr.r, w)
    BY AluIs
  <2> QED
    BY <1>2, <1>3, <2>1, <2>2
<1>7. Loads \/ LoadsAt => Goal
  BY <1>5 DEF Loads, LoadsAt
<1>8. Stores \/ StoresTo \/ StoreHalves => Goal
  BY <1>4 DEF Stores, StoresTo, StoreHalves
<1>9. MovesSp \/ Pushes \/ Pops \/ Leaves \/ Jumps \/ JumpsNz \/ Calls => Goal
  <2>1. ASSUME MovesSp \/ Pushes \/ Pops \/ Leaves \/ Jumps \/ JumpsNz \/ Calls
        PROVE  \E r, m, next : Becomes(r, m, next)
    BY <2>1 DEF MovesSp, Pushes, Pops, Leaves, Jumps, JumpsNz, Calls
  <2> QED
    BY <1>1, <2>1
<1>10. Returns => Goal
  <2>1. Returns => (\E w : Ends(w)) \/ \E r, m, next : Becomes(r, m, next)
    BY DEF Returns, Faults
  <2> QED
    BY <1>1, <1>2, <2>1
<1>11. ASSUME NEW r, NEW m, NEW q, NEW n, Maps(r, m, q, n) PROVE Goal
  BY <1>1, <1>11 DEF Maps
<1>12. ASSUME NEW r, NEW m, NEW a, NEW n, Unmaps(r, m, a, n) PROVE Goal
  BY <1>1, <1>12 DEF Unmaps
<1>13. Kernel => Goal
  <2>1. ASSUME Kernel
        PROVE  \/ \E w : Ends(w)
               \/ \E r, m, q, n : Maps(r, m, q, n)
               \/ \E r, m, a, n : Unmaps(r, m, a, n)
               \/ \E r, m, next : Becomes(r, m, next)
    BY <2>1 DEF Kernel
  <2> QED
    BY <1>1, <1>2, <1>11, <1>12, <2>1
<1>14. Imports => Goal
  <2>1. ASSUME Imports
        PROVE  \/ \E w : Ends(w)
               \/ \E r, m, q, n : Maps(r, m, q, n)
               \/ \E r, m, a, n : Unmaps(r, m, a, n)
    BY <2>1 DEF Imports, Faults
  <2> QED
    BY <1>2, <1>11, <1>12, <2>1
<1>15. Ended => Goal
  BY DEF Ended, vars
<1> QED
  BY <1>6, <1>7, <1>8, <1>9, <1>10, <1>13, <1>14, <1>15 DEF Next

(* What a step of the processor does to the registers. *)
LEMMA StepsOnBoundary ==
  ASSUME Arm, OnBoundary(regs), \A k \in DOMAIN image.code : Keeps(image.code[k]), Next
  PROVE  OnBoundary(regs')
<1> DEFINE Goal == OnBoundary(regs')
<1>1. ASSUME NEW i, Executes(i) PROVE Instr.i = i /\ Keeps(Instr)
  BY <1>1 DEF Executes, Instr
<1>2. ASSUME NEW r, NEW m, NEW next, Becomes(r, m, next), OnBoundary(r) PROVE Goal
  BY <1>2, BecomesIs
<1>3. ASSUME NEW w, Ends(w) PROVE Goal
  BY <1>3, EndsIs
<1>4. ASSUME NEW r, NEW w, Sets(r, w), r # "sp" PROVE Goal
  BY <1>2, <1>4, OthersOnBoundary DEF Sets
<1>5. ASSUME NEW a, NEW w, Writes(a, w) PROVE Goal
  BY <1>2, <1>3, <1>5 DEF Writes, Faults
<1>6. ASSUME NEW r, NEW a, Reads(r, a), r # "sp" PROVE Goal
  BY <1>3, <1>4, <1>6 DEF Reads, Faults
<1>7. CASE Imms
  <2>1. Instr.r # "sp"
    BY <1>1, <1>7 DEF Imms, Keeps
  <2> QED
    BY <1>4, <1>7, <2>1 DEF Imms
<1>8. CASE Leas
  <2>1. Instr.r # "sp"
    BY <1>1, <1>8 DEF Leas, Keeps
  <2> QED
    BY <1>4, <1>8, <2>1 DEF Leas
<1>9. CASE Loads
  <2>1. Instr.r # "sp"
    BY <1>1, <1>9 DEF Loads, Keeps
  <2> QED
    BY <1>6, <1>9, <2>1 DEF Loads
<1>10. CASE LoadsAt
  <2>1. Instr.r # "sp"
    BY <1>1, <1>10 DEF LoadsAt, Keeps
  <2> QED
    BY <1>6, <1>10, <2>1 DEF LoadsAt
<1>11. CASE Stores
  BY <1>5, <1>11 DEF Stores
<1>12. CASE StoresTo
  BY <1>5, <1>12 DEF StoresTo
<1>13. CASE Alus
  <2>1. Instr.r # "sp"
    BY <1>1, <1>13 DEF Alus, Keeps
  <2>2. (\E w : Ends(w)) \/ \E w : Sets(Instr.r, w)
    BY <1>13, AluIs
  <2> QED
    BY <1>3, <1>4, <2>1, <2>2
<1>14. CASE Exts
  <2>1. Instr.r # "sp"
    BY <1>1, <1>14 DEF Exts, Keeps
  <2> QED
    BY <1>4, <1>14, <2>1 DEF Exts
<1>15. CASE MovesSp
  <2>1. Instr.n \in Int /\ Instr.n % 2 = 0
    BY <1>1, <1>15 DEF MovesSp, Keeps
  <2>2. OnBoundary([regs EXCEPT !["sp"] = Plus(@, Instr.n)])
    BY <2>1, MovedOnBoundary
  <2>3. Becomes([regs EXCEPT !["sp"] = Plus(@, Instr.n)], WithSp(mem, Sp + Instr.n), rip + 1)
    BY <1>15 DEF MovesSp, SP
  <2> QED
    BY <1>2, <2>2, <2>3
<1>16. CASE Pushes \/ Pops \/ Leaves
  <2>1. PICK i \in {"push", "pop", "leave"} : Executes(i)
    BY <1>16 DEF Pushes, Pops, Leaves
  <2> QED
    BY <1>1, <2>1 DEF Keeps
<1>17. CASE Jumps
  BY <1>2, <1>17 DEF Jumps
<1>18. CASE JumpsNz
  BY <1>2, <1>18 DEF JumpsNz
<1>19. CASE Calls
  <2>1. Becomes([regs EXCEPT !["x30"] = ReturnTo(rip + 1)], mem, Instr.to)
    BY <1>19 DEF Calls
  <2> QED
    BY <1>2, <2>1, OthersOnBoundary
<1>20. CASE Returns
  <2>1. \/ \E next : Becomes(regs, mem, next)
        \/ Ends(Fault)
    BY <1>20 DEF Returns, Faults
  <2> QED
    BY <1>2, <1>3, <2>1
<1>21. ASSUME NEW r, OnBoundary(r), NEW m, NEW n, Maps(r, m, "x0", n) PROVE Goal
  BY <1>2, <1>21, OthersOnBoundary DEF Maps
<1>22. ASSUME NEW r, OnBoundary(r), NEW m, NEW a, NEW n, Unmaps(r, m, a, n) PROVE Goal
  BY <1>2, <1>22 DEF Unmaps
<1>23. CASE Kernel
  <2>1. \/ \E w : Ends(w)
        \/ \E n : Maps(regs, mem, "x0", n)
        \/ \E w, a, n : Unmaps([regs EXCEPT !["x0"] = w], mem, a, n)
        \/ \E w : Becomes([regs EXCEPT !["x0"] = w], mem, rip + 1)
    BY <1>23 DEF Kernel
  <2>2. \A w : OnBoundary([regs EXCEPT !["x0"] = w])
    BY OthersOnBoundary
  <2> QED
    BY <1>2, <1>3, <1>21, <1>22, <2>1, <2>2
<1>24. CASE Imports
  BY <1>1, <1>24 DEF Imports, Keeps
<1>25. CASE LoadHalves
  <2>1. Instr.r # "sp"
    BY <1>1, <1>25 DEF LoadHalves, Keeps
  <2> QED
    BY <1>4, <1>25, <2>1 DEF LoadHalves
<1>26. CASE StoreHalves
  BY <1>5, <1>26 DEF StoreHalves
<1>27. CASE Ended
  BY <1>27 DEF Ended, vars
<1> QED
  BY <1>7, <1>8, <1>9, <1>10, <1>11, <1>12, <1>13, <1>14, <1>15, <1>16, <1>17, <1>18, <1>19, <1>20, <1>23,
     <1>24, <1>25, <1>26, <1>27 DEF Next

(* Whatever the program, its code for AArch64 leaves the stack pointer on  *)
(* a boundary of 16 bytes, at each of its instructions and in each of its  *)
(* runs, if its frames fit the instructions that make them.                *)
THEOREM ArmOnBoundary == Spec => []ArmInvariant
<1>1. ASSUME ArmInvariant, Next PROVE ArmInvariant'
  <2>1. UNCHANGED <<prog, image, target>>
    BY <1>1, StepsKeepProgram
  <2>2. ASSUME Arm, FramesFit(prog)
        PROVE  (\A k \in DOMAIN image.code : Keeps(image.code[k])) /\ OnBoundary(regs')
    BY <1>1, <2>2, StepsOnBoundary DEF ArmInvariant
  <2>3. Arm' = Arm /\ FramesFit(prog)' = FramesFit(prog)
    BY <2>1 DEF Arm, FramesFit
  <2>4. (\A k \in DOMAIN image.code : Keeps(image.code[k]))' = \A k \in DOMAIN image.code : Keeps(image.code[k])
    BY <2>1
  <2> QED
    BY <2>2, <2>3, <2>4 DEF ArmInvariant
<1>2. ASSUME ArmInvariant, UNCHANGED vars PROVE ArmInvariant'
  <2>1. UNCHANGED <<prog, image, target, regs>>
    BY <1>2 DEF vars
  <2> QED
    BY <1>2, <2>1 DEF ArmInvariant, Arm, FramesFit, OnBoundary
<1> QED
  BY <1>1, <1>2, StartsOnBoundary, PTL DEF Spec

THEOREM ArmStackAligned == Spec => [](Arm /\ FramesFit(prog) => StackAligned)
<1>1. ArmInvariant => (Arm /\ FramesFit(prog) => StackAligned)
  <2> SUFFICES ASSUME Arm, OnBoundary(regs) PROVE StackAligned
    BY DEF ArmInvariant
  <2>1. PICK a \in Int : regs["sp"] = At(a) /\ a % 2 = 0
    BY DEF OnBoundary
  <2>2. Sp = a
    BY <2>1 DEF Sp, SP, At
  <2>3. Sp % 2 = 0
    BY <2>1, <2>2
  <2> QED
    BY <2>3 DEF StackAligned
<1> QED
  BY <1>1, ArmOnBoundary, PTL
=============================================================================
