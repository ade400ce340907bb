--------------------------- MODULE FlowFactsProofs ---------------------------
(***************************************************************************)
(* Proofs about the facts of the semantic analysis, for every set of       *)
(* variables and every program: nullability is never taken back; in        *)
(* programs without a backward edge, when heap_malloc does not fail, it    *)
(* covers every null at run time and no reference is null; and guards      *)
(* about constants hold along every path.                                  *)
(***************************************************************************)
EXTENDS FlowFacts, TLAPS

(* No loop, and no function that runs again after a later one. *)
Forward == \A b \in Programs : \A i \in 1 .. Len(b) : b[i].next \subseteq i + 1 .. Len(b) + 1

(* What is not declared is not nullable. *)
FactsOK(f) == \A v \in Variables : f[v].nullable => f[v].declared

(* f never takes back what e holds for nullable. *)
Covers(f, e) == \A v \in Variables : e[v].nullable => f[v].nullable

WalkInvariant ==
  /\ TypeOK
  /\ prog \in Programs
  /\ \A i \in 1 .. Len(known) : FactsOK(known[i])
  /\ \A i \in 1 .. Len(known) : \A j \in i .. Len(known) : Covers(known[j], known[i])
  /\ \A v \in Parameters : known[1][v].nullable
  /\ \A i \in 1 .. Len(known) - 1 : known[i + 1] = After(known[i], prog[i])
  /\ ~errors => \A i \in 1 .. Len(known) - 1 : Accepts(known[i], prog[i])
  /\ phase = "analysis" => pc = 1
  /\ phase = "run" => ~errors /\ Len(known) = Len(prog) + 1

(* The contents of the variables against the facts at the place of the run. *)
RunInvariant ==
  /\ \A v \in References : env[v] # "null"
  /\ pc \in 1 .. Len(known)
  /\ \A v \in Pointers : env[v] = "null" => known[pc][v].nullable

-----------------------------------------------------------------------------
(* The items of a program are of the kinds the analysis knows. *)
LEMMA ItemOfProgram ==
  ASSUME TypeOK, prog \in Programs, NEW i \in 1 .. Len(prog)
  PROVE  prog[i] \in Item /\ ItemOK(prog, i)
BY FlowAssumption

(* One item of the walk: the types stay, what is nullable stays nullable,   *)
(* a pointer that may be given null is nullable behind the item.           *)
LEMMA AfterItem ==
  ASSUME NEW f \in [Variables -> Fact], NEW it \in Item, FactsOK(f)
  PROVE  /\ After(f, it) \in [Variables -> Fact]
         /\ FactsOK(After(f, it))
         /\ Covers(After(f, it), f)
         /\ it.op \in {"declare", "assign"} /\ Accepts(f, it) /\ it.var \in Pointers
              /\ MayBeNull(f, it.val) => After(f, it)[it.var].nullable
<1>1. CASE ~Accepts(f, it)
  BY <1>1 DEF After, Covers
<1>2. CASE Accepts(f, it) /\ it.op = "declare"
  <2>1. After(f, it) = [f EXCEPT ![it.var] = DeclaredFact(f, it)]
    BY <1>2 DEF After
  <2>2. DeclaredFact(f, it) \in Fact /\ DeclaredFact(f, it).declared
    BY DEF DeclaredFact, Fact, Item
  <2>3. ~f[it.var].declared
    BY <1>2 DEF Accepts, AcceptsDeclare
  <2>4. it.var \in Variables
    BY DEF Item
  <2>5. ~f[it.var].nullable
    BY <2>3, <2>4 DEF FactsOK
  <2>6. it.var \in Pointers /\ MayBeNull(f, it.val) => DeclaredFact(f, it).nullable
    BY DEF DeclaredFact
  <2> QED
    BY <2>1, <2>2, <2>4, <2>5, <2>6 DEF FactsOK, Covers
<1>3. CASE Accepts(f, it) /\ it.op = "assign"
  <2>1. After(f, it) = [f EXCEPT ![it.var] = AssignedFact(f, it)]
    BY <1>3 DEF After
  <2>2. it.var \in Variables /\ f[it.var] \in Fact
    BY DEF Item
  <2>3. f[it.var].declared
    BY <1>3 DEF Accepts, AcceptsAssign, Writable
  <2>4. /\ AssignedFact(f, it) \in Fact
        /\ AssignedFact(f, it).declared = f[it.var].declared
        /\ f[it.var].nullable => AssignedFact(f, it).nullable
        /\ it.var \in Pointers /\ MayBeNull(f, it.val) => AssignedFact(f, it).nullable
    BY <2>2 DEF AssignedFact, Fact
  <2> QED
    BY <2>1, <2>2, <2>3, <2>4 DEF FactsOK, Covers
<1>4. CASE Accepts(f, it) /\ it.op \in {"use", "test", "pass"}
  <2>1. After(f, it) = f
    BY <1>4 DEF After
  <2> QED
    BY <2>1, <1>4 DEF Covers
<1> QED
  BY <1>1, <1>2, <1>3, <1>4 DEF Item

-----------------------------------------------------------------------------
(* Every state: the types. *)
LEMMA TypeInit == Init => TypeOK
<1> SUFFICES ASSUME Init PROVE TypeOK
  OBVIOUS
<1>1. prog \in Seq(Item)
  BY FlowAssumption DEF Init
<1>2. Parameter \in Fact /\ Undeclared \in Fact
  BY DEF Parameter, Undeclared, Fact
<1>3. known \in Seq([Variables -> Fact]) /\ Len(known) = 1
  BY <1>2 DEF Init
<1>4. env \in [Variables -> Contents]
  BY DEF Init, Contents
<1> QED
  <2>1. Len(known) \in 1 .. Len(prog) + 1 /\ pc \in 1 .. Len(prog) + 1
    BY <1>1, <1>3 DEF Init
  <2>2. errors \in BOOLEAN /\ phase \in {"analysis", "run", "refused"}
    BY DEF Init
  <2> QED
    BY <1>1, <1>3, <1>4, <2>1, <2>2 DEF TypeOK

(* The outcomes of an expression are contents. *)
LEMMA OutcomesType ==
  ASSUME TypeOK, NEW val \in Values \cup {"none", "init"}
  PROVE  Outcomes(val) \subseteq Contents
BY FlowAssumption DEF TypeOK, Outcomes, Contents, Values, PointerValues, IntegerValues

LEMMA WalkInit == Init => WalkInvariant
<1> SUFFICES ASSUME Init PROVE WalkInvariant
  OBVIOUS
<1>1. TypeOK
  BY TypeInit
<1>2. Len(known) = 1 /\ known[1] = [v \in Variables |-> IF v \in Parameters THEN Parameter ELSE Undeclared]
  BY DEF Init
<1>3. Parameter.nullable /\ Parameter.declared /\ ~Undeclared.nullable
  BY DEF Parameter, Undeclared
<1>4. FactsOK(known[1])
  BY <1>2, <1>3 DEF FactsOK
<1>5. \A v \in Parameters : known[1][v].nullable
  BY <1>2, <1>3, FlowAssumption DEF Variables
<1>6. Covers(known[1], known[1])
  BY DEF Covers
<1> QED
  BY <1>1, <1>2, <1>4, <1>5, <1>6 DEF WalkInvariant, Init

(* One item of the analysis. *)
LEMMA WalkAnalyse == WalkInvariant /\ Analyse => WalkInvariant'
<1> SUFFICES ASSUME WalkInvariant, Analyse PROVE WalkInvariant'
  OBVIOUS
<1> DEFINE n == Len(known)
<1>1. /\ TypeOK /\ prog \in Programs /\ n \in Nat \ {0} /\ n <= Len(prog)
      /\ Facts = known[n] /\ At = prog[n] /\ known \in Seq([Variables -> Fact])
      /\ known[n] \in [Variables -> Fact]
  BY DEF WalkInvariant, Analyse, TypeOK, Facts, At
<1>2. At \in Item
  BY <1>1, ItemOfProgram
<1>3. FactsOK(Facts)
  BY <1>1 DEF WalkInvariant
<1>4. PICK g : g = After(Facts, At)
  OBVIOUS
<1>5. g \in [Variables -> Fact] /\ FactsOK(g) /\ Covers(g, known[n])
  BY <1>1, <1>2, <1>3, <1>4, AfterItem
<1>6. known' = Append(known, g)
  BY <1>4 DEF Analyse
<1>7. /\ known' \in Seq([Variables -> Fact]) /\ Len(known') = n + 1
      /\ known'[n + 1] = g
      /\ \A i \in 1 .. n : known'[i] = known[i]
  BY <1>1, <1>5, <1>6
<1>8. TypeOK'
  BY <1>1, <1>7 DEF TypeOK, Analyse
<1>9. \A i \in 1 .. Len(known') : FactsOK(known'[i])
  <2> SUFFICES ASSUME NEW i \in 1 .. n + 1 PROVE FactsOK(known'[i])
    BY <1>7
  <2>1. CASE i = n + 1
    BY <2>1, <1>5, <1>7
  <2>2. CASE i <= n
    <3>1. i \in 1 .. n
      BY <2>2, <1>1
    <3>2. FactsOK(known[i])
      BY <3>1 DEF WalkInvariant
    <3> QED
      BY <3>1, <3>2, <1>7
  <2> QED
    BY <2>1, <2>2, <1>1
<1>10. \A i \in 1 .. Len(known') : \A j \in i .. Len(known') : Covers(known'[j], known'[i])
  <2> SUFFICES ASSUME NEW i \in 1 .. n + 1, NEW j \in i .. n + 1
               PROVE  Covers(known'[j], known'[i])
    BY <1>7
  <2>1. CASE j <= n
    <3>1. i \in 1 .. n /\ j \in 1 .. n
      BY <2>1, <1>1
    <3>2. Covers(known[j], known[i])
      BY <3>1, <1>1 DEF WalkInvariant
    <3> QED
      BY <3>1, <3>2, <1>7
  <2>2. CASE i = n + 1
    BY <2>2, <1>1 DEF Covers
  <2>3. CASE i <= n /\ j = n + 1
    <3>1. Covers(known[n], known[i])
      BY <2>3, <1>1 DEF WalkInvariant
    <3>2. known'[i] = known[i] /\ known'[j] = g
      BY <2>3, <1>1, <1>7
    <3> QED
      BY <3>1, <3>2, <1>5 DEF Covers
  <2> QED
    BY <2>1, <2>2, <2>3, <1>1
<1>11. \A v \in Parameters : known'[1][v].nullable
  BY <1>1, <1>7 DEF WalkInvariant
<1>12. \A i \in 1 .. Len(known') - 1 : known'[i + 1] = After(known'[i], prog'[i])
  <2> SUFFICES ASSUME NEW i \in 1 .. n PROVE known'[i + 1] = After(known'[i], prog'[i])
    BY <1>1, <1>7
  <2>1. prog' = prog
    BY DEF Analyse
  <2>2. CASE i = n
    BY <2>1, <2>2, <1>1, <1>4, <1>7
  <2>3. CASE i < n
    <3>1. known[i + 1] = After(known[i], prog[i])
      BY <2>3, <1>1 DEF WalkInvariant
    <3> QED
      <4>1. i \in 1 .. n /\ i + 1 \in 1 .. n
        BY <2>3, <1>1
      <4>2. known'[i] = known[i] /\ known'[i + 1] = known[i + 1]
        BY <4>1, <1>7
      <4> QED
        BY <3>1, <4>2, <2>1
  <2> QED
    BY <2>2, <2>3, <1>1
<1>13. ~errors' => \A i \in 1 .. Len(known') - 1 : Accepts(known'[i], prog'[i])
  <2> SUFFICES ASSUME ~errors', NEW i \in 1 .. n PROVE Accepts(known'[i], prog'[i])
    BY <1>1, <1>7
  <2>1. prog' = prog /\ ~errors /\ Accepts(Facts, At)
    BY DEF Analyse
  <2>2. CASE i = n
    BY <2>1, <2>2, <1>1, <1>7
  <2>3. CASE i < n
    <3>1. Accepts(known[i], prog[i])
      BY <2>1, <2>3, <1>1 DEF WalkInvariant
    <3> QED
      BY <3>1, <2>1, <1>1, <1>7
  <2> QED
    BY <2>2, <2>3, <1>1
<1>14. UNCHANGED <<prog, phase, pc, env>> /\ phase = "analysis"
  BY DEF Analyse
<1>15. prog' \in Programs
  BY <1>1, <1>14
<1> QED
  BY <1>8, <1>9, <1>10, <1>11, <1>12, <1>13, <1>14, <1>15 DEF WalkInvariant

(* A step of the run leaves the walk alone. *)
LEMMA WalkExecute == WalkInvariant /\ Execute => WalkInvariant'
<1> SUFFICES ASSUME WalkInvariant, Execute PROVE WalkInvariant'
  OBVIOUS
<1>1. TypeOK /\ prog \in Programs /\ pc \in 1 .. Len(prog)
  BY DEF WalkInvariant, Execute, TypeOK
<1>2. prog[pc] \in Item /\ prog[pc].next \subseteq 1 .. Len(prog) + 1
  BY <1>1, ItemOfProgram DEF ItemOK
<1>3. Outcomes(prog[pc].val) \subseteq Contents
  BY <1>1, <1>2, OutcomesType DEF Item
<1>4. env' \in [Variables -> Contents]
  <2>1. prog[pc].var \in Variables
    BY <1>2 DEF Item
  <2> QED
    BY <2>1, <1>1, <1>3 DEF Execute, TypeOK
<1>5. UNCHANGED <<prog, known, errors, phase>> /\ phase = "run" /\ pc' \in 1 .. Len(prog) + 1
  BY <1>2 DEF Execute
<1>6. TypeOK'
  BY <1>1, <1>4, <1>5 DEF TypeOK
<1> QED
  BY <1>5, <1>6 DEF WalkInvariant

LEMMA WalkStep == WalkInvariant /\ [Next]_vars => WalkInvariant'
<1> SUFFICES ASSUME WalkInvariant, [Next]_vars PROVE WalkInvariant'
  OBVIOUS
<1>1. CASE Analyse
  BY <1>1, WalkAnalyse
<1>2. CASE StartRun
  <2>1. UNCHANGED <<prog, known, errors, pc, env>> /\ phase' = IF errors THEN "refused" ELSE "run"
    BY <1>2 DEF StartRun
  <2>2. Len(known) = Len(prog) + 1
    BY <1>2 DEF StartRun, WalkInvariant, TypeOK
  <2>3. TypeOK'
    BY <2>1 DEF WalkInvariant, TypeOK
  <2> QED
    BY <2>1, <2>2, <2>3 DEF WalkInvariant
<1>3. CASE Execute
  BY <1>3, WalkExecute
<1>4. CASE UNCHANGED vars
  <2>1. TypeOK'
    BY <1>4 DEF WalkInvariant, TypeOK, vars
  <2> QED
    BY <1>4, <2>1 DEF WalkInvariant, vars
<1> QED
  BY <1>1, <1>2, <1>3, <1>4 DEF Next

-----------------------------------------------------------------------------
(* The theorems that hold of every program *)

(* The walk of the analysis: what each position knows follows from the one *)
(* before it, and covers all that was nullable before.                     *)
THEOREM WalkCorrect == Spec => []WalkInvariant
<1> QED
  BY WalkInit, WalkStep, PTL DEF Spec

(* The facts and the contents of the variables keep their types (TypeOK). *)
THEOREM FlowTypeCorrect == Spec => []TypeOK
<1>1. WalkInvariant => TypeOK
  BY DEF WalkInvariant
<1> QED
  BY <1>1, WalkCorrect, PTL

(* No statement takes nullability back (NullabilityMonotone). *)
THEOREM NullabilityNeverTakenBack == Spec => NullabilityMonotone
<1>1. WalkInvariant /\ WalkInvariant' /\ [Next]_vars
        => [\A v \in Variables : Facts[v].nullable => Facts'[v].nullable]_known
  <2> SUFFICES ASSUME WalkInvariant, WalkInvariant', Next, known' # known,
                      NEW v \in Variables, Facts[v].nullable
               PROVE  Facts'[v].nullable
    BY DEF vars
  <2>1. Analyse
    BY DEF Next, StartRun, Execute
  <2>2. Len(known) \in Nat \ {0} /\ known \in Seq([Variables -> Fact])
    BY DEF WalkInvariant, TypeOK
  <2>3. Len(known') = Len(known) + 1 /\ known'[Len(known)] = known[Len(known)]
    BY <2>1, <2>2 DEF Analyse
  <2>4. Covers(known'[Len(known) + 1], known'[Len(known)])
    BY <2>2, <2>3 DEF WalkInvariant
  <2> QED
    BY <2>3, <2>4 DEF Covers, Facts
<1> QED
  BY <1>1, WalkCorrect, PTL DEF Spec, NullabilityMonotone

-----------------------------------------------------------------------------
(* The run of a program without backward edges *)

(* Null comes out of an expression only if the analysis says it may be      *)
(* null, when heap_malloc does not fail.                                   *)
LEMMA NullComesFrom ==
  ASSUME ~HeapFails, TypeOK, RunInvariant, NEW val \in Values \cup {"none", "init"},
         val \notin Integers, "null" \in Outcomes(val)
  PROVE  /\ MayBeNull(known[pc], val)
         /\ val = "nullptr" \/ IsPointer(val)
<1>1. CASE val \in Variables
  <2>1. Outcomes(val) = {env[val]}
    BY <1>1, FlowAssumption DEF Outcomes, PointerValues, IntegerValues
  <2>2. env[val] = "null"
    BY <2>1
  <2>3. val \in Pointers
    BY <1>1, <2>2 DEF RunInvariant, Variables
  <2> QED
    BY <1>1, <2>2, <2>3 DEF RunInvariant, MayBeNull, IsPointer
<1>2. CASE val \notin Variables
  <2>1. val \in PointerValues \cup IntegerValues \cup {"none", "init"}
    BY <1>2 DEF Values
  <2>2. val \in {"nullptr", "other"}
    BY <2>1, <1>2 DEF Outcomes, PointerValues, IntegerValues
  <2> QED
    BY <2>2 DEF MayBeNull, IsPointer
<1> QED
  BY <1>1, <1>2

LEMMA RunInit == Init => RunInvariant
<1> SUFFICES ASSUME Init PROVE RunInvariant
  OBVIOUS
<1>1. Len(known) = 1 /\ pc = 1
  BY DEF Init
<1>2. \A v \in Variables : env[v] = "null" => v \in Parameters
  BY DEF Init
<1>3. \A v \in Parameters : known[1][v].nullable
  BY WalkInit DEF WalkInvariant
<1>4. Parameters \cap References = {}
  BY FlowAssumption
<1> QED
  BY <1>1, <1>2, <1>3, <1>4 DEF RunInvariant, Variables

(* One item of the run. *)
LEMMA RunExecute ==
  ASSUME Forward, ~HeapFails, WalkInvariant, RunInvariant, Execute
  PROVE  RunInvariant'
<1> DEFINE it == prog[pc]
<1> DEFINE f == known[pc]
<1>1. /\ TypeOK /\ prog \in Programs /\ pc \in 1 .. Len(prog)
      /\ Len(known) = Len(prog) + 1 /\ Len(prog) \in Nat
      /\ known' = known
  BY DEF WalkInvariant, Execute, TypeOK
<1>2. it \in Item /\ ItemOK(prog, pc)
  BY <1>1, ItemOfProgram
<1>3. pc' \in pc + 1 .. Len(prog) + 1
  BY <1>1 DEF Forward, Execute
<1>4. Accepts(f, it) /\ known[pc + 1] = After(f, it)
  <2>1. pc \in 1 .. Len(known) - 1 /\ ~errors
    BY <1>1 DEF WalkInvariant, Execute
  <2> QED
    BY <2>1 DEF WalkInvariant
<1>5. f \in [Variables -> Fact] /\ FactsOK(f)
  BY <1>1 DEF WalkInvariant, TypeOK
<1>6. Covers(known[pc'], f) /\ Covers(known[pc'], After(f, it))
  <2>1. /\ pc \in 1 .. Len(known) /\ pc + 1 \in 1 .. Len(known)
        /\ pc' \in pc .. Len(known) /\ pc' \in pc + 1 .. Len(known)
    BY <1>1, <1>3
  <2> QED
    BY <2>1, <1>4 DEF WalkInvariant
<1>7. \A v \in References \cup Pointers : env'[v] = "null" /\ env[v] # "null" =>
        /\ it.op \in {"declare", "assign", "pass"} /\ it.var = v
        /\ MayBeNull(f, it.val)
        /\ it.val = "nullptr" \/ IsPointer(it.val)
        /\ it.val \notin {"none", "init"}
  <2> SUFFICES ASSUME NEW v \in References \cup Pointers, env'[v] = "null", env[v] # "null"
               PROVE  /\ it.op \in {"declare", "assign", "pass"} /\ it.var = v
                      /\ MayBeNull(f, it.val)
                      /\ it.val = "nullptr" \/ IsPointer(it.val)
                      /\ it.val \notin {"none", "init"}
    OBVIOUS
  <2>1. it.op \in {"declare", "assign", "pass"}
    BY DEF Execute
  <2>2. PICK x \in Outcomes(it.val) : env' = [env EXCEPT ![it.var] = x]
    BY <2>1 DEF Execute
  <2>3. it.var = v /\ x = "null"
    BY <2>2, <1>1 DEF TypeOK, Variables
  <2>4. it.val \in Values \cup {"none", "init"}
    BY <1>2 DEF Item
  <2>5. it.val \notin {"none", "init"}
    <3>1. it.val \in {"none", "init"} => it.val \notin Variables
      BY FlowAssumption
    <3> QED
      BY <2>2, <2>3, <3>1 DEF Outcomes
  <2>6. it.val \notin Integers
    BY <1>2, <2>1, <2>3, <2>5, FlowAssumption
       DEF ItemOK, OfKind, PointerValues, Variables
  <2> QED
    BY <2>1, <2>2, <2>3, <2>4, <2>5, <2>6, <1>1, NullComesFrom
<1>8. \A v \in References : env'[v] # "null"
  <2> SUFFICES ASSUME NEW v \in References, env'[v] = "null" PROVE FALSE
    OBVIOUS
  <2>1. env[v] # "null"
    BY DEF RunInvariant
  <2>2. /\ it.op \in {"declare", "assign", "pass"} /\ it.var = v
        /\ MayBeNull(f, it.val)
        /\ it.val = "nullptr" \/ IsPointer(it.val)
        /\ it.val \notin {"none", "init"}
    BY <2>1, <1>7
  <2>3. Assignable(f, v, it.val)
    BY <2>2, <1>4 DEF Accepts, AcceptsDeclare, AcceptsAssign, AcceptsPass
  <2> QED
    BY <2>2, <2>3 DEF Assignable
<1>9. \A v \in Pointers : env'[v] = "null" => known[pc'][v].nullable
  <2> SUFFICES ASSUME NEW v \in Pointers, env'[v] = "null" PROVE known[pc'][v].nullable
    OBVIOUS
  <2>0. v \in Variables
    BY DEF Variables
  <2>1. CASE env[v] = "null"
    BY <2>0, <2>1, <1>6 DEF RunInvariant, Covers
  <2>2. CASE env[v] # "null" /\ it.op \in {"declare", "assign"}
    <3>1. it.var = v /\ MayBeNull(f, it.val)
      BY <2>2, <1>7
    <3>2. After(f, it)[v].nullable
      BY <2>2, <3>1, <1>2, <1>4, <1>5, AfterItem
    <3> QED
      BY <2>0, <3>2, <1>6 DEF Covers
  <2>3. CASE env[v] # "null" /\ it.op = "pass"
    <3>1. it.var = v
      BY <2>3, <1>7
    <3>2. v \in Parameters
      BY <2>3, <3>1, <1>2, FlowAssumption DEF ItemOK
    <3>3. known[1][v].nullable /\ Covers(known[pc'], known[1])
      BY <3>2, <1>1, <1>3 DEF WalkInvariant
    <3> QED
      BY <2>0, <3>3 DEF Covers
  <2> QED
    BY <2>1, <2>2, <2>3, <1>7
<1>10. pc' \in 1 .. Len(known')
  BY <1>1, <1>3
<1> QED
  BY <1>1, <1>8, <1>9, <1>10 DEF RunInvariant

LEMMA RunStep ==
  ASSUME Forward, ~HeapFails, WalkInvariant, RunInvariant, [Next]_vars
  PROVE  RunInvariant'
<1>1. CASE Analyse
  <2>1. known \in Seq([Variables -> Fact])
    BY DEF WalkInvariant, TypeOK
  <2>2. Len(known') = Len(known) + 1 /\ known'[pc] = known[pc]
    BY <1>1, <2>1 DEF Analyse, RunInvariant
  <2> QED
    BY <1>1, <2>1, <2>2 DEF Analyse, RunInvariant
<1>2. CASE StartRun
  BY <1>2 DEF StartRun, RunInvariant
<1>3. CASE Execute
  BY <1>3, RunExecute
<1>4. CASE UNCHANGED vars
  BY <1>4 DEF vars, RunInvariant
<1> QED
  BY <1>1, <1>2, <1>3, <1>4 DEF Next

(***************************************************************************)
(* In a program without backward edges, whatever its branches, a pointer   *)
(* that holds null is held for nullable where the run is (NullsKnown).     *)
(***************************************************************************)
THEOREM NullsAreKnown ==
  ASSUME Forward, ~HeapFails
  PROVE  Spec => []NullsKnown
<1>1. WalkInvariant /\ RunInvariant /\ [Next]_vars => RunInvariant'
  BY RunStep
<1>2. RunInvariant => NullsKnown
  BY DEF RunInvariant, NullsKnown
<1> QED
  BY <1>1, <1>2, RunInit, WalkCorrect, PTL DEF Spec

(* And no reference holds null (ReferencesNotNull). *)
THEOREM ReferencesAreNotNull ==
  ASSUME Forward, ~HeapFails
  PROVE  Spec => []ReferencesNotNull
<1>1. WalkInvariant /\ RunInvariant /\ [Next]_vars => RunInvariant'
  BY RunStep
<1>2. RunInvariant => ReferencesNotNull
  BY DEF RunInvariant, ReferencesNotNull
<1> QED
  BY <1>1, <1>2, RunInit, WalkCorrect, PTL DEF Spec

-----------------------------------------------------------------------------
(* Guards about constants, in every program, with loops or without *)

(* What is passed is held by a variable of what is called, which is named  *)
(* apart from the integers declared here.                                  *)
ArgumentsApart ==
  \A b \in Programs : \A i, j \in 1 .. Len(b) :
    b[i].op = "pass" /\ b[i].var \in Integers /\ b[j].op = "declare" => b[i].var # b[j].var

(* Immutable, with a literal value: a constant. *)
Fixed(f, v) == f[v].const # "unknown" /\ ~f[v].mut

(* f keeps what e holds of the variables that are declared. *)
KeepsDeclared(f, e) ==
  \A v \in Variables : e[v].declared =>
    f[v].declared /\ (f[v].mut <=> e[v].mut) /\ f[v].const = e[v].const

DeclaredIn(v) == \E j \in 1 .. Len(prog) : prog[j].op = "declare" /\ prog[j].var = v

(* What is known of the integers is what their declarations say, and a     *)
(* constant holds its value, or nothing yet.                               *)
FactsFromDeclarations(f) ==
  \A v \in Integers :
    /\ f[v].const # "unknown" => f[v].declared
    /\ f[v].declared => DeclaredIn(v)

ConstantsHeld(f) == \A v \in Integers : Fixed(f, v) => env[v] \in {"junk", f[v].const}

GuardInvariant ==
  /\ \A i \in 1 .. Len(known) : \A j \in i .. Len(known) : KeepsDeclared(known[j], known[i])
  /\ \A i \in 1 .. Len(known) : FactsFromDeclarations(known[i]) /\ ConstantsHeld(known[i])
  /\ phase = "analysis" => \A v \in Integers : env[v] = "junk"

LEMMA GuardInit == Init => GuardInvariant
<1> SUFFICES ASSUME Init PROVE GuardInvariant
  OBVIOUS
<1>1. Len(known) = 1 /\ known[1] = [v \in Variables |-> IF v \in Parameters THEN Parameter ELSE Undeclared]
  BY DEF Init
<1>2. \A v \in Integers : v \in Variables /\ v \notin Parameters
  BY FlowAssumption DEF Variables
<1>3. \A v \in Integers : known[1][v].const = "unknown" /\ ~known[1][v].declared
  BY <1>1, <1>2 DEF Undeclared
<1>4. \A v \in Integers : env[v] = "junk"
  BY <1>2 DEF Init
<1>5. KeepsDeclared(known[1], known[1])
  BY DEF KeepsDeclared
<1>6. FactsFromDeclarations(known[1]) /\ ConstantsHeld(known[1])
  BY <1>3 DEF FactsFromDeclarations, ConstantsHeld, Fixed
<1> QED
  BY <1>1, <1>4, <1>5, <1>6 DEF GuardInvariant

(* One item of the walk keeps what is declared. *)
LEMMA AfterKeeps ==
  ASSUME NEW f \in [Variables -> Fact], NEW it \in Item
  PROVE  /\ KeepsDeclared(After(f, it), f)
         /\ \A v \in Variables : After(f, it)[v].declared =>
              f[v].declared \/ (it.op = "declare" /\ it.var = v)
         /\ \A v \in Variables : After(f, it)[v].const # "unknown" =>
              f[v].const # "unknown" \/ After(f, it)[v].declared
<1> USE DEF KeepsDeclared
<1>0. it.var \in Variables
  BY DEF Item
<1>1. CASE ~Accepts(f, it)
  BY <1>1 DEF After
<1>2. CASE Accepts(f, it) /\ it.op = "declare"
  <2>1. After(f, it) = [f EXCEPT ![it.var] = DeclaredFact(f, it)]
    BY <1>2 DEF After
  <2>2. DeclaredFact(f, it).declared
    BY DEF DeclaredFact
  <2>3. ~f[it.var].declared
    BY <1>2 DEF Accepts, AcceptsDeclare
  <2>4. \A v \in Variables : After(f, it)[v] = IF v = it.var THEN DeclaredFact(f, it) ELSE f[v]
    BY <1>0, <2>1
  <2> QED
    BY <1>0, <1>2, <2>2, <2>3, <2>4
<1>3. CASE Accepts(f, it) /\ it.op = "assign"
  <2>1. After(f, it) = [f EXCEPT ![it.var] = AssignedFact(f, it)]
    BY <1>3 DEF After
  <2>2. f[it.var] \in Fact
    BY <1>0
  <2>3. f[it.var].declared
    BY <1>3 DEF Accepts, AcceptsAssign, Writable
  <2>4. /\ AssignedFact(f, it).declared = f[it.var].declared
        /\ AssignedFact(f, it).mut = f[it.var].mut
        /\ AssignedFact(f, it).const = f[it.var].const
    BY <2>2 DEF AssignedFact, Fact
  <2>5. \A v \in Variables : After(f, it)[v] = IF v = it.var THEN AssignedFact(f, it) ELSE f[v]
    BY <1>0, <2>1
  <2> QED
    BY <1>0, <2>3, <2>4, <2>5
<1>4. CASE Accepts(f, it) /\ it.op \in {"use", "test", "pass"}
  BY <1>4 DEF After
<1> QED
  BY <1>1, <1>2, <1>3, <1>4 DEF Item

LEMMA GuardAnalyse == WalkInvariant /\ GuardInvariant /\ Analyse => GuardInvariant'
<1> SUFFICES ASSUME WalkInvariant, GuardInvariant, Analyse PROVE GuardInvariant'
  OBVIOUS
<1> DEFINE n == Len(known)
<1>1. /\ TypeOK /\ prog \in Programs /\ n \in Nat \ {0} /\ n <= Len(prog) /\ Len(prog) \in Nat
      /\ Facts = known[n] /\ At = prog[n] /\ known \in Seq([Variables -> Fact])
      /\ known[n] \in [Variables -> Fact]
      /\ phase = "analysis" /\ prog' = prog /\ env' = env /\ phase' = phase
  BY DEF WalkInvariant, Analyse, TypeOK, Facts, At
<1>2. At \in Item /\ n \in 1 .. Len(prog)
  BY <1>1, ItemOfProgram
<1>3. PICK g : g = After(Facts, At)
  OBVIOUS
<1>4. /\ KeepsDeclared(g, known[n])
      /\ \A v \in Variables : g[v].declared =>
           known[n][v].declared \/ (At.op = "declare" /\ At.var = v)
      /\ \A v \in Variables : g[v].const # "unknown" =>
           known[n][v].const # "unknown" \/ g[v].declared
  <2>1. KeepsDeclared(g, known[n])
    BY <1>1, <1>2, <1>3, AfterKeeps
  <2>2. \A v \in Variables : g[v].declared =>
          known[n][v].declared \/ (At.op = "declare" /\ At.var = v)
    BY <1>1, <1>2, <1>3, AfterKeeps
  <2>3. \A v \in Variables : g[v].const # "unknown" =>
          known[n][v].const # "unknown" \/ g[v].declared
    BY <1>1, <1>2, <1>3, AfterKeeps
  <2> QED
    BY <2>1, <2>2, <2>3
<1>5. g \in [Variables -> Fact]
  BY <1>1, <1>2, <1>3, AfterItem DEF WalkInvariant
<1>6. /\ Len(known') = n + 1 /\ known'[n + 1] = g /\ \A i \in 1 .. n : known'[i] = known[i]
  BY <1>1, <1>3, <1>5 DEF Analyse
<1>7. \A v \in Integers : env[v] = "junk" /\ v \in Variables
  BY <1>1 DEF GuardInvariant, Variables
<1>8. /\ FactsFromDeclarations(known[n])
      /\ \A i \in 1 .. n : FactsFromDeclarations(known[i])
      /\ \A i \in 1 .. n : \A j \in i .. n : KeepsDeclared(known[j], known[i])
  BY <1>1 DEF GuardInvariant
<1> HIDE DEF n
<1>9. FactsFromDeclarations(g)
  <2> SUFFICES ASSUME NEW v \in Integers
               PROVE  /\ g[v].const # "unknown" => g[v].declared
                      /\ g[v].declared => DeclaredIn(v)
    BY DEF FactsFromDeclarations
  <2>1. g[v].const # "unknown" => g[v].declared
    BY <1>4, <1>7, <1>8 DEF FactsFromDeclarations, KeepsDeclared
  <2>2. g[v].declared => DeclaredIn(v)
    <3>1. CASE known[n][v].declared
      BY <1>8, <3>1 DEF FactsFromDeclarations
    <3>2. CASE At.op = "declare" /\ At.var = v
      BY <1>1, <1>2, <3>2 DEF DeclaredIn
    <3> QED
      BY <1>4, <1>7, <3>1, <3>2
  <2> QED
    BY <2>1, <2>2
<1>10. \A i \in 1 .. Len(known') : i \in 1 .. n \/ i = n + 1
  BY <1>1, <1>6
<1>11. \A i \in 1 .. Len(known') : FactsFromDeclarations(known'[i])
  BY <1>6, <1>8, <1>9, <1>10
<1>12. \A i \in 1 .. Len(known') : FactsFromDeclarations(known[i])' /\ ConstantsHeld(known[i])'
  BY <1>1, <1>7, <1>11 DEF FactsFromDeclarations, DeclaredIn, ConstantsHeld
<1>13. ASSUME NEW i \in 1 .. Len(known'), NEW j \in i .. Len(known')
       PROVE  KeepsDeclared(known'[j], known'[i])
  <2>1. j \in 1 .. Len(known')
    BY <1>1, <1>6
  <2>2. CASE j \in 1 .. n
    <3>1. i \in 1 .. n /\ j \in i .. n
      BY <1>1, <2>2
    <3> QED
      BY <1>6, <1>8, <3>1
  <2>3. CASE i = n + 1 /\ j = n + 1
    BY <2>3 DEF KeepsDeclared
  <2>4. CASE i \in 1 .. n /\ j = n + 1
    <3>1. n \in i .. n
      BY <1>1, <2>4
    <3>2. KeepsDeclared(known[n], known[i])
      BY <1>8, <2>4, <3>1
    <3>3. KeepsDeclared(g, known[i])
      BY <1>4, <3>2 DEF KeepsDeclared
    <3> QED
      BY <1>6, <2>4, <3>3
  <2>5. i = n + 1 => j = n + 1
    BY <1>1, <1>6
  <2> QED
    BY <1>10, <2>1, <2>2, <2>3, <2>4, <2>5
<1> QED
  BY <1>1, <1>7, <1>12, <1>13 DEF GuardInvariant

(* A constant is not assigned to, not declared again, and no argument.     *)
LEMMA GuardExecute ==
  ASSUME ArgumentsApart, WalkInvariant, GuardInvariant, Execute
  PROVE  GuardInvariant'
<1> DEFINE it == prog[pc]
           f == known[pc]
<1>1. /\ TypeOK /\ prog \in Programs /\ pc \in 1 .. Len(prog) /\ phase = "run"
      /\ Len(known) = Len(prog) + 1 /\ Len(prog) \in Nat
      /\ known' = known /\ prog' = prog /\ phase' = phase
  BY DEF WalkInvariant, Execute, TypeOK
<1>2. it \in Item /\ ItemOK(prog, pc)
  BY <1>1, ItemOfProgram
<1>3. pc \in 1 .. Len(known) - 1 /\ pc \in 1 .. Len(known) /\ pc + 1 \in 1 .. Len(known)
  BY <1>1
<1>4. Accepts(f, it) /\ known[pc + 1] = After(f, it)
  BY <1>1, <1>3 DEF WalkInvariant
<1>5. f \in [Variables -> Fact]
  BY <1>1, <1>3 DEF TypeOK
<1>6. ASSUME NEW i \in 1 .. Len(known), NEW v \in Integers, Fixed(known[i], v)
      PROVE  env'[v] \in {"junk", known[i][v].const}
  <2>0. v \in Variables /\ known[i][v].declared /\ DeclaredIn(v)
    BY <1>6 DEF GuardInvariant, FactsFromDeclarations, Fixed, Variables
  <2>1. env[v] \in {"junk", known[i][v].const}
    BY <1>6 DEF GuardInvariant, ConstantsHeld
  <2>2. CASE it.op \notin {"declare", "assign", "pass"} \/ it.var # v
    BY <1>1, <2>0, <2>1, <2>2 DEF Execute, TypeOK
  <2>3. CASE it.op = "pass" /\ it.var = v
    BY <1>1, <2>0, <2>3 DEF ArgumentsApart, DeclaredIn
  <2>4. CASE it.op = "assign" /\ it.var = v
    <3>1. f[v].declared /\ f[v].mut
      BY <1>4, <2>4 DEF Accepts, AcceptsAssign, Writable
    <3>2. i \in pc .. Len(known) \/ pc \in i .. Len(known)
      BY <1>1, <1>3
    <3>3. f[v].mut <=> known[i][v].mut
      BY <1>3, <2>0, <3>1, <3>2 DEF GuardInvariant, KeepsDeclared
    <3> QED
      BY <1>6, <3>1, <3>3 DEF Fixed
  <2>5. CASE it.op = "declare" /\ it.var = v
    <3>1. ~f[v].declared
      BY <1>4, <2>5 DEF Accepts, AcceptsDeclare
    <3>2. ~ (pc \in i .. Len(known))
      BY <2>0, <3>1 DEF GuardInvariant, KeepsDeclared
    <3>3. i \in pc + 1 .. Len(known)
      BY <1>1, <1>3, <3>2
    <3>4. known[pc + 1][v] = DeclaredFact(f, it)
      BY <1>4, <1>5, <2>0, <2>5 DEF After
    <3>5. known[i][v].const = known[pc + 1][v].const
      <4>1. KeepsDeclared(known[i], known[pc + 1])
        BY <1>3, <3>3 DEF GuardInvariant
      <4>2. known[pc + 1][v].declared
        BY <3>4 DEF DeclaredFact
      <4> QED
        BY <2>0, <4>1, <4>2 DEF KeepsDeclared
    <3>6. it.val \in {"zero", "one"} /\ known[i][v].const = it.val
      BY <1>6, <3>4, <3>5 DEF DeclaredFact, Fixed
    <3>7. Outcomes(it.val) = {it.val}
      <4>1. it.val \notin Variables
        BY <3>6, FlowAssumption DEF IntegerValues
      <4> QED
        BY <3>6, <4>1 DEF Outcomes
    <3> QED
      BY <1>1, <2>0, <2>5, <3>6, <3>7 DEF Execute, TypeOK
  <2> QED
    BY <2>2, <2>3, <2>4, <2>5
<1>7. ASSUME NEW i \in 1 .. Len(known)
      PROVE  FactsFromDeclarations(known[i])' /\ ConstantsHeld(known[i])'
  <2>1. FactsFromDeclarations(known[i])
    BY DEF GuardInvariant
  <2> QED
    BY <1>1, <1>6, <2>1 DEF FactsFromDeclarations, DeclaredIn, ConstantsHeld
<1> QED
  BY <1>1, <1>7 DEF GuardInvariant, KeepsDeclared

LEMMA GuardStep ==
  ASSUME ArgumentsApart, WalkInvariant, GuardInvariant, [Next]_vars
  PROVE  GuardInvariant'
<1>1. CASE StartRun \/ UNCHANGED vars
  BY <1>1 DEF StartRun, vars, GuardInvariant, FactsFromDeclarations, DeclaredIn, ConstantsHeld,
     KeepsDeclared
<1> QED
  BY <1>1, GuardAnalyse, GuardExecute DEF Next

(***************************************************************************)
(* A guard about constants holds whenever the argument is passed, along    *)
(* every path: through loops and past the declaration of the constant too. *)
(***************************************************************************)
THEOREM GuardsHold ==
  ASSUME ArgumentsApart
  PROVE  Spec => []GuardsOfConstantsHold
<1>1. WalkInvariant /\ GuardInvariant /\ [Next]_vars => GuardInvariant'
  BY GuardStep
<1>2. WalkInvariant /\ GuardInvariant => GuardsOfConstantsHold
  <2> DEFINE val == prog[pc].val
             g == known[pc][val].guard
  <2> SUFFICES ASSUME WalkInvariant, GuardInvariant, GuardedArgument,
                      known[pc][g].const # "unknown", ~known[pc][g].mut
               PROVE  env[g] # "zero"
    BY DEF GuardsOfConstantsHold
  <2>1. /\ TypeOK /\ phase = "run" /\ pc \in 1 .. Len(prog) /\ Len(known) = Len(prog) + 1
        /\ Len(prog) \in Nat /\ pc \in 1 .. Len(known) - 1 /\ pc \in 1 .. Len(known)
    BY DEF WalkInvariant, GuardedArgument, TypeOK
  <2>2. /\ prog[pc].op = "pass" /\ val \in Variables /\ g # NoGuard
    BY DEF GuardedArgument
  <2>3. Accepts(known[pc], prog[pc])
    BY <2>1 DEF WalkInvariant
  <2>4. known[pc] \in [Variables -> Fact]
    BY <2>1 DEF TypeOK
  <2>5. g \in Integers /\ g \in Variables
    BY <2>2, <2>4 DEF Fact, Variables
  <2>6. known[pc][g].const # "zero"
    BY <2>2, <2>3 DEF Accepts, AcceptsPass, GuardPasses
  <2>7. known[pc][g].const = "one"
    BY <2>4, <2>5, <2>6 DEF Fact
  <2>8. env[g] \in {"junk", known[pc][g].const}
    BY <2>1, <2>5 DEF GuardInvariant, ConstantsHeld, Fixed
  <2> QED
    BY <2>7, <2>8
<1> QED
  BY <1>1, <1>2, GuardInit, WalkCorrect, PTL DEF Spec
=============================================================================
