--------------------------- MODULE TopoSortProofs ---------------------------
(***************************************************************************)
(* Proofs about topo_sort, for every set of modules and every dependency   *)
(* graph over it: the types, the order of the result, that nothing is left *)
(* out or repeated, that a reported cycle exists, and that none is missed.  *)
(***************************************************************************)
EXTENDS TopoSort, SequenceTheorems, WellFoundedInduction, TLAPS

-----------------------------------------------------------------------------
(* The active calls after the innermost one moved on to its next           *)
(* dependency: only its position changed.                                  *)
LEMMA AdvancedFrames ==
  ASSUME NEW S, NEW fs \in Seq([mod : S, next : Nat \ {0}]), fs # <<>>,
         NEW gs, gs = [fs EXCEPT ![Len(fs)].next = @ + 1]
  PROVE  /\ gs \in Seq([mod : S, next : Nat \ {0}])
         /\ Len(gs) = Len(fs)
         /\ \A i \in 1..Len(fs) : gs[i].mod = fs[i].mod
         /\ \A i \in 1..Len(fs) : i < Len(fs) => gs[i].next = fs[i].next
         /\ gs[Len(fs)].next = fs[Len(fs)].next + 1
<1>1. Len(fs) \in Nat \ {0} /\ DOMAIN fs = 1..Len(fs)
  OBVIOUS
<1>2. \A i \in 1..Len(fs) : fs[i] \in [mod : S, next : Nat \ {0}]
  BY ElementOfSeq
<1>3. \A i \in 1..Len(fs) : gs[i] \in [mod : S, next : Nat \ {0}]
  BY <1>1, <1>2
<1>4. gs \in Seq([mod : S, next : Nat \ {0}]) /\ Len(gs) = Len(fs)
  BY <1>1, <1>3
<1> QED
  BY <1>1, <1>2, <1>4

(* What a return does to the active calls: the others stay as they are. *)
LEMMA DropLast ==
  ASSUME NEW S, NEW s \in Seq(S), s # <<>>,
         NEW t, t = SubSeq(s, 1, Len(s) - 1)
  PROVE  /\ t \in Seq(S)
         /\ Len(t) = Len(s) - 1
         /\ \A i \in 1..Len(t) : t[i] = s[i]
<1>1. Len(s) \in Nat \ {0} /\ \A i \in 1..Len(s) : s[i] \in S
  OBVIOUS
<1>2. PICK n \in Nat : n = Len(s) - 1
  BY <1>1
<1>3. SubSeq(s, 1, n) \in Seq(S)
  BY <1>1, <1>2, SubSeqProperties
<1>4. Len(SubSeq(s, 1, n)) = n
  BY <1>1, <1>2
<1>5. \A i \in 1..n : SubSeq(s, 1, n)[i] = s[i]
  BY <1>1, <1>2
<1>6. t = SubSeq(s, 1, n)
  BY <1>2
<1> QED
  BY <1>2, <1>3, <1>4, <1>5, <1>6, Zenon

-----------------------------------------------------------------------------
(* A call of dfs keeps the types, and what it did to the active calls. *)
LEMMA DfsType ==
  ASSUME TypeOK, NEW m \in modules, NEW fs \in Seq(Frame), Dfs(m, fs), UNCHANGED graphVars
  PROVE  /\ frames' \in Seq(Frame')
         /\ stack' \subseteq modules'
         /\ cyclic' \subseteq modules'
<1>1. Frame' = Frame /\ modules' = modules
  BY DEF Frame, graphVars
<1>2. [mod |-> m, next |-> 1] \in Frame
  BY DEF Frame
<1>3. Append(fs, [mod |-> m, next |-> 1]) \in Seq(Frame)
  BY <1>2
<1> QED
  BY <1>1, <1>3 DEF Dfs, TypeOK

(* The dependency an active call goes on to is a loaded module. *)
LEMMA NextDependency ==
  ASSUME TypeOK, VisitDependency
  PROVE  /\ Top \in Frame
         /\ dependencies[Top.mod][Top.next] \in modules
         /\ [frames EXCEPT ![Len(frames)].next = @ + 1] \in Seq(Frame)
<1>1. Len(frames) \in Nat \ {0} /\ Top \in Frame
  BY DEF TypeOK, VisitDependency, Top
<1>2. Top.mod \in modules /\ Top.next \in Nat \ {0}
  BY <1>1 DEF Frame
<1>3. Top.mod \in Names /\ dependencies[Top.mod] \in Seq(Names)
  BY <1>2 DEF TypeOK, GraphOK
<1>4. Top.next \in 1..Len(dependencies[Top.mod])
  BY <1>2, <1>3 DEF VisitDependency
<1>5. dependencies[Top.mod][Top.next] \in modules
  BY <1>3, <1>4 DEF TypeOK, GraphOK
<1>6. [frames EXCEPT ![Len(frames)].next = @ + 1] \in Seq(Frame)
  BY AdvancedFrames DEF TypeOK, VisitDependency, Frame
<1> QED
  BY <1>1, <1>5, <1>6

(* Every step of topo_sort keeps the types. *)
LEMMA TypeStep == TypeOK /\ [TopoNext]_topoAll => TypeOK'
<1> SUFFICES ASSUME TypeOK, [TopoNext]_topoAll PROVE TypeOK'
  OBVIOUS
<1>1. CASE VisitRoot
  <2>1. PICK m \in roots : Dfs(m, frames) /\ roots' = roots \ {m}
    BY <1>1 DEF VisitRoot
  <2>2. UNCHANGED graphVars /\ UNCHANGED <<visited, ordered>>
    BY <1>1 DEF VisitRoot
  <2>3. /\ frames' \in Seq(Frame')
        /\ stack' \subseteq modules'
        /\ cyclic' \subseteq modules'
    BY <2>1, <2>2, DfsType DEF TypeOK
  <2> QED
    BY <2>1, <2>2, <2>3 DEF TypeOK, GraphOK, graphVars
<1>2. CASE VisitDependency
  <2>1. UNCHANGED graphVars /\ UNCHANGED <<roots, visited, ordered>>
    BY <1>2 DEF VisitDependency
  <2>2. /\ frames' \in Seq(Frame')
        /\ stack' \subseteq modules'
        /\ cyclic' \subseteq modules'
    BY <1>2, <2>1, NextDependency, DfsType DEF VisitDependency
  <2> QED
    BY <2>1, <2>2 DEF TypeOK, GraphOK, graphVars
<1>3. CASE LeaveModule
  <2>a. Len(frames) \in Nat \ {0} /\ Top \in Frame
    BY <1>3 DEF TypeOK, LeaveModule, Top
  <2>1. Top.mod \in modules
    BY <2>a DEF Frame
  <2>2. frames' \in Seq(Frame)
    BY <1>3, DropLast DEF TypeOK, LeaveModule
  <2>3. ordered' \in Seq(modules)
    BY <1>3, <2>1 DEF TypeOK, LeaveModule
  <2>4. Frame' = Frame
    BY <1>3 DEF LeaveModule, Frame, graphVars
  <2> QED
    BY <1>3, <2>1, <2>2, <2>3, <2>4 DEF TypeOK, GraphOK, LeaveModule, graphVars
<1>4. CASE UNCHANGED topoAll
  BY <1>4 DEF topoAll, TypeOK, GraphOK, Frame
<1> QED
  BY <1>1, <1>2, <1>3, <1>4 DEF TopoNext

(* The types hold at every step of topo_sort, on every graph. *)
THEOREM TypeCorrect == TopoSpec => []TypeOK
<1>1. GraphOK /\ TopoInit => TypeOK
  BY DEF TopoInit, TypeOK
<1> QED
  BY <1>1, TypeStep, PTL DEF TopoSpec

-----------------------------------------------------------------------------
(* fs are the active calls at the moment one of them, the innermost, calls *)
(* dfs(m): it has moved past m, which is all that changed.                 *)
Calling(m, fs) ==
  /\ fs \in Seq(Frame)
  /\ Len(fs) = Len(frames)
  /\ \A i \in 1..Len(frames) : fs[i].mod = frames[i].mod
  /\ \A i \in 1..Len(frames) : i < Len(frames) => fs[i].next = frames[i].next
  /\ Len(frames) # 0 =>
       /\ fs[Len(frames)].next = frames[Len(frames)].next + 1
       /\ frames[Len(frames)].next \in 1..Len(dependencies[frames[Len(frames)].mod])
       /\ dependencies[frames[Len(frames)].mod][frames[Len(frames)].next] = m

(* Both callers of dfs call it that way. *)
LEMMA RootCalls ==
  ASSUME TypeOK, VisitRoot, NEW m \in roots
  PROVE  Calling(m, frames)
<1>1. Len(frames) = 0
  BY DEF VisitRoot
<1> QED
  BY <1>1 DEF Calling, TypeOK

LEMMA DependencyCalls ==
  ASSUME TypeOK, VisitDependency
  PROVE  Calling(dependencies[Top.mod][Top.next],
                 [frames EXCEPT ![Len(frames)].next = @ + 1])
<1>1. Len(frames) \in Nat \ {0} /\ frames \in Seq([mod : modules, next : Nat \ {0}])
  BY DEF TypeOK, VisitDependency, Frame
<1>2. PICK fs : fs = [frames EXCEPT ![Len(frames)].next = @ + 1]
  OBVIOUS
<1>3. /\ fs \in Seq([mod : modules, next : Nat \ {0}])
      /\ Len(fs) = Len(frames)
      /\ \A i \in 1..Len(frames) : fs[i].mod = frames[i].mod
      /\ \A i \in 1..Len(frames) : i < Len(frames) => fs[i].next = frames[i].next
      /\ fs[Len(frames)].next = frames[Len(frames)].next + 1
  <2>1. frames # <<>>
    BY DEF VisitDependency
  <2>2. PICK S : S = modules
    OBVIOUS
  <2>3. frames \in Seq([mod : S, next : Nat \ {0}])
    BY <1>1, <2>2
  <2>4. fs \in Seq([mod : S, next : Nat \ {0}])
    BY <1>2, <2>1, <2>3, AdvancedFrames
  <2>5. Len(fs) = Len(frames)
    BY <1>2, <2>1, <2>3, AdvancedFrames
  <2>6. \A i \in 1..Len(frames) : fs[i].mod = frames[i].mod
    BY <1>2, <2>1, <2>3, AdvancedFrames
  <2>7. \A i \in 1..Len(frames) : i < Len(frames) => fs[i].next = frames[i].next
    BY <1>2, <2>1, <2>3, AdvancedFrames
  <2>8. fs[Len(frames)].next = frames[Len(frames)].next + 1
    BY <1>2, <2>1, <2>3, AdvancedFrames
  <2> QED
    BY <2>2, <2>4, <2>5, <2>6, <2>7, <2>8
<1>4. Top.mod \in modules /\ Top.next \in Nat \ {0}
  BY NextDependency DEF Frame
<1>5. Len(dependencies[Top.mod]) \in Nat
  BY <1>4 DEF TypeOK, GraphOK
<1>6. Top.next \in 1..Len(dependencies[Top.mod])
  BY <1>4, <1>5 DEF VisitDependency
<1>7. Calling(dependencies[Top.mod][Top.next], fs)
  BY <1>3, <1>6 DEF Calling, Top, Frame
<1> QED
  BY <1>2, <1>7

(* A call of dfs keeps the parts of the invariant that speak of the active *)
(* calls, and puts m among the active calls unless it is there or done.    *)
LEMMA DfsInvariant ==
  ASSUME TypeOK, SearchInvariant, NEW m \in modules, NEW fs, Calling(m, fs),
         Dfs(m, fs), UNCHANGED <<visited, ordered, graphVars>>
  PROVE  /\ StackIsFrames'
         /\ CallsFollowEdges'
         /\ PassedDependenciesDone'
         /\ m \in stack' \cup visited'
         /\ stack \subseteq stack'
<1>0. Len(frames) \in Nat
  BY DEF TypeOK
<1>1. /\ frames \in Seq(Frame) /\ Len(frames) \in Nat /\ DOMAIN frames = 1..Len(frames)
      /\ \A i \in 1..Len(frames) : frames[i] \in Frame
  BY DEF TypeOK
<1>2. \A i \in 1..Len(frames) : frames[i].mod \in modules /\ frames[i].next \in Nat \ {0}
  BY <1>1 DEF Frame
<1>3. \A n \in modules : dependencies[n] \in Seq(Names) /\ Len(dependencies[n]) \in Nat
  BY DEF TypeOK, GraphOK
<1>4. fs \in Seq(Frame) /\ Len(fs) = Len(frames)
  BY DEF Calling
<1>5. visited' = visited /\ dependencies' = dependencies
  BY DEF graphVars
<1>6. CASE m \in visited \/ m \in stack
  <2>1. frames' = fs /\ stack' = stack
    BY <1>6 DEF Dfs, SearchInvariant, StackIsFrames
  <2>2. StackIsFrames'
    <3>1. Len(frames') = Len(frames) /\ \A i \in 1..Len(frames) : frames'[i].mod = frames[i].mod
      BY <1>4, <2>1 DEF Calling
    <3> QED
      BY <1>5, <2>1, <3>1 DEF SearchInvariant, StackIsFrames
  <2>3. CallsFollowEdges'
    <3>1. SUFFICES ASSUME NEW i \in 1..(Len(frames) - 1)
                   PROVE  /\ fs[i].next - 1 \in 1..Len(dependencies[fs[i].mod])
                          /\ dependencies[fs[i].mod][fs[i].next - 1] = fs[i + 1].mod
      BY <1>4, <1>5, <2>1 DEF CallsFollowEdges
    <3>2. i \in 1..Len(frames) /\ i < Len(frames) /\ i + 1 \in 1..Len(frames)
      BY <1>0
    <3>3. fs[i].next = frames[i].next /\ fs[i].mod = frames[i].mod /\ fs[i + 1].mod = frames[i + 1].mod
      BY <3>2 DEF Calling
    <3> QED
      BY <3>3 DEF SearchInvariant, CallsFollowEdges
  <2>4. PassedDependenciesDone'
    <3>1. SUFFICES ASSUME cyclic' = {}, NEW i \in 1..Len(frames),
                          NEW j \in 1..Len(dependencies[frames[i].mod]),
                          j < fs[i].next
                   PROVE  \/ dependencies[frames[i].mod][j] \in visited
                          \/ i < Len(frames) /\ j = fs[i].next - 1
      BY <1>1, <1>4, <1>5, <2>1 DEF PassedDependenciesDone, Calling
    <3>2. m \in visited /\ cyclic = {}
      BY <1>6, <3>1 DEF Dfs
    <3>3. CASE i < Len(frames)
      BY <3>1, <3>2, <3>3 DEF SearchInvariant, PassedDependenciesDone, Calling
    <3>4. CASE i = Len(frames) /\ j < frames[i].next
      BY <3>2, <3>4 DEF SearchInvariant, PassedDependenciesDone
    <3>5. CASE i = Len(frames) /\ j = frames[i].next
      BY <1>1, <3>2, <3>5 DEF Calling
    <3> QED
      BY <1>1, <1>2, <1>3, <3>1, <3>3, <3>4, <3>5 DEF Calling
  <2> QED
    BY <1>5, <1>6, <2>1, <2>2, <2>3, <2>4
<1>7. CASE m \notin visited /\ m \notin stack
  <2>1. /\ stack' = stack \cup {m}
        /\ frames' = Append(fs, [mod |-> m, next |-> 1])
        /\ cyclic' = cyclic
    BY <1>7 DEF Dfs
  <2>2. [mod |-> m, next |-> 1] \in Frame
    BY DEF Frame
  <2>3. /\ Len(frames') = Len(frames) + 1
        /\ \A i \in 1..Len(frames) : frames'[i] = fs[i]
        /\ frames'[Len(frames) + 1] = [mod |-> m, next |-> 1]
    BY <1>4, <2>1, <2>2, AppendProperties
  <2>4. \A i \in 1..Len(frames) : frames'[i].mod = frames[i].mod
    BY <2>3 DEF Calling
  <2>5. frames'[Len(frames) + 1].mod = m /\ frames'[Len(frames) + 1].next = 1
    BY <2>3
  <2>6. StackIsFrames'
    <3>1. \A i \in 1..Len(frames') : frames'[i].mod \in stack'
      BY <1>1, <2>1, <2>3, <2>4, <2>5 DEF SearchInvariant, StackIsFrames
    <3>2. \A n \in stack' : \E i \in 1..Len(frames') : frames'[i].mod = n
      BY <1>1, <2>1, <2>3, <2>4, <2>5 DEF SearchInvariant, StackIsFrames
    <3>3. \A i, j \in 1..Len(frames') : frames'[i].mod = frames'[j].mod => i = j
      <4>1. SUFFICES ASSUME NEW i \in 1..Len(frames'), NEW j \in 1..Len(frames'),
                            frames'[i].mod = frames'[j].mod
                     PROVE  i = j
        OBVIOUS
      <4>2. \A k \in 1..Len(frames') : k \in 1..Len(frames) \/ k = Len(frames) + 1
        BY <1>0, <2>3
      <4>3. \A k \in 1..Len(frames) : frames'[k].mod # m
        BY <1>7, <2>4 DEF SearchInvariant, StackIsFrames
      <4>4. CASE i \in 1..Len(frames) /\ j \in 1..Len(frames)
        BY <2>4, <4>1, <4>4 DEF SearchInvariant, StackIsFrames
      <4> QED
        BY <2>5, <4>1, <4>2, <4>3, <4>4
    <3>4. \A n \in stack' : n \notin visited'
      BY <1>5, <1>7, <2>1 DEF SearchInvariant, StackIsFrames
    <3> QED
      BY <3>1, <3>2, <3>3, <3>4 DEF StackIsFrames
  <2>7. CallsFollowEdges'
    <3>1. SUFFICES ASSUME NEW i \in 1..Len(frames)
                   PROVE  /\ fs[i].next - 1 \in 1..Len(dependencies[frames[i].mod])
                          /\ dependencies[frames[i].mod][fs[i].next - 1] = frames'[i + 1].mod
      <4>1. 1..(Len(frames') - 1) = 1..Len(frames)
        BY <1>0, <2>3
      <4>2. \A i \in 1..Len(frames) : frames'[i].next = fs[i].next
        BY <2>3
      <4> QED
        BY <1>5, <2>4, <4>1, <4>2 DEF CallsFollowEdges
    <3>2. CASE i < Len(frames)
      <4>1. i \in 1..(Len(frames) - 1) /\ i + 1 \in 1..Len(frames)
        BY <1>1, <3>2
      <4> QED
        BY <2>4, <3>2, <4>1 DEF SearchInvariant, CallsFollowEdges, Calling
    <3>3. CASE i = Len(frames)
      <4>1. /\ Len(frames) # 0
            /\ frames[i].next \in Nat
            /\ frames'[i + 1].mod = m
        BY <1>2, <2>5, <3>3
      <4>2. /\ fs[i].next = frames[i].next + 1
            /\ frames[i].next \in 1..Len(dependencies[frames[i].mod])
            /\ dependencies[frames[i].mod][frames[i].next] = m
        BY <3>3, <4>1 DEF Calling
      <4>3. fs[i].next - 1 = frames[i].next
        BY <4>1, <4>2
      <4> QED
        BY <4>1, <4>2, <4>3
    <3> QED
      BY <1>0, <3>2, <3>3
  <2>8. PassedDependenciesDone'
    <3>1. SUFFICES ASSUME cyclic = {}, NEW i \in 1..(Len(frames) + 1),
                          NEW j \in 1..Len(dependencies[frames'[i].mod]),
                          j < frames'[i].next
                   PROVE  \/ dependencies[frames'[i].mod][j] \in visited
                          \/ i < Len(frames) + 1 /\ j = frames'[i].next - 1
      BY <1>1, <1>5, <2>1, <2>3 DEF PassedDependenciesDone
    <3>2. CASE i < Len(frames)
      <4>1. frames'[i].next = frames[i].next /\ frames'[i].mod = frames[i].mod
        <5>1. i \in 1..Len(frames)
          BY <1>0, <3>2
        <5> QED
          BY <2>3, <2>4, <3>2, <5>1 DEF Calling
      <4> QED
        BY <1>1, <3>1, <3>2, <4>1 DEF SearchInvariant, PassedDependenciesDone
    <3>3. CASE i = Len(frames)
      <4>1. frames'[i].next = frames[i].next + 1 /\ frames'[i].mod = frames[i].mod
        BY <1>1, <2>3, <2>4, <3>3 DEF Calling
      <4>2. CASE j < frames[i].next
        BY <1>1, <3>1, <3>3, <4>1, <4>2 DEF SearchInvariant, PassedDependenciesDone
      <4> QED
        BY <1>1, <1>2, <1>3, <3>1, <3>3, <4>1, <4>2
    <3>4. CASE i = Len(frames) + 1
      BY <1>3, <2>5, <3>1, <3>4
    <3> QED
      BY <1>0, <3>2, <3>3, <3>4
  <2> QED
    BY <2>1, <2>6, <2>7, <2>8
<1> QED
  BY <1>6, <1>7

(* A return from dfs keeps the invariant: the module that is put into      *)
(* ordered has all its dependencies there.                                 *)
LEMMA LeaveInvariant ==
  ASSUME TypeOK, SearchInvariant, LeaveModule
  PROVE  SearchInvariant'
<1> DEFINE n == Len(frames)
           top == frames[n].mod
<1>1. n \in Nat \ {0}
  BY DEF TypeOK, LeaveModule
<1>2. /\ Len(frames') = n - 1
      /\ \A i \in 1..(n - 1) : frames'[i] = frames[i]
  <2>1. frames \in Seq(Frame) /\ frames # <<>> /\ frames' = SubSeq(frames, 1, Len(frames) - 1)
    BY DEF TypeOK, LeaveModule
  <2>2. Len(frames') = Len(frames) - 1
    BY <2>1, DropLast
  <2>3. \A i \in 1..Len(frames') : frames'[i] = frames[i]
    BY <2>1, DropLast
  <2> QED
    BY <2>2, <2>3
<1>3. \A i \in 1..n : frames[i].mod \in modules /\ frames[i].next \in Nat \ {0}
  <2>1. \A i \in 1..Len(frames) : frames[i] \in Frame
    BY DEF TypeOK
  <2> QED
    BY <2>1 DEF Frame
<1>4. top \in modules /\ n \in 1..n
  BY <1>1, <1>3
<1>5. dependencies[top] \in Seq(Names) /\ Len(dependencies[top]) \in Nat
  BY <1>4 DEF TypeOK, GraphOK
<1>6. /\ stack' = stack \ {top}
      /\ visited' = visited \cup {top}
      /\ ordered' = Append(ordered, top)
      /\ frames[n].next > Len(dependencies[top])
      /\ UNCHANGED <<roots, cyclic, modules, dependencies>>
  BY DEF LeaveModule, Top, graphVars
<1>7. Len(ordered) \in Nat /\ ordered \in Seq(modules)
  BY DEF TypeOK
<1>8. /\ Len(ordered') = Len(ordered) + 1
      /\ \A k \in 1..Len(ordered) : ordered'[k] = ordered[k]
      /\ ordered'[Len(ordered) + 1] = top
  BY <1>4, <1>6, <1>7, AppendProperties
<1>9. top \in stack /\ top \notin visited
  BY <1>4 DEF SearchInvariant, StackIsFrames
<1> HIDE DEF n, top
<1> USE <1>1
<1>10. StackIsFrames'
  <2>1. \A i \in 1..(n - 1) : frames[i].mod \in stack /\ frames[i].mod # top
    BY <1>4 DEF SearchInvariant, StackIsFrames, n, top
  <2>2. \A i \in 1..Len(frames') : frames'[i].mod \in stack'
    BY <1>2, <1>6, <2>1
  <2>3. ASSUME NEW m \in stack' PROVE \E i \in 1..Len(frames') : frames'[i].mod = m
    <3>1. PICK i \in 1..n : frames[i].mod = m
      BY <1>6, <2>3 DEF SearchInvariant, StackIsFrames, n
    <3>2. i # n
      BY <1>6, <2>3, <3>1 DEF top
    <3>3. i \in 1..(n - 1)
      BY <3>1, <3>2
    <3> QED
      BY <1>2, <3>1, <3>3
  <2>4. \A i, j \in 1..Len(frames') : frames'[i].mod = frames'[j].mod => i = j
    <3>1. \A i \in 1..Len(frames') : i \in 1..Len(frames) /\ frames'[i].mod = frames[i].mod
      BY <1>2 DEF n
    <3> QED
      BY <3>1 DEF SearchInvariant, StackIsFrames
  <2>5. \A m \in stack' : m \notin visited'
    BY <1>6 DEF SearchInvariant, StackIsFrames
  <2> QED
    BY <2>2, <2>3, <2>4, <2>5 DEF StackIsFrames
<1>11. CallsFollowEdges'
  <2>1. \A i \in 1..(n - 2) : i \in 1..(n - 1) /\ i + 1 \in 1..(n - 1)
    OBVIOUS
  <2>2. \A i \in 1..(n - 2) : frames'[i] = frames[i] /\ frames'[i + 1] = frames[i + 1]
    BY <1>2, <2>1
  <2>3. SUFFICES ASSUME NEW i \in 1..(n - 2)
                 PROVE  /\ frames[i].next - 1 \in 1..Len(dependencies[frames[i].mod])
                        /\ dependencies[frames[i].mod][frames[i].next - 1] = frames[i + 1].mod
    <3>1. Len(frames') - 1 = n - 2 /\ dependencies' = dependencies
      BY <1>2, <1>6
    <3> QED
      BY <2>2, <3>1, Zenon DEF CallsFollowEdges
  <2> QED
    BY <2>1 DEF SearchInvariant, CallsFollowEdges, n
<1>12. PassedDependenciesDone'
  <2>0. \A i \in 1..Len(frames') : i \in 1..(n - 1) /\ frames'[i] = frames[i]
    BY <1>2
  <2>1. SUFFICES ASSUME cyclic = {}, NEW i \in 1..(n - 1),
                        NEW j \in 1..Len(dependencies[frames[i].mod]),
                        j < frames[i].next
                 PROVE  \/ dependencies[frames[i].mod][j] \in visited \cup {top}
                        \/ i < n - 1 /\ j = frames[i].next - 1
    <3>1. Len(frames') = n - 1 /\ visited' = visited \cup {top}
          /\ cyclic' = cyclic /\ dependencies' = dependencies
      BY <1>2, <1>6
    <3> QED
      BY <2>0, <3>1, Zenon DEF PassedDependenciesDone
  <2>2. i \in 1..n
    OBVIOUS
  <2>3. \/ dependencies[frames[i].mod][j] \in visited
        \/ i < n /\ j = frames[i].next - 1
    BY <2>1, <2>2 DEF SearchInvariant, PassedDependenciesDone, n
  <2>4. CASE i = n - 1 /\ j = frames[i].next - 1
    <3>1. dependencies[frames[i].mod][frames[i].next - 1] = frames[i + 1].mod
      BY DEF SearchInvariant, CallsFollowEdges, n
    <3>2. i + 1 = n
      BY <2>4
    <3> QED
      BY <2>4, <3>1, <3>2 DEF top
  <2> QED
    BY <2>3, <2>4
<1>13. VisitedIsOrdered'
  <2>1. \A k \in 1..Len(ordered') : ordered'[k] \in visited'
    BY <1>6, <1>7, <1>8 DEF SearchInvariant, VisitedIsOrdered
  <2>2. \A m \in visited' : \E k \in 1..Len(ordered') : ordered'[k] = m
    BY <1>6, <1>7, <1>8 DEF SearchInvariant, VisitedIsOrdered
  <2>3. \A k \in 1..Len(ordered) : ordered[k] # top
    BY <1>9 DEF SearchInvariant, VisitedIsOrdered
  <2>4. \A k, l \in 1..Len(ordered') : ordered'[k] = ordered'[l] => k = l
    BY <1>7, <1>8, <2>3 DEF SearchInvariant, VisitedIsOrdered
  <2> QED
    BY <2>1, <2>2, <2>4 DEF VisitedIsOrdered
<1>14. NothingForgotten'
  BY <1>6 DEF SearchInvariant, NothingForgotten
<1>15. DependenciesFirst'
  <2>1. SUFFICES ASSUME cyclic = {}, NEW k \in 1..(Len(ordered) + 1),
                        NEW j \in 1..Len(dependencies[ordered'[k]])
                 PROVE  \E l \in 1..(k - 1) : ordered'[l] = dependencies[ordered'[k]][j]
    BY <1>6, <1>8 DEF DependenciesFirst
  <2>2. CASE k \in 1..Len(ordered)
    <3>1. PICK l \in 1..(k - 1) : ordered[l] = dependencies[ordered[k]][j]
      BY <1>8, <2>1, <2>2 DEF SearchInvariant, DependenciesFirst
    <3>2. l \in 1..Len(ordered)
      BY <1>7, <2>2
    <3> QED
      BY <1>8, <2>2, <3>1, <3>2
  <2>3. CASE k = Len(ordered) + 1
    <3>1. j \in 1..Len(dependencies[top]) /\ ordered'[k] = top
      BY <1>8, <2>3
    <3>2. j < frames[n].next
      BY <1>3, <1>4, <1>5, <1>6, <3>1
    <3>3. dependencies[top][j] \in visited
      BY <1>4, <2>1, <3>1, <3>2 DEF SearchInvariant, PassedDependenciesDone, n, top
    <3>4. PICK l \in 1..Len(ordered) : ordered[l] = dependencies[top][j]
      BY <3>3 DEF SearchInvariant, VisitedIsOrdered
    <3>5. l \in 1..(k - 1) /\ ordered'[l] = ordered[l]
      BY <1>7, <1>8, <2>3
    <3> QED
      BY <3>1, <3>4, <3>5
  <2> QED
    BY <1>7, <2>2, <2>3
<1> QED
  BY <1>10, <1>11, <1>12, <1>13, <1>14, <1>15 DEF SearchInvariant

(* SearchInvariant is inductive. *)
LEMMA SearchStep == TypeOK /\ SearchInvariant /\ [TopoNext]_topoAll => SearchInvariant'
<1> SUFFICES ASSUME TypeOK, SearchInvariant, [TopoNext]_topoAll PROVE SearchInvariant'
  OBVIOUS
<1>1. ASSUME NEW m \in modules, NEW fs, Calling(m, fs), Dfs(m, fs),
             UNCHANGED <<visited, ordered, graphVars>>, roots \ {m} \subseteq roots'
      PROVE  SearchInvariant'
  <2>1. /\ StackIsFrames'
        /\ CallsFollowEdges'
        /\ PassedDependenciesDone'
        /\ m \in stack' \cup visited'
        /\ stack \subseteq stack'
    BY <1>1, DfsInvariant
  <2>2. visited' = visited /\ ordered' = ordered /\ modules' = modules /\ dependencies' = dependencies
    BY <1>1 DEF graphVars
  <2>3. VisitedIsOrdered'
    BY <2>2 DEF SearchInvariant, VisitedIsOrdered
  <2>4. NothingForgotten'
    BY <1>1, <2>1, <2>2 DEF SearchInvariant, NothingForgotten
  <2>5. DependenciesFirst'
    <3>1. cyclic' = {} => cyclic = {}
      BY <1>1 DEF Dfs
    <3> QED
      BY <2>2, <3>1 DEF SearchInvariant, DependenciesFirst
  <2> QED
    BY <2>1, <2>3, <2>4, <2>5 DEF SearchInvariant
<1>2. CASE VisitRoot
  <2>1. PICK m \in roots : Dfs(m, frames) /\ roots' = roots \ {m}
    BY <1>2 DEF VisitRoot
  <2>2. UNCHANGED <<visited, ordered, graphVars>>
    BY <1>2 DEF VisitRoot
  <2>3. Calling(m, frames) /\ m \in modules
    BY <1>2, RootCalls DEF TypeOK
  <2> QED
    BY <1>1, <2>1, <2>2, <2>3
<1>3. CASE VisitDependency
  <2>1. PICK fs, m : /\ fs = [frames EXCEPT ![Len(frames)].next = @ + 1]
                     /\ m = dependencies[Top.mod][Top.next]
    OBVIOUS
  <2>2. Dfs(m, fs) /\ UNCHANGED <<roots, visited, ordered, graphVars>>
    BY <1>3, <2>1 DEF VisitDependency
  <2>3. Calling(m, fs) /\ m \in modules
    BY <1>3, <2>1, DependencyCalls, NextDependency
  <2> QED
    BY <1>1, <2>2, <2>3
<1>4. CASE LeaveModule
  BY <1>4, LeaveInvariant
<1>5. CASE UNCHANGED topoAll
  BY <1>5 DEF topoAll, SearchInvariant, StackIsFrames, CallsFollowEdges,
     PassedDependenciesDone, VisitedIsOrdered, NothingForgotten, DependenciesFirst
<1> QED
  BY <1>2, <1>3, <1>4, <1>5 DEF TopoNext

(* The search starts in a state that its invariant describes. *)
LEMMA SearchStart == GraphOK /\ TopoInit => TypeOK /\ SearchInvariant
BY DEF TypeOK, TopoInit, SearchInvariant, StackIsFrames, CallsFollowEdges,
   PassedDependenciesDone, VisitedIsOrdered, NothingForgotten, DependenciesFirst

(* The invariant of the search holds on every graph. *)
THEOREM SearchCorrect == TopoSpec => []SearchInvariant
<1> QED
  BY SearchStart, TypeCorrect, SearchStep, PTL DEF TopoSpec

(* No module comes before one it depends on, unless a cycle is reported. *)
THEOREM DependenciesComeFirst == TopoSpec => []DependenciesFirst
<1>1. SearchInvariant => DependenciesFirst
  BY DEF SearchInvariant
<1> QED
  BY <1>1, SearchCorrect, PTL

(* When topo_sort returns no module is active or still to come. *)
LEMMA DoneMeansOnce ==
  ASSUME SearchInvariant
  PROVE  EveryModuleOnce
<1> SUFFICES ASSUME TopoDone
             PROVE  /\ \A m \in modules : \E k \in 1..Len(ordered) : ordered[k] = m
                    /\ \A k, l \in 1..Len(ordered) : ordered[k] = ordered[l] => k = l
  BY DEF EveryModuleOnce
<1>1. roots = {} /\ Len(frames) = 0
  BY DEF TopoDone
<1>2. stack = {}
  BY <1>1 DEF SearchInvariant, StackIsFrames
<1> QED
  BY <1>1, <1>2 DEF SearchInvariant, NothingForgotten, VisitedIsOrdered

(* When topo_sort returns, ordered holds each loaded module exactly once. *)
THEOREM EveryModuleComesOnce == TopoSpec => []EveryModuleOnce
<1>1. SearchInvariant => EveryModuleOnce
  BY DoneMeansOnce
<1> QED
  BY <1>1, SearchCorrect, PTL

-----------------------------------------------------------------------------
(* When dfs is called for a module that is active, the active calls from   *)
(* that one to the innermost are a closed walk through it.                 *)
LEMMA ActiveCallsAreAWalk ==
  ASSUME TypeOK, SearchInvariant, VisitDependency,
         dependencies[Top.mod][Top.next] \in stack
  PROVE  \E p \in Seq(modules) : ClosedWalk(p, dependencies[Top.mod][Top.next])
<1>1. PICK n, m : n = Len(frames) /\ m = dependencies[Top.mod][Top.next]
  OBVIOUS
<1>2. n \in Nat \ {0} /\ \A i \in 1..n : frames[i] \in Frame
  BY <1>1 DEF TypeOK, VisitDependency
<1>3. \A i \in 1..n : frames[i].mod \in modules /\ frames[i].next \in Nat \ {0}
  BY <1>2 DEF Frame
<1>4. m \in modules /\ m \in stack
  BY <1>1, NextDependency
<1>5. PICK a \in 1..n : frames[a].mod = m
  BY <1>1, <1>4 DEF SearchInvariant, StackIsFrames
<1>6. \A i \in 1..(n - 1) : \E j \in 1..Len(dependencies[frames[i].mod]) :
         dependencies[frames[i].mod][j] = frames[i + 1].mod
  BY <1>1 DEF SearchInvariant, CallsFollowEdges
<1>7. \E j \in 1..Len(dependencies[frames[n].mod]) : dependencies[frames[n].mod][j] = m
  <2>1. Top = frames[n] /\ Len(dependencies[frames[n].mod]) \in Nat
    BY <1>1, <1>2, <1>3 DEF Top, TypeOK, GraphOK
  <2>2. frames[n].next \in 1..Len(dependencies[frames[n].mod])
    BY <1>2, <1>3, <2>1 DEF VisitDependency
  <2> QED
    BY <1>1, <2>1, <2>2
<1>8. PICK c : c = n - a + 2
  OBVIOUS
<1>9. c \in Nat /\ c >= 2
  BY <1>2, <1>5, <1>8
<1> DEFINE p == [k \in 1..c |-> IF k = c THEN m ELSE frames[a + k - 1].mod]
<1>10. \A k \in 1..(c - 1) : a + k - 1 \in 1..n
  BY <1>2, <1>5, <1>8
<1>11. \A k \in 1..c : p[k] \in modules
  <2>1. \A k \in 1..c : k # c => k \in 1..(c - 1)
    BY <1>9
  <2> QED
    BY <1>3, <1>4, <1>10, <2>1
<1>12. p \in Seq(modules) /\ Len(p) = c
  BY <1>9, <1>11
<1>13. p[1] = m /\ p[c] = m
  <2>1. 1 \in 1..c /\ c \in 1..c /\ 1 # c /\ a + 1 - 1 = a
    BY <1>5, <1>9
  <2> QED
    BY <1>5, <2>1
<1>14. ASSUME NEW i \in 1..(c - 1)
       PROVE  \E j \in 1..Len(dependencies[p[i]]) : dependencies[p[i]][j] = p[i + 1]
  <2>1. i \in 1..c /\ i # c /\ p[i] = frames[a + i - 1].mod
    BY <1>9
  <2>2. CASE i = c - 1
    <3>1. a + i - 1 = n /\ i + 1 = c
      BY <1>2, <1>5, <1>8, <2>2
    <3> QED
      BY <1>7, <1>13, <2>1, <3>1
  <2>3. CASE i # c - 1
    <3>1. i + 1 \in 1..c /\ i + 1 # c /\ a + (i + 1) - 1 = (a + i - 1) + 1
      BY <1>2, <1>5, <1>9, <2>3
    <3>2. p[i + 1] = frames[(a + i - 1) + 1].mod
      BY <3>1
    <3>3. a + i - 1 \in 1..(n - 1)
      BY <1>2, <1>5, <1>8, <2>3
    <3> QED
      BY <1>6, <2>1, <3>2, <3>3
  <2> QED
    BY <2>2, <2>3
<1> HIDE DEF p
<1>15. ClosedWalk(p, m)
  BY <1>9, <1>12, <1>13, <1>14 DEF ClosedWalk
<1> QED
  BY <1>1, <1>12, <1>15

(* topo_sort reports a cycle only where there is one. *)
THEOREM ReportedCyclesAreReal == TopoSpec => []ReportedCyclesExist
<1>1. GraphOK /\ TopoInit => ReportedCyclesExist
  BY DEF TopoInit, ReportedCyclesExist
<1>2. TypeOK /\ SearchInvariant /\ ReportedCyclesExist /\ [TopoNext]_topoAll => ReportedCyclesExist'
  <2> SUFFICES ASSUME TypeOK, SearchInvariant, ReportedCyclesExist, [TopoNext]_topoAll
               PROVE  ReportedCyclesExist'
    OBVIOUS
  <2>1. modules' = modules /\ dependencies' = dependencies
    BY DEF TopoNext, VisitRoot, VisitDependency, LeaveModule, topoAll, graphVars
  <2>2. \A p, m : ClosedWalk(p, m)' = ClosedWalk(p, m)
    BY <2>1 DEF ClosedWalk
  <2>3. CASE cyclic' = cyclic
    BY <2>1, <2>2, <2>3 DEF ReportedCyclesExist
  <2>4. CASE cyclic' # cyclic
    <3>1. VisitRoot \/ VisitDependency
      BY <2>4 DEF TopoNext, LeaveModule, topoAll
    <3>2. ~VisitRoot
      <4>1. SUFFICES ASSUME VisitRoot PROVE FALSE
        OBVIOUS
      <4>2. Len(frames) = 0
        BY <4>1 DEF VisitRoot
      <4>3. stack = {}
        BY <4>2 DEF SearchInvariant, StackIsFrames
      <4> QED
        BY <2>4, <4>1, <4>3 DEF VisitRoot, Dfs
    <3>3. VisitDependency
      BY <3>1, <3>2
    <3>4. PICK m : /\ m = dependencies[Top.mod][Top.next]
                   /\ m \in stack
                   /\ cyclic' = cyclic \cup {m}
      BY <2>4, <3>3 DEF VisitDependency, Dfs
    <3>5. \E p \in Seq(modules) : ClosedWalk(p, m)
      BY <3>3, <3>4, ActiveCallsAreAWalk
    <3> QED
      BY <2>1, <2>2, <3>4, <3>5 DEF ReportedCyclesExist
  <2> QED
    BY <2>3, <2>4
<1> QED
  BY <1>1, <1>2, TypeCorrect, SearchCorrect, PTL DEF TopoSpec

-----------------------------------------------------------------------------
(* A set of numbers has a least element. *)
LEMMA Least ==
  ASSUME NEW T \in SUBSET Nat, T # {}
  PROVE  \E x \in T : \A y \in T : x <= y
<1> DEFINE R == OpToRel(<, Nat)
<1>1. IsWellFoundedOn(R, Nat)
  BY NatLessThanWellFounded
<1>2. \A x, y \in Nat : y < x => <<y, x>> \in R
  BY DEF OpToRel
<1> HIDE DEF R
<1>3. PICK x \in T : \A y \in T : ~ (<<y, x>> \in R)
  BY <1>1, WFMin
<1>4. ASSUME NEW y \in T PROVE x <= y
  <2>1. ~ (<<y, x>> \in R)
    BY <1>3
  <2>2. ~ (y < x)
    BY <1>2, <2>1, Zenon
  <2> QED
    BY <2>2
<1> QED
  BY <1>4

(* A closed walk leads through every set that holds the dependencies of    *)
(* its start and of its own members.                                       *)
LEMMA WalkOnCycle ==
  ASSUME NEW m \in modules, NEW p \in Seq(modules), ClosedWalk(p, m)
  PROVE  OnCycle(m)
<1> SUFFICES ASSUME NEW S \in SUBSET modules, DependenciesIn(m, S),
                    \A x \in S : DependenciesIn(x, S)
             PROVE  m \in S
  BY DEF OnCycle
<1>1. PICK n \in Nat : n = Len(p) /\ n >= 2
  BY DEF ClosedWalk
<1>2. p[1] = m /\ p[n] = m
  BY <1>1 DEF ClosedWalk
<1>3. \A i \in 1..(n - 1) : \E j \in 1..Len(dependencies[p[i]]) : dependencies[p[i]][j] = p[i + 1]
  BY <1>1 DEF ClosedWalk
<1> DEFINE T == {i \in 2..n : p[i] \notin S}
<1>4. T = {}
  <2> SUFFICES ASSUME T # {} PROVE FALSE
    OBVIOUS
  <2>1. T \in SUBSET Nat
    BY <1>1
  <2>2. PICK k \in T : \A i \in T : k <= i
    BY <2>1, Least
  <2>3. DependenciesIn(p[k - 1], S)
    <3>1. CASE k = 2
      BY <1>2, <3>1
    <3>2. CASE k # 2
      <4>1. k - 1 \in 2..n /\ k - 1 \notin T
        BY <1>1, <2>2, <3>2
      <4> QED
        BY <4>1
    <3> QED
      BY <3>1, <3>2
  <2>4. k - 1 \in 1..(n - 1) /\ (k - 1) + 1 = k
    BY <1>1, <2>2
  <2>5. PICK j \in 1..Len(dependencies[p[k - 1]]) : dependencies[p[k - 1]][j] = p[k]
    BY <1>3, <2>4
  <2>6. p[k] \in S
    BY <2>3, <2>5 DEF DependenciesIn
  <2> QED
    BY <2>2, <2>6
<1>5. n \in 2..n
  BY <1>1
<1> QED
  BY <1>2, <1>4, <1>5

(* A module in ordered is on no cycle: what comes before it holds its      *)
(* dependencies and those of its own members, and not the module.          *)
LEMMA NoCycleInOrder ==
  ASSUME TypeOK, DependenciesFirst, EveryModuleOnce, TopoDone, cyclic = {}, NEW m \in modules
  PROVE  ~OnCycle(m)
<1>1. PICK c \in Nat : c = Len(ordered)
  BY DEF TypeOK
<1>2. \A k \in 1..c : ordered[k] \in modules
  BY <1>1 DEF TypeOK
<1>3. \A k \in 1..c : \A j \in 1..Len(dependencies[ordered[k]]) :
        \E l \in 1..(k - 1) : ordered[l] = dependencies[ordered[k]][j]
  BY <1>1 DEF DependenciesFirst
<1>4. /\ \E k \in 1..c : ordered[k] = m
      /\ \A k, l \in 1..c : ordered[k] = ordered[l] => k = l
  BY <1>1 DEF EveryModuleOnce
<1>5. PICK k \in 1..c : ordered[k] = m
  BY <1>4
<1> DEFINE S == {ordered[l] : l \in 1..(k - 1)}
<1>6. \A l \in 1..(k - 1) : l \in 1..c /\ l # k /\ 1..(l - 1) \subseteq 1..(k - 1)
  BY <1>1, <1>5
<1>7. S \in SUBSET modules /\ m \notin S
  BY <1>2, <1>4, <1>5, <1>6
<1>8. DependenciesIn(m, S)
  BY <1>3, <1>5 DEF DependenciesIn
<1>9. ASSUME NEW x \in S PROVE DependenciesIn(x, S)
  <2>1. PICK l \in 1..(k - 1) : ordered[l] = x
    OBVIOUS
  <2>2. \A j \in 1..Len(dependencies[x]) : \E h \in 1..(l - 1) : ordered[h] = dependencies[x][j]
    BY <1>3, <1>6, <2>1
  <2> QED
    BY <1>6, <2>1, <2>2 DEF DependenciesIn
<1> QED
  BY <1>7, <1>8, <1>9 DEF OnCycle

(***************************************************************************)
(* topo_sort blames only modules that lie on a cycle and misses none: if   *)
(* it reports nothing, the graph has no cycle.                             *)
(***************************************************************************)
THEOREM CyclesAreReported == TopoSpec => []CyclesReported
<1>1. TypeOK /\ SearchInvariant /\ EveryModuleOnce /\ ReportedCyclesExist => CyclesReported
  <2> SUFFICES ASSUME TypeOK, SearchInvariant, EveryModuleOnce, ReportedCyclesExist
               PROVE  CyclesReported
    OBVIOUS
  <2>1. ASSUME NEW m \in cyclic PROVE OnCycle(m)
    <3>1. PICK p \in Seq(modules) : ClosedWalk(p, m)
      BY DEF ReportedCyclesExist
    <3>2. m \in modules
      BY DEF TypeOK
    <3> QED
      BY <3>1, <3>2, WalkOnCycle
  <2>2. DependenciesFirst
    BY DEF SearchInvariant
  <2> QED
    BY <2>1, <2>2, NoCycleInOrder DEF CyclesReported
<1> QED
  BY <1>1, TypeCorrect, SearchCorrect, EveryModuleComesOnce, ReportedCyclesAreReal, PTL
=============================================================================
