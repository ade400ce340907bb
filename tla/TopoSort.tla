------------------------------ MODULE TopoSort ------------------------------
(***************************************************************************)
(* ModuleManager::topo_sort (src/modules/modules.cpp): the depth-first     *)
(* search that puts the loaded modules into the order in which semantic    *)
(* analysis and IR generation process them.                                *)
(*                                                                         *)
(* The recursive lambda dfs is modelled with an explicit call stack: one   *)
(* frame per active call, holding the module and the position of its loop  *)
(* over mod->dependencies.  One step is one call of dfs up to the point    *)
(* where it either returns at once or enters its loop, or the return from  *)
(* a call whose loop is finished.                                          *)
(***************************************************************************)
EXTENDS Naturals, Sequences

CONSTANTS
  Names,   \* the module names a program can mention
  Rank     \* the place of a name in the order of std::string's operator<

ASSUME RankAssumption ==
  /\ Rank \in [Names -> Nat]
  /\ \A m, n \in Names : Rank[m] = Rank[n] => m = n

VARIABLES
  modules,       \* ModuleManager::modules, the names that have a Module
  dependencies,  \* Module::dependencies of every module
  roots,         \* roots whose dfs call is still to come
  frames,        \* the active calls of dfs, outermost first
  visited,       \* the local set visited
  stack,         \* the local set stack
  ordered,       \* ModuleManager::ordered
  cyclic         \* modules reported as "cyclic dependency detected at"

graphVars == <<modules, dependencies>>
topoVars  == <<roots, frames, visited, stack, ordered, cyclic>>
topoAll   == <<modules, dependencies, roots, frames, visited, stack, ordered, cyclic>>

(* An active call: its module and the dependency it goes on to. *)
Frame == [mod : modules, next : Nat \ {0}]

-----------------------------------------------------------------------------
(* The next of the roots, which are sorted by name for determinism. *)
IsFirst(m, S) == m \in S /\ \A n \in S : Rank[m] <= Rank[n]

(* topo_sort is called: what it sets its locals and ordered to. *)
TopoReset ==
  /\ roots' = modules
  /\ frames' = <<>>
  /\ visited' = {}
  /\ stack' = {}
  /\ ordered' = <<>>

TopoInit ==
  /\ roots = modules
  /\ frames = <<>>
  /\ visited = {}
  /\ stack = {}
  /\ ordered = <<>>
  /\ cyclic = {}

(* Fault of dfs: a module on the stack is passed over in silence. *)
DfsSilent(m, fs) ==
  \/ /\ m \in visited \cup stack
     /\ frames' = fs
     /\ UNCHANGED <<stack, cyclic>>
  \/ /\ m \notin visited \cup stack
     /\ stack' = stack \cup {m}
     /\ frames' = Append(fs, [mod |-> m, next |-> 1])
     /\ UNCHANGED cyclic

(* The call dfs(m), made when the calls in fs are active. *)
Dfs(m, fs) ==
  \/ /\ m \in visited
     /\ frames' = fs
     /\ UNCHANGED <<stack, cyclic>>
  \/ /\ m \notin visited
     /\ m \in stack
     /\ cyclic' = cyclic \cup {m}
     /\ frames' = fs
     /\ UNCHANGED stack
  \/ /\ m \notin visited
     /\ m \notin stack
     /\ stack' = stack \cup {m}
     /\ frames' = Append(fs, [mod |-> m, next |-> 1])
     /\ UNCHANGED cyclic

Top == frames[Len(frames)]

(* The loop over the roots calls dfs for the next one. *)
VisitRoot ==
  /\ frames = <<>>
  /\ \E m \in roots :
       /\ IsFirst(m, roots)
       /\ Dfs(m, frames)
       /\ roots' = roots \ {m}
  /\ UNCHANGED <<visited, ordered, graphVars>>

(* Fault: the loop does not go on to the next dependency. *)
VisitSameDependency ==
  /\ frames # <<>>
  /\ Top.next <= Len(dependencies[Top.mod])
  /\ Dfs(dependencies[Top.mod][Top.next], frames)
  /\ UNCHANGED <<roots, visited, ordered, graphVars>>

(* The innermost active call goes on to its next dependency. *)
VisitDependency ==
  /\ frames # <<>>
  /\ Top.next <= Len(dependencies[Top.mod])
  /\ Dfs(dependencies[Top.mod][Top.next],
         [frames EXCEPT ![Len(frames)].next = @ + 1])
  /\ UNCHANGED <<roots, visited, ordered, graphVars>>

(* Faults of the return: before the last dependency, without the insertion *)
(* into visited, without the removal from stack.                           *)
LeaveWith(last, newVisited, newStack) ==
  /\ frames # <<>>
  /\ Top.next > last
  /\ stack' = newStack
  /\ visited' = newVisited
  /\ ordered' = Append(ordered, Top.mod)
  /\ frames' = SubSeq(frames, 1, Len(frames) - 1)
  /\ UNCHANGED <<roots, cyclic, graphVars>>
LeaveEarly ==
  LeaveWith(Len(dependencies[Top.mod]) - 1, visited \cup {Top.mod}, stack \ {Top.mod})
LeaveUnvisited == LeaveWith(Len(dependencies[Top.mod]), visited, stack \ {Top.mod})
LeaveOnStack == LeaveWith(Len(dependencies[Top.mod]), visited \cup {Top.mod}, stack)

(* The innermost active call has seen all its dependencies and returns. *)
LeaveModule ==
  /\ frames # <<>>
  /\ Top.next > Len(dependencies[Top.mod])
  /\ stack' = stack \ {Top.mod}
  /\ visited' = visited \cup {Top.mod}
  /\ ordered' = Append(ordered, Top.mod)
  /\ frames' = SubSeq(frames, 1, Len(frames) - 1)
  /\ UNCHANGED <<roots, cyclic, graphVars>>

TopoNext == VisitRoot \/ VisitDependency \/ LeaveModule

TopoDone == roots = {} /\ frames = <<>>

-----------------------------------------------------------------------------
(* The graph build_graph leaves: dependencies are loaded modules. *)
GraphOK ==
  /\ modules \subseteq Names
  /\ dependencies \in [Names -> Seq(Names)]
  /\ \A m \in Names : \A i \in 1..Len(dependencies[m]) :
        dependencies[m][i] \in modules

(* topo_sort on its own, on any such graph. *)
TopoSpec == GraphOK /\ TopoInit /\ [][TopoNext]_topoAll

TypeOK ==
  /\ GraphOK
  /\ roots \subseteq modules
  /\ frames \in Seq(Frame)
  /\ visited \subseteq modules
  /\ stack \subseteq modules
  /\ ordered \in Seq(modules)
  /\ cyclic \subseteq modules

(***************************************************************************)
(* Whatever has been put into ordered comes after everything it depends    *)
(* on, as long as no cycle was reported: main.cpp analyzes the modules in  *)
(* this order and relies on the symbols of a dependency being there.       *)
(***************************************************************************)
DependenciesFirst ==
  cyclic = {} =>
    \A k \in 1..Len(ordered) :
      \A j \in 1..Len(dependencies[ordered[k]]) :
        \E l \in 1..(k - 1) : ordered[l] = dependencies[ordered[k]][j]

(***************************************************************************)
(* When topo_sort is finished every loaded module is in ordered, once:     *)
(* a module that is missing is never analyzed, one that is there twice     *)
(* declares its symbols twice.                                             *)
(***************************************************************************)
EveryModuleOnce ==
  TopoDone =>
    /\ \A m \in modules : \E k \in 1..Len(ordered) : ordered[k] = m
    /\ \A k, l \in 1..Len(ordered) : ordered[k] = ordered[l] => k = l

(* A closed walk through m along the edges of the dependency graph. *)
ClosedWalk(p, m) ==
  /\ Len(p) >= 2
  /\ p[1] = m
  /\ p[Len(p)] = m
  /\ \A i \in 1..(Len(p) - 1) :
       \E j \in 1..Len(dependencies[p[i]]) : dependencies[p[i]][j] = p[i + 1]

(***************************************************************************)
(* A module that is reported really lies on a dependency cycle: a program  *)
(* without a cycle is never rejected by topo_sort.                         *)
(***************************************************************************)
ReportedCyclesExist ==
  \A m \in cyclic : \E p \in Seq(modules) : ClosedWalk(p, m)

(* m reaches itself: whatever holds its dependencies, and those of its own *)
(* members, holds m.                                                       *)
DependenciesIn(m, S) == \A i \in 1..Len(dependencies[m]) : dependencies[m][i] \in S
OnCycle(m) ==
  \A S \in SUBSET modules :
    DependenciesIn(m, S) /\ (\A n \in S : DependenciesIn(n, S)) => m \in S

(***************************************************************************)
(* At the end a cycle is reported exactly when the graph has one, and only *)
(* at modules that lie on one: no cyclic program goes on to the analysis,  *)
(* no acyclic one is refused.                                              *)
(***************************************************************************)
CyclesReported ==
  /\ \A m \in cyclic : OnCycle(m)
  /\ TopoDone /\ cyclic = {} => \A m \in modules : ~OnCycle(m)

-----------------------------------------------------------------------------
(* The set stack holds the modules of the active calls, each active once   *)
(* and none of them finished.                                              *)
StackIsFrames ==
  /\ \A i \in 1..Len(frames) : frames[i].mod \in stack
  /\ \A m \in stack : \E i \in 1..Len(frames) : frames[i].mod = m
  /\ \A i, j \in 1..Len(frames) : frames[i].mod = frames[j].mod => i = j
  /\ \A m \in stack : m \notin visited

(* Each active call was made for the dependency its caller is at. *)
CallsFollowEdges ==
  \A i \in 1..(Len(frames) - 1) :
    /\ frames[i].next - 1 \in 1..Len(dependencies[frames[i].mod])
    /\ dependencies[frames[i].mod][frames[i].next - 1] = frames[i + 1].mod

(* What an active call has dealt with is finished, or is the call it is    *)
(* waiting for, or closed a cycle.                                         *)
PassedDependenciesDone ==
  cyclic = {} =>
    \A i \in 1..Len(frames) : \A j \in 1..Len(dependencies[frames[i].mod]) :
      j < frames[i].next =>
        \/ dependencies[frames[i].mod][j] \in visited
        \/ i < Len(frames) /\ j = frames[i].next - 1

VisitedIsOrdered ==
  /\ \A k \in 1..Len(ordered) : ordered[k] \in visited
  /\ \A m \in visited : \E k \in 1..Len(ordered) : ordered[k] = m
  /\ \A k, l \in 1..Len(ordered) : ordered[k] = ordered[l] => k = l

NothingForgotten == \A m \in modules : m \in roots \cup stack \cup visited

(***************************************************************************)
(* The inductive invariant of the search: how the sets visited and stack,  *)
(* the active calls and ordered hang together at every step of dfs.        *)
(***************************************************************************)
SearchInvariant ==
  /\ StackIsFrames
  /\ CallsFollowEdges
  /\ PassedDependenciesDone
  /\ VisitedIsOrdered
  /\ NothingForgotten
  /\ DependenciesFirst
=============================================================================
