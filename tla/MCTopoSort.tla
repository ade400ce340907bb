----------------------------- MODULE MCTopoSort -----------------------------
(* Model checking TopoSort over every dependency graph of a few modules.   *)
EXTENDS TopoSort

CONSTANT MaxDeps   \* bound on the length of Module::dependencies

MCNames == {"a", "b", "c"}
MCRank == [n \in MCNames |-> CASE n = "a" -> 1 [] n = "b" -> 2 [] OTHER -> 3]

Graphs == [Names -> UNION {[1..k -> Names] : k \in 0..MaxDeps}]

MCInit ==
  /\ modules = Names
  /\ dependencies \in Graphs
  /\ TopoInit

MCSpec == MCInit /\ [][TopoNext]_topoAll

(* The compiler is one thread that runs until topo_sort returns. *)
MCFairSpec == MCSpec /\ WF_topoAll(TopoNext)

(* topo_sort returns on every graph, cyclic ones included. *)
TopoTerminates == <>TopoDone
=============================================================================
