------------------------------- MODULE MCPrune -------------------------------
(* Model checking Prune over every choice of entry points and almost every *)
(* call graph and use of the entries.  What is left out repeats what is    *)
(* in: of the functions only the first may call itself, and a function     *)
(* uses at most one entry (two that are kept use both between them).       *)
EXTENDS Prune, FiniteSets

MCInit ==
  /\ calls \in [Ids -> SUBSET Ids]
  /\ \A f \in Ids \ {0} : f \notin calls[f]
  /\ uses \in [Ids -> {{}} \cup {{e} : e \in Entries}]
  /\ entryRoots \in SUBSET Ids
  /\ PruneInit

MCSpec == MCInit /\ [][Next]_vars /\ WF_vars(Next)
=============================================================================
