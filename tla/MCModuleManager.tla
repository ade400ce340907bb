--------------------------- MODULE MCModuleManager ---------------------------
(* Model checking ModuleManager over a family of small source trees.       *)
EXTENDS ModuleManager

MCNames == {"a", "b", "c"}
MCRank == [n \in MCNames |-> CASE n = "a" -> 1 [] n = "b" -> 2 [] OTHER -> 3]
MCFiles == {"entry", "f1", "f2"}

ImportLists == {<<>>, <<"b">>, <<"c">>, <<"b", "c">>}

At(primary, dir, exclusive) == [primary |-> primary, dir |-> dir, exclusive |-> exclusive]

(* Where "b" is found: a file, a directory, both at a base, an embedded    *)
(* directory without it before a base that has it, an override.            *)
PlacesOfB == {
  << >>,
  << At("f1", <<>>, FALSE) >>,
  << At("f1", <<"f2">>, TRUE) >>,
  << At(NoFile, <<"f1", "f2">>, FALSE) >>,
  << At(NoFile, <<"f2">>, TRUE), At("f1", <<"f2">>, FALSE) >> }
PlacesOfC == {
  << >>,
  << At("f2", <<>>, FALSE) >>,
  << At(NoFile, <<"f1", "f2">>, TRUE), At("f2", <<>>, FALSE) >> }

MCTrees ==
  { [entry |-> e, format |-> r, broken |-> x,
     name |-> [f \in Files |-> CASE f = "entry" -> "a" [] f = "f1" -> n1 [] OTHER -> n2],
     imports |-> [f \in Files |-> CASE f = "entry" -> ie [] f = "f1" -> i1 [] OTHER -> i2],
     places |-> [m \in Names |-> [n \in Names |->
        CASE n = "b" -> pb [] n = "c" -> pc [] OTHER -> <<>>]]] :
    e \in {"entry"}, r \in {NoFile, "f2"}, x \in {{}, {"f1"}}, n1 \in {"a", "b"}, n2 \in Names,
    ie \in {<<"b">>, <<"c">>, <<"c", "b">>}, i1 \in ImportLists, i2 \in ImportLists,
    pb \in PlacesOfB, pc \in PlacesOfC }
  \cup
  { [entry |-> NoFile, format |-> "f1", broken |-> {},
     name |-> [f \in Files |-> "b"], imports |-> [f \in Files |-> <<>>],
     places |-> [m \in Names |-> [n \in Names |-> <<>>]]] }
=============================================================================
