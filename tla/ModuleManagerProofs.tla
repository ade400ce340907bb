------------------------- MODULE ModuleManagerProofs -------------------------
(***************************************************************************)
(* Proofs about ModuleManager, for every set of files and every family of  *)
(* source trees: each file is merged once, the analysis starts only on     *)
(* sound programs, and in a tree that is laid out as documented every      *)
(* import is resolved and no loop is disturbed.                            *)
(***************************************************************************)
EXTENDS ModuleManager, TopoSortProofs

-----------------------------------------------------------------------------
(* Merging imports *)

MergeOne(acc, i) == IF Contains(acc, i) THEN acc ELSE Append(acc, i)

(* f holds the list after each of the first n imports. *)
Merging(old, new, n, f) ==
  f = [i \in 0..n |-> IF i = 0 THEN old ELSE MergeOne(f[i - 1], new[i])]

(* There is such a function, so the recursion of MergeImports means it.     *)
LEMMA MergingExists ==
  ASSUME NEW old, NEW new, NEW n \in Nat
  PROVE  \E f : Merging(old, new, n, f)
<1> DEFINE T == {k \in Nat : ~ \E f : Merging(old, new, k, f)}
<1> SUFFICES ASSUME T # {} PROVE FALSE
  OBVIOUS
<1>1. PICK k \in T : \A j \in T : k <= j
  BY Least
<1>2. k # 0
  <2>1. Merging(old, new, 0, [i \in 0..0 |-> old])
    BY DEF Merging
  <2> QED
    BY <1>1, <2>1
<1>3. k - 1 \in Nat /\ k - 1 \notin T
  BY <1>1, <1>2
<1>4. PICK g : Merging(old, new, k - 1, g)
  BY <1>3
<1> DEFINE h == [i \in 0..k |-> IF i = k THEN MergeOne(g[k - 1], new[k]) ELSE g[i]]
<1>5. ASSUME NEW i \in 0..k
      PROVE  h[i] = IF i = 0 THEN old ELSE MergeOne(h[i - 1], new[i])
  <2>1. CASE i = k
    <3>1. k - 1 \in 0..k /\ k - 1 # k /\ i # 0
      BY <1>2, <1>3, <2>1
    <3> QED
      BY <2>1, <3>1
  <2>2. CASE i # k
    <3>1. i \in 0..(k - 1)
      BY <1>3, <2>2
    <3>2. g[i] = IF i = 0 THEN old ELSE MergeOne(g[i - 1], new[i])
      BY <1>4, <3>1 DEF Merging
    <3>3. i # 0 => i - 1 \in 0..k /\ i - 1 # k
      BY <1>3, <3>1
    <3> QED
      BY <2>2, <3>2, <3>3
  <2> QED
    BY <2>1, <2>2
<1>6. Merging(old, new, k, h)
  <2> DEFINE e == [i \in 0..k |-> IF i = 0 THEN old ELSE MergeOne(h[i - 1], new[i])]
  <2>1. DOMAIN h = 0..k /\ h = [i \in 0..k |-> h[i]]
    OBVIOUS
  <2> HIDE DEF h
  <2>2. h = e
    BY <1>5, <2>1
  <2> QED
    BY <2>2 DEF Merging
<1> QED
  BY <1>1, <1>6

LEMMA MergeType ==
  ASSUME NEW S, NEW old \in Seq(S), NEW new \in Seq(S)
  PROVE  MergeImports(old, new) \in Seq(S) /\ Len(old) <= Len(MergeImports(old, new))
<1> DEFINE n == Len(new)
           f == CHOOSE f : Merging(old, new, n, f)
<1>1. n \in Nat
  OBVIOUS
<1>2. Merging(old, new, n, f)
  BY <1>1, MergingExists
<1>3. MergeImports(old, new) = f[n]
  BY DEF MergeImports, Merging, MergeOne
<1> HIDE DEF f
<1> DEFINE Grown(s) == s \in Seq(S) /\ Len(old) <= Len(s)
           T == {k \in 0..n : ~ Grown(f[k])}
<1>4. T = {}
  <2> SUFFICES ASSUME T # {} PROVE FALSE
    OBVIOUS
  <2>1. T \in SUBSET Nat
    BY <1>1
  <2>2. PICK k \in T : \A j \in T : k <= j
    BY <2>1, Least
  <2>3. k \in 0..n /\ ~ Grown(f[k])
    BY <2>2
  <2>4. f[k] = IF k = 0 THEN old ELSE MergeOne(f[k - 1], new[k])
    BY <1>2, <2>3 DEF Merging
  <2>5. CASE k = 0
    BY <2>3, <2>4, <2>5
  <2>6. CASE k # 0
    <3>1. k - 1 \in 0..n /\ k \in 1..n /\ ~(k <= k - 1)
      BY <1>1, <2>3, <2>6
    <3>2. Grown(f[k - 1])
      BY <2>2, <3>1
    <3>3. new[k] \in S
      BY <3>1
    <3>4. Grown(MergeOne(f[k - 1], new[k]))
      BY <3>2, <3>3 DEF MergeOne
    <3> QED
      BY <2>3, <2>4, <2>6, <3>4
  <2> QED
    BY <2>5, <2>6
<1>5. n \in 0..n
  BY <1>1
<1> QED
  BY <1>3, <1>4, <1>5

-----------------------------------------------------------------------------
(* The types *)

GFrame == [mod : modules, next : Nat \ {0}, end : Nat]
Scan == [imp : Names, places : Seq(Place), pending : Seq(Pending), dep : modules \cup {NoModule}]

LoaderTypeOK ==
  /\ tree \in Trees
  /\ loaded \subseteq Files
  /\ asts \in [Names -> Seq(Files)]
  /\ imports \in [Names -> Seq(Names)]
  /\ GraphOK
  /\ groots \subseteq modules /\ gvisited \subseteq modules
  /\ gframes \in Seq(GFrame)
  /\ \A i \in DOMAIN gframes : gframes[i].end <= Len(imports[gframes[i].mod])
  /\ scan \in Scan \cup {NoModule}
  /\ scan # NoModule => gframes # <<>>

(* What has been loaded is a module, and left its errors. *)
LoadedOK ==
  /\ \A f \in loaded : tree.name[f] \in modules
  /\ FilesMergedOnce
  /\ \A f \in loaded \cap tree.broken : <<"parse", f>> \in errors

Early == phase \in {"entry", "format", "build"}

PhasesOK ==
  /\ Early => groots = {} /\ gframes = <<>> /\ gvisited = {} /\ scan = NoModule
  /\ Early \/ phase = "graph" => cyclic = {}
  /\ phase \in {"topo", "analyze"} => TypeOK /\ SearchInvariant
  /\ phase = "analyze" => TopoDone /\ errors = {} /\ cyclic = {}

LoaderInvariant == LoaderTypeOK /\ LoadedOK /\ PhasesOK

-----------------------------------------------------------------------------
(* Trees that are laid out as documented *)

Settled(m) ==
  \A x \in Names : \A k \in DOMAIN tree.places[x][m] :
    FilesOf(tree.places[x][m][k]) \subseteq loaded

PendingFiles == {scan.pending[i].file : i \in DOMAIN scan.pending}

(* A place that has the import was found. *)
Found == scan # NoModule /\ (scan.pending # <<>> \/ scan.dep # NoModule)

(* main.cpp loads no module that an import can find. *)
EarlyOK ==
  Early =>
    /\ loaded \subseteq {tree.entry, tree.format} \ {NoFile}
    /\ \A m \in modules : \E f \in loaded : tree.name[f] = m

SearchedSettled == \A m \in groots \cup gvisited : Settled(m)

ScanOK ==
  scan # NoModule =>
    /\ GTop.next <= GTop.end
    /\ scan.imp = imports[GTop.mod][GTop.next]
    /\ scan.dep \in {NoModule, scan.imp}
    /\ \A k \in DOMAIN scan.places :
         \E x \in Names : \E j \in DOMAIN tree.places[x][scan.imp] :
           scan.places[k] = tree.places[x][scan.imp][j]
    /\ \A f \in PendingFiles :
         \E x \in Names : \E j \in DOMAIN tree.places[x][scan.imp] :
           f \in FilesOf(tree.places[x][scan.imp][j])
    /\ Found => \A f \in Files : tree.name[f] = scan.imp => f \in loaded \cup PendingFiles

FramesOK ==
  \A i \in DOMAIN gframes :
    gframes[i].mod \in gvisited /\ gframes[i].end = Len(imports[gframes[i].mod])

NoneForgotten ==
  /\ phase = "graph" =>
       \A m \in modules : m \in groots \cup gvisited \/ (Found /\ scan.imp = m)
  /\ phase \in {"topo", "analyze"} => modules \subseteq gvisited /\ gframes = <<>>

(* A searched module has a dependency for each import, but for the ones    *)
(* its active call is still to go through.                                 *)
ImportsGoneThrough ==
  errors = {} =>
    \A m \in gvisited : \A k \in 1..Len(imports[m]) :
      \/ Contains(dependencies[m], imports[m][k])
      \/ \E i \in DOMAIN gframes : gframes[i].mod = m /\ gframes[i].next <= k

Layout ==
  EarlyOK /\ SearchedSettled /\ ScanOK /\ FramesOK /\ NoneForgotten /\ ImportsGoneThrough

LayoutInvariant == WellLaidOut => Layout

-----------------------------------------------------------------------------
LEMMA TreeType ==
  ASSUME LoaderTypeOK
  PROVE  /\ tree.entry \in Files \cup {NoFile} /\ tree.format \in Files \cup {NoFile}
         /\ tree.name \in [Files -> Names]
         /\ tree.imports \in [Files -> Seq(Names)]
         /\ tree.places \in [Names -> [Names -> Seq(Place)]]
BY TreesAssumption DEF LoaderTypeOK

(* Loading a file that is not loaded yet. *)
LEMMA BuildModuleKeeps ==
  ASSUME LoaderTypeOK, LoadedOK, NEW f \in Files, f \notin loaded, BuildModule(f), tree' = tree
  PROVE  /\ asts' \in [Names -> Seq(Files)]
         /\ imports' \in [Names -> Seq(Names)]
         /\ \A m \in Names : m # tree.name[f] => imports'[m] = imports[m]
         /\ \A m \in modules : Len(imports[m]) <= Len(imports'[m])
         /\ LoadedOK'
<1> DEFINE n == tree.name[f]
<1>1. n \in Names /\ tree.imports[f] \in Seq(Names) /\ \A g \in loaded : tree.name[g] \in Names
  BY TreeType DEF LoaderTypeOK
<1>2. /\ asts \in [Names -> Seq(Files)] /\ imports \in [Names -> Seq(Names)]
      /\ loaded \subseteq Files
  BY DEF LoaderTypeOK
<1>3. /\ loaded' = loaded \cup {f} /\ modules' = modules \cup {n}
      /\ asts' = [asts EXCEPT ![n] = Append(asts[n], f)]
      /\ imports' = [imports EXCEPT ![n] = ImportsWith(f)]
      /\ errors' = IF f \in tree.broken THEN errors \cup {<<"parse", f>>} ELSE errors
  BY DEF BuildModule
<1>4. /\ ImportsWith(f) \in Seq(Names)
      /\ n \in modules => Len(imports[n]) <= Len(ImportsWith(f))
  <2>1. /\ MergeImports(imports[n], tree.imports[f]) \in Seq(Names)
        /\ Len(imports[n]) <= Len(MergeImports(imports[n], tree.imports[f]))
    BY <1>1, <1>2, MergeType
  <2> QED
    BY <1>1, <2>1 DEF ImportsWith
<1> HIDE DEF n
<1>5. asts' \in [Names -> Seq(Files)]
  BY <1>1, <1>2, <1>3
<1>6. imports' \in [Names -> Seq(Names)] /\ \A m \in Names : m # n => imports'[m] = imports[m]
  BY <1>1, <1>2, <1>3, <1>4
<1>11. ASSUME NEW m \in modules PROVE Len(imports[m]) <= Len(imports'[m])
  <2>1. m \in Names /\ imports[m] \in Seq(Names) /\ Len(imports[m]) \in Nat
    BY <1>2 DEF LoaderTypeOK, GraphOK
  <2>2. CASE m = n
    BY <1>1, <1>2, <1>3, <1>4, <2>2
  <2>3. CASE m # n
    BY <1>6, <2>1, <2>3
  <2> QED
    BY <2>2, <2>3
<1>7. /\ Len(asts[n]) \in Nat /\ Len(asts'[n]) = Len(asts[n]) + 1
      /\ asts'[n][Len(asts[n]) + 1] = f
      /\ \A i \in 1..Len(asts[n]) : asts'[n][i] = asts[n][i]
      /\ \A m \in Names : m # n => asts'[m] = asts[m]
  BY <1>1, <1>2, <1>3
<1>8. FilesMergedOnce'
  <2>1. /\ \A g \in loaded : \E i \in 1..Len(asts[tree.name[g]]) : asts[tree.name[g]][i] = g
        /\ \A m \in Names : \A i \in 1..Len(asts[m]) :
             /\ asts[m][i] \in loaded
             /\ tree.name[asts[m][i]] = m
             /\ \A j \in 1..Len(asts[m]) : asts[m][i] = asts[m][j] => i = j
    BY DEF LoadedOK, FilesMergedOnce
  <2>2. ASSUME NEW g \in loaded \cup {f}
        PROVE  \E i \in 1..Len(asts'[tree.name[g]]) : asts'[tree.name[g]][i] = g
    <3>1. CASE g = f
      <4>1. Len(asts[n]) + 1 \in 1..Len(asts'[n])
        BY <1>7
      <4> QED
        BY <1>7, <3>1, <4>1 DEF n
    <3>2. CASE g # f
      <4>1. PICK i \in 1..Len(asts[tree.name[g]]) : asts[tree.name[g]][i] = g
        BY <2>1, <2>2, <3>2
      <4>2. CASE tree.name[g] = n
        <5>1. i \in 1..Len(asts'[n]) /\ asts'[n][i] = g
          BY <1>7, <4>1, <4>2
        <5> QED
          BY <4>2, <5>1
      <4>3. CASE tree.name[g] # n
        BY <1>1, <1>7, <2>2, <3>2, <4>1, <4>3
      <4> QED
        BY <4>2, <4>3
    <3> QED
      BY <3>1, <3>2
  <2>3. ASSUME NEW i \in 1..Len(asts'[n])
        PROVE  /\ asts'[n][i] \in loaded \cup {f}
               /\ tree.name[asts'[n][i]] = n
               /\ \A j \in 1..Len(asts'[n]) : asts'[n][i] = asts'[n][j] => i = j
    <3>1. \A j \in 1..Len(asts'[n]) : j \in 1..Len(asts[n]) \/ j = Len(asts[n]) + 1
      BY <1>7
    <3>2. \A j \in 1..Len(asts[n]) : asts'[n][j] \in loaded /\ asts'[n][j] # f
      BY <1>1, <1>7, <2>1
    <3>3. \A j, k \in 1..Len(asts[n]) : asts'[n][j] = asts'[n][k] => j = k
      BY <1>1, <1>7, <2>1
    <3>4. asts'[n][i] \in loaded \cup {f} /\ tree.name[asts'[n][i]] = n
      <4>1. tree.name[f] = n
        BY DEF n
      <4>2. CASE i \in 1..Len(asts[n])
        BY <1>1, <1>7, <2>1, <4>2
      <4>3. CASE i = Len(asts[n]) + 1
        BY <1>7, <4>1, <4>3
      <4> QED
        BY <3>1, <4>2, <4>3
    <3>5. ASSUME NEW j \in 1..Len(asts'[n]), asts'[n][i] = asts'[n][j] PROVE i = j
      BY <1>7, <3>1, <3>2, <3>3, <3>5
    <3> QED
      BY <3>4, <3>5
  <2>4. ASSUME NEW m \in Names, m # n, NEW i \in 1..Len(asts'[m])
        PROVE  /\ asts'[m][i] \in loaded \cup {f}
               /\ tree.name[asts'[m][i]] = m
               /\ \A j \in 1..Len(asts'[m]) : asts'[m][i] = asts'[m][j] => i = j
    BY <1>7, <2>1, <2>4
  <2> QED
    BY <1>3, <2>2, <2>3, <2>4 DEF FilesMergedOnce
<1>9. \A g \in loaded' : tree'.name[g] \in modules'
  BY <1>3 DEF LoadedOK, n
<1>10. \A g \in loaded' \cap tree'.broken : <<"parse", g>> \in errors'
  BY <1>3 DEF LoadedOK
<1> QED
  BY <1>5, <1>6, <1>8, <1>9, <1>10, <1>11 DEF LoadedOK, n

(* Loading a file, whether it is loaded already or not. *)
LEMMA LoadFileKeeps ==
  ASSUME LoaderTypeOK, LoadedOK, NEW f \in Files, LoadFile(f), tree' = tree
  PROVE  /\ loaded' = loaded \cup {f}
         /\ modules' = modules \cup {tree.name[f]}
         /\ modules' \subseteq Names
         /\ asts' \in [Names -> Seq(Files)]
         /\ imports' \in [Names -> Seq(Names)]
         /\ errors' = {} => errors = {}
         /\ \A m \in Names : m # tree.name[f] \/ f \in loaded => imports'[m] = imports[m]
         /\ \A m \in modules : Len(imports[m]) <= Len(imports'[m])
         /\ LoadedOK'
<1>1. modules \subseteq Names /\ tree.name[f] \in Names
  BY TreeType DEF LoaderTypeOK, GraphOK
<1>2. CASE f \in loaded
  <2>1. /\ loaded' = loaded /\ modules' = modules /\ asts' = asts /\ imports' = imports
        /\ errors' = errors
    BY <1>2 DEF LoadFile, loadVars
  <2>2. tree.name[f] \in modules
    BY <1>2 DEF LoadedOK
  <2>3. LoadedOK'
    BY <2>1 DEF LoadedOK, FilesMergedOnce
  <2>4. \A m \in modules : Len(imports[m]) <= Len(imports'[m])
    BY <1>1, <2>1 DEF LoaderTypeOK
  <2> QED
    BY <1>1, <1>2, <2>1, <2>2, <2>3, <2>4 DEF LoaderTypeOK
<1>3. CASE f \notin loaded
  <2>1. BuildModule(f)
    BY <1>3 DEF LoadFile
  <2>2. /\ loaded' = loaded \cup {f} /\ modules' = modules \cup {tree.name[f]}
        /\ errors' = {} => errors = {}
    BY <2>1 DEF BuildModule
  <2> QED
    BY <1>1, <1>3, <2>1, <2>2, BuildModuleKeeps
<1> QED
  BY <1>2, <1>3

-----------------------------------------------------------------------------
(* The active calls of the search *)

LEMMA GrownTypes ==
  ASSUME LoaderTypeOK, modules \subseteq modules'
  PROVE  gframes \in Seq(GFrame') /\ scan \in Scan' \cup {NoModule}
<1>1. GFrame \subseteq GFrame' /\ Scan \subseteq Scan'
  BY DEF GFrame, Scan
<1>2. PICK S : S = GFrame
  OBVIOUS
<1>3. PICK R : R = GFrame'
  OBVIOUS
<1>4. gframes \in Seq(R)
  BY <1>1, <1>2, <1>3 DEF LoaderTypeOK
<1> QED
  BY <1>1, <1>3, <1>4 DEF LoaderTypeOK

LEMMA GTopType ==
  ASSUME LoaderTypeOK, gframes # <<>>
  PROVE  /\ Len(gframes) \in Nat \ {0} /\ Len(gframes) \in DOMAIN gframes
         /\ GTop.mod \in modules /\ GTop.mod \in Names
         /\ GTop.next \in Nat \ {0} /\ GTop.end \in Nat
         /\ imports[GTop.mod] \in Seq(Names) /\ GTop.end <= Len(imports[GTop.mod])
<1>1. Len(gframes) \in Nat \ {0} /\ Len(gframes) \in DOMAIN gframes
  BY DEF LoaderTypeOK
<1>2. GTop \in GFrame
  BY <1>1, ElementOfSeq DEF LoaderTypeOK, GTop
<1>3. GTop.end <= Len(imports[GTop.mod])
  BY <1>1 DEF LoaderTypeOK, GTop
<1> QED
  BY <1>1, <1>2, <1>3 DEF GFrame, LoaderTypeOK, GraphOK

(* The innermost call moves on to its next import. *)
LEMMA AdvancedCall ==
  ASSUME LoaderTypeOK, gframes # <<>>
  PROVE  /\ NextImport \in Seq(GFrame)
         /\ Len(NextImport) = Len(gframes)
         /\ \A i \in 1..Len(gframes) :
              /\ NextImport[i].mod = gframes[i].mod
              /\ NextImport[i].end = gframes[i].end
              /\ i < Len(gframes) => NextImport[i].next = gframes[i].next
         /\ NextImport[Len(gframes)].next = gframes[Len(gframes)].next + 1
<1>1. Len(gframes) \in Nat \ {0} /\ DOMAIN gframes = 1..Len(gframes)
  BY DEF LoaderTypeOK
<1>2. \A i \in 1..Len(gframes) : gframes[i] \in [mod : modules, next : Nat \ {0}, end : Nat]
  BY ElementOfSeq DEF LoaderTypeOK, GFrame
<1>3. NextImport = [i \in 1..Len(gframes) |->
         IF i = Len(gframes) THEN [gframes[i] EXCEPT !.next = @ + 1] ELSE gframes[i]]
  BY <1>1 DEF NextImport
<1>4. \A i \in 1..Len(gframes) :
        NextImport[i] \in [mod : modules, next : Nat \ {0}, end : Nat]
  BY <1>1, <1>2, <1>3
<1>5. NextImport \in Seq(GFrame) /\ Len(NextImport) = Len(gframes)
  BY <1>1, <1>3, <1>4 DEF GFrame
<1>6. \A i \in 1..Len(gframes) :
        /\ NextImport[i].mod = gframes[i].mod
        /\ NextImport[i].end = gframes[i].end
        /\ i < Len(gframes) => NextImport[i].next = gframes[i].next
  BY <1>1, <1>2, <1>3
<1>7. NextImport[Len(gframes)].next = gframes[Len(gframes)].next + 1
  BY <1>1, <1>2, <1>3
<1> QED
  BY <1>5, <1>6, <1>7

(* A call of dfs: gfs are the active calls at that moment. *)
CallsFit(gfs) ==
  gfs \in Seq(GFrame) /\ \A i \in DOMAIN gfs : gfs[i].end <= Len(imports[gfs[i].mod])

LEMMA SearchKeeps ==
  ASSUME LoaderTypeOK, NEW m \in modules, NEW gfs, CallsFit(gfs), Search(m, gfs)
  PROVE  /\ CallsFit(gframes')
         /\ gvisited' = gvisited \cup {m}
         /\ \A i \in 1..Len(gfs) : gframes'[i] = gfs[i]
         /\ m \in gvisited => gframes' = gfs
         /\ m \notin gvisited =>
              /\ Len(gframes') = Len(gfs) + 1
              /\ gframes'[Len(gfs) + 1] = [mod |-> m, next |-> 1, end |-> Len(imports[m])]
<1>1. CASE m \in gvisited
  BY <1>1 DEF Search
<1>2. CASE m \notin gvisited
  <2> DEFINE new == [mod |-> m, next |-> 1, end |-> Len(imports[m])]
  <2>1. imports[m] \in Seq(Names) /\ Len(imports[m]) \in Nat
    BY DEF LoaderTypeOK, GraphOK
  <2>2. new \in GFrame /\ new.end <= Len(imports[new.mod])
    BY <2>1 DEF GFrame
  <2>3. gframes' = Append(gfs, new) /\ gvisited' = gvisited \cup {m}
    BY <1>2 DEF Search
  <2> HIDE DEF new
  <2>4. /\ gfs \in Seq(GFrame) /\ Len(gfs) \in Nat /\ DOMAIN gfs = 1..Len(gfs)
        /\ \A i \in 1..Len(gfs) : gfs[i].end <= Len(imports[gfs[i].mod])
    BY DEF CallsFit
  <2>5. /\ gframes' \in Seq(GFrame) /\ Len(gframes') = Len(gfs) + 1
        /\ DOMAIN gframes' = 1..(Len(gfs) + 1)
        /\ \A i \in 1..Len(gfs) : gframes'[i] = gfs[i]
        /\ gframes'[Len(gfs) + 1] = new
    BY <2>2, <2>3, <2>4
  <2>6. \A i \in DOMAIN gframes' : i \in 1..Len(gfs) \/ i = Len(gfs) + 1
    BY <2>4, <2>5
  <2>7. CallsFit(gframes')
    BY <2>2, <2>4, <2>5, <2>6 DEF CallsFit
  <2> QED
    BY <1>2, <2>3, <2>5, <2>7 DEF new
<1> QED
  BY <1>1, <1>2

(* Nothing grew: the loops still end inside the imports. *)
LEMMA LoopsFit ==
  ASSUME LoaderTypeOK
  PROVE  CallsFit(gframes) /\ (gframes # <<>> => CallsFit(NextImport))
<1>1. CallsFit(gframes)
  BY DEF CallsFit, LoaderTypeOK
<1>2. ASSUME gframes # <<>> PROVE CallsFit(NextImport)
  <2>1. NextImport \in Seq(GFrame)
    BY <1>2, AdvancedCall
  <2>2. Len(NextImport) = Len(gframes)
    BY <1>2, AdvancedCall
  <2>3. \A i \in 1..Len(gframes) :
          NextImport[i].mod = gframes[i].mod /\ NextImport[i].end = gframes[i].end
    BY <1>2, AdvancedCall
  <2>4. DOMAIN NextImport = 1..Len(gframes) /\ DOMAIN gframes = 1..Len(gframes)
    BY <2>1, <2>2 DEF LoaderTypeOK
  <2> QED
    BY <1>1, <2>1, <2>3, <2>4 DEF CallsFit
<1> QED
  BY <1>1, <1>2

-----------------------------------------------------------------------------
(* Every step keeps LoaderInvariant *)

(* Steps that load nothing. *)
LEMMA NothingLoaded ==
  ASSUME LoaderInvariant, UNCHANGED <<tree, loadVars>>, errors \subseteq errors', GraphOK',
         groots' \subseteq modules, gvisited' \subseteq modules, CallsFit(gframes'),
         scan' \in Scan \cup {NoModule}, scan' # NoModule => gframes' # <<>>
  PROVE  LoaderTypeOK' /\ LoadedOK'
<1>1. /\ loaded' = loaded /\ modules' = modules /\ asts' = asts /\ imports' = imports
      /\ tree' = tree
  BY DEF loadVars
<1>2. GFrame' = GFrame /\ Scan' = Scan
  BY <1>1 DEF GFrame, Scan
<1>3. LoaderTypeOK'
  BY <1>1, <1>2 DEF LoaderInvariant, LoaderTypeOK, CallsFit
<1>4. FilesMergedOnce'
  BY <1>1 DEF LoaderInvariant, LoadedOK, FilesMergedOnce
<1>5. LoadedOK'
  BY <1>1, <1>4 DEF LoaderInvariant, LoadedOK
<1> QED
  BY <1>3, <1>5

(* Steps that load a file, before the search or in it. *)
LEMMA FileLoaded ==
  ASSUME LoaderInvariant, NEW f \in Files, LoadFile(f), tree' = tree,
         dependencies' = dependencies, groots' = groots, gvisited' = gvisited,
         gframes' = gframes, scan' \in Scan' \cup {NoModule},
         scan' # NoModule => gframes # <<>>
  PROVE  LoaderTypeOK' /\ LoadedOK'
<1>1. LoaderTypeOK /\ LoadedOK
  BY DEF LoaderInvariant
<1>2. /\ loaded' = loaded \cup {f}
      /\ modules' = modules \cup {tree.name[f]} /\ modules' \subseteq Names
  BY <1>1, LoadFileKeeps
<1>3. asts' \in [Names -> Seq(Files)] /\ imports' \in [Names -> Seq(Names)]
  BY <1>1, LoadFileKeeps
<1>4. \A m \in modules : Len(imports[m]) <= Len(imports'[m])
  BY <1>1, LoadFileKeeps
<1>5. LoadedOK'
  BY <1>1, LoadFileKeeps
<1>6. gframes \in Seq(GFrame')
  BY <1>1, <1>2, GrownTypes
<1>7. ASSUME NEW i \in DOMAIN gframes
      PROVE  gframes[i].end <= Len(imports'[gframes[i].mod])
  <2>1. gframes[i] \in GFrame
    BY <1>1, <1>7, ElementOfSeq DEF LoaderTypeOK
  <2>2. gframes[i].mod \in modules /\ gframes[i].end \in Nat
    BY <2>1 DEF GFrame
  <2>3. /\ gframes[i].end <= Len(imports[gframes[i].mod])
        /\ Len(imports[gframes[i].mod]) \in Nat /\ Len(imports'[gframes[i].mod]) \in Nat
    BY <1>1, <1>2, <1>3, <2>2 DEF LoaderTypeOK, GraphOK
  <2> QED
    BY <1>4, <2>2, <2>3
<1>8. GraphOK'
  BY <1>1, <1>2 DEF LoaderTypeOK, GraphOK
<1>9. tree' \in Trees /\ loaded' \subseteq Files
  BY <1>1, <1>2 DEF LoaderTypeOK
<1>10. groots' \subseteq modules' /\ gvisited' \subseteq modules'
  BY <1>1, <1>2 DEF LoaderTypeOK
<1> QED
  BY <1>3, <1>5, <1>6, <1>7, <1>8, <1>9, <1>10 DEF LoaderTypeOK

LEMMA InitKeeps == Init => LoaderInvariant
<1> SUFFICES ASSUME Init PROVE LoaderInvariant
  OBVIOUS
<1>1. NoImports \in [Names -> Seq(Files)] /\ NoImports \in [Names -> Seq(Names)]
  BY DEF NoImports
<1>2. \A m \in Names : Len(NoImports[m]) = 0
  BY DEF NoImports
<1>3. GraphOK
  BY <1>1, <1>2 DEF Init, GraphOK
<1>4. LoaderTypeOK
  BY <1>1, <1>3 DEF Init, LoaderTypeOK
<1>5. LoadedOK
  BY <1>2 DEF Init, LoadedOK, FilesMergedOnce
<1>6. PhasesOK
  BY DEF Init, PhasesOK, Early
<1> QED
  BY <1>4, <1>5, <1>6 DEF LoaderInvariant

LEMMA LoadEntryKeeps == LoaderInvariant /\ LoadEntry => LoaderInvariant'
<1> SUFFICES ASSUME LoaderInvariant, LoadEntry PROVE LoaderInvariant'
  OBVIOUS
<1>1. /\ phase = "entry" /\ phase' = "format" /\ tree' = tree
      /\ UNCHANGED graphSearchVars /\ dependencies' = dependencies /\ UNCHANGED topoVars
  BY DEF LoadEntry
<1>2. /\ groots' = groots /\ gframes' = gframes /\ gvisited' = gvisited /\ scan' = scan
      /\ cyclic' = cyclic
  BY <1>1 DEF graphSearchVars, topoVars
<1>3. groots = {} /\ gframes = <<>> /\ gvisited = {} /\ scan = NoModule /\ cyclic = {}
  BY <1>1 DEF LoaderInvariant, PhasesOK, Early
<1>4. LoaderTypeOK' /\ LoadedOK'
  <2>1. CASE tree.entry = NoFile
    <3>1. UNCHANGED <<tree, loadVars>> /\ errors \subseteq errors'
      <4>1. CASE errors' = errors \cup {<<"entry", NoFile>>} /\ UNCHANGED loadVars
        BY <1>1, <4>1
      <4>2. CASE tree.entry # NoFile
        BY <2>1, <4>2
      <4> QED
        BY <4>1, <4>2 DEF LoadEntry
    <3>2. GraphOK'
      BY <1>1, <3>1 DEF LoaderInvariant, LoaderTypeOK, GraphOK, loadVars
    <3>3. CallsFit(gframes')
      BY <1>2, LoopsFit DEF LoaderInvariant
    <3> QED
      BY <1>2, <1>3, <3>1, <3>2, <3>3, NothingLoaded
  <2>2. CASE tree.entry # NoFile
    <3>1. LoadFile(tree.entry) /\ tree.entry \in Files
      BY <2>2, TreeType DEF LoadEntry, LoaderInvariant
    <3> QED
      BY <1>1, <1>2, <1>3, <3>1, FileLoaded
  <2> QED
    BY <2>1, <2>2
<1>5. PhasesOK'
  BY <1>1, <1>2, <1>3 DEF PhasesOK, Early
<1> QED
  BY <1>4, <1>5 DEF LoaderInvariant

LEMMA LoadFormatKeeps == LoaderInvariant /\ LoadFormat => LoaderInvariant'
<1> SUFFICES ASSUME LoaderInvariant, LoadFormat PROVE LoaderInvariant'
  OBVIOUS
<1>1. /\ phase = "format" /\ phase' = "build" /\ tree' = tree
      /\ UNCHANGED graphSearchVars /\ dependencies' = dependencies /\ UNCHANGED topoVars
  BY DEF LoadFormat
<1>2. /\ groots' = groots /\ gframes' = gframes /\ gvisited' = gvisited /\ scan' = scan
      /\ cyclic' = cyclic
  BY <1>1 DEF graphSearchVars, topoVars
<1>3. groots = {} /\ gframes = <<>> /\ gvisited = {} /\ scan = NoModule /\ cyclic = {}
  BY <1>1 DEF LoaderInvariant, PhasesOK, Early
<1>4. LoaderTypeOK' /\ LoadedOK'
  <2>1. CASE tree.format = NoFile
    <3>1. UNCHANGED <<tree, loadVars>> /\ errors \subseteq errors'
      BY <1>1, <2>1 DEF LoadFormat
    <3>2. GraphOK'
      BY <1>1, <3>1 DEF LoaderInvariant, LoaderTypeOK, GraphOK, loadVars
    <3>3. CallsFit(gframes')
      BY <1>2, LoopsFit DEF LoaderInvariant
    <3> QED
      BY <1>2, <1>3, <3>1, <3>2, <3>3, NothingLoaded
  <2>2. CASE tree.format # NoFile
    <3>1. LoadFile(tree.format) /\ tree.format \in Files
      BY <2>2, TreeType DEF LoadFormat, LoaderInvariant
    <3> QED
      BY <1>1, <1>2, <1>3, <3>1, FileLoaded
  <2> QED
    BY <2>1, <2>2
<1>5. PhasesOK'
  BY <1>1, <1>2, <1>3 DEF PhasesOK, Early
<1> QED
  BY <1>4, <1>5 DEF LoaderInvariant

LEMMA BuildGraphKeeps == LoaderInvariant /\ BuildGraph => LoaderInvariant'
<1> SUFFICES ASSUME LoaderInvariant, BuildGraph PROVE LoaderInvariant'
  OBVIOUS
<1>1. /\ phase = "build" /\ phase' \in {"failed", "graph"} /\ UNCHANGED <<tree, loadVars>>
      /\ gframes' = gframes /\ gvisited' = gvisited /\ scan' = scan
      /\ dependencies' = dependencies /\ UNCHANGED topoVars
      /\ errors \subseteq errors' /\ groots' \in {groots, modules}
  BY DEF BuildGraph
<1>2. gframes = <<>> /\ gvisited = {} /\ scan = NoModule /\ cyclic = {}
  BY <1>1 DEF LoaderInvariant, PhasesOK, Early
<1>3. groots' \subseteq modules /\ gvisited' \subseteq modules
  BY <1>1 DEF LoaderInvariant, LoaderTypeOK
<1>4. GraphOK'
  BY <1>1 DEF LoaderInvariant, LoaderTypeOK, GraphOK, loadVars
<1>5. CallsFit(gframes')
  BY <1>1, LoopsFit DEF LoaderInvariant
<1>6. LoaderTypeOK' /\ LoadedOK'
  BY <1>1, <1>2, <1>3, <1>4, <1>5, NothingLoaded
<1>7. PhasesOK'
  BY <1>1, <1>2 DEF PhasesOK, Early, topoVars
<1> QED
  BY <1>6, <1>7 DEF LoaderInvariant

(* The steps of the search that load nothing. *)
LEMMA SearchStepKeeps ==
  ASSUME LoaderInvariant, phase = "graph", phase' = phase, UNCHANGED <<tree, loadVars>>,
         UNCHANGED topoVars, errors \subseteq errors', GraphOK', groots' \subseteq groots,
         gvisited' \subseteq modules, CallsFit(gframes'), scan' \in Scan \cup {NoModule},
         scan' # NoModule => gframes' # <<>>
  PROVE  LoaderInvariant'
<1>1. groots' \subseteq modules
  BY DEF LoaderInvariant, LoaderTypeOK
<1>2. LoaderTypeOK' /\ LoadedOK'
  BY <1>1, NothingLoaded
<1>3. PhasesOK'
  BY DEF LoaderInvariant, PhasesOK, Early, topoVars
<1> QED
  BY <1>2, <1>3 DEF LoaderInvariant

LEMMA SearchRootKeeps == LoaderInvariant /\ SearchRoot => LoaderInvariant'
<1> SUFFICES ASSUME LoaderInvariant, SearchRoot PROVE LoaderInvariant'
  OBVIOUS
<1>1. PICK m \in groots : Search(m, gframes) /\ groots' = groots \ {m}
  BY DEF SearchRoot
<1>2. /\ phase = "graph" /\ phase' = phase /\ UNCHANGED <<tree, loadVars>> /\ UNCHANGED topoVars
      /\ errors' = errors /\ scan' = scan /\ dependencies' = dependencies /\ gframes = <<>>
  BY DEF SearchRoot
<1>3. LoaderTypeOK /\ m \in modules /\ gvisited \subseteq modules /\ scan = NoModule
  BY <1>1, <1>2 DEF LoaderInvariant, LoaderTypeOK
<1>4. CallsFit(gframes') /\ gvisited' = gvisited \cup {m}
  BY <1>1, <1>3, LoopsFit, SearchKeeps
<1>5. GraphOK'
  BY <1>2, <1>3 DEF LoaderTypeOK, GraphOK, loadVars
<1> QED
  BY <1>1, <1>2, <1>3, <1>4, <1>5, SearchStepKeeps

LEMMA BeginImportKeeps == LoaderInvariant /\ BeginImport => LoaderInvariant'
<1> SUFFICES ASSUME LoaderInvariant, BeginImport PROVE LoaderInvariant'
  OBVIOUS
<1> DEFINE imp == imports[GTop.mod][GTop.next]
<1>1. /\ phase = "graph" /\ phase' = phase /\ UNCHANGED <<tree, loadVars>> /\ UNCHANGED topoVars
      /\ errors' = errors /\ groots' = groots /\ gvisited' = gvisited /\ gframes' = gframes
      /\ dependencies' = dependencies /\ gframes # <<>> /\ GTop.next <= GTop.end
      /\ scan' = [imp |-> imp, places |-> tree.places[GTop.mod][imp],
                  pending |-> <<>>, dep |-> NoModule]
  BY DEF BeginImport
<1>2. LoaderTypeOK /\ gvisited \subseteq modules
  BY DEF LoaderInvariant, LoaderTypeOK
<1>3. /\ GTop.mod \in Names /\ GTop.next \in Nat \ {0} /\ GTop.end \in Nat
      /\ imports[GTop.mod] \in Seq(Names) /\ GTop.end <= Len(imports[GTop.mod])
  BY <1>1, <1>2, GTopType
<1>4. imp \in Names
  BY <1>1, <1>3
<1>5. tree.places[GTop.mod][imp] \in Seq(Place)
  BY <1>2, <1>3, <1>4, TreeType
<1> HIDE DEF imp
<1>6. <<>> \in Seq(Pending)
  OBVIOUS
<1>7. scan' \in Scan
  BY <1>1, <1>4, <1>5, <1>6 DEF Scan
<1>8. GraphOK'
  BY <1>1, <1>2 DEF LoaderTypeOK, GraphOK, loadVars
<1>9. CallsFit(gframes')
  BY <1>1, <1>2, LoopsFit
<1> QED
  BY <1>1, <1>2, <1>7, <1>8, <1>9, SearchStepKeeps

LEMMA FilesAtType ==
  ASSUME NEW place \in Place
  PROVE  FilesAt(place) \in Seq(Pending)
<1> DEFINE taken == [i \in DOMAIN place.dir |-> [file |-> place.dir[i], primary |-> FALSE]]
           first == <<[file |-> place.primary, primary |-> TRUE]>>
<1>1. /\ place.dir \in Seq(Files) /\ place.primary \in Files \cup {NoFile}
      /\ place.exclusive \in BOOLEAN
  BY DEF Place
<1>2. taken \in Seq(Pending)
  <2>1. DOMAIN place.dir = 1..Len(place.dir) /\ Len(place.dir) \in Nat
    BY <1>1
  <2>2. \A i \in 1..Len(place.dir) : [file |-> place.dir[i], primary |-> FALSE] \in Pending
    BY <1>1 DEF Pending
  <2>3. taken \in [1..Len(place.dir) -> Pending]
    BY <2>1, <2>2
  <2> QED
    BY <2>1, <2>3
<1>3. place.primary # NoFile => first \in Seq(Pending)
  BY <1>1 DEF Pending
<1>4. FilesAt(place) = CASE place.primary = NoFile -> taken
                         [] place.primary # NoFile /\ place.exclusive -> first
                         [] OTHER -> first \o taken
  BY DEF FilesAt
<1> HIDE DEF taken, first
<1>5. place.primary # NoFile => first \o taken \in Seq(Pending)
  BY <1>2, <1>3
<1> QED
  BY <1>1, <1>2, <1>3, <1>4, <1>5

LEMMA OpenPlaceKeeps == LoaderInvariant /\ OpenPlace => LoaderInvariant'
<1> SUFFICES ASSUME LoaderInvariant, OpenPlace PROVE LoaderInvariant'
  OBVIOUS
<1>1. /\ phase = "graph" /\ phase' = phase /\ UNCHANGED <<tree, loadVars>> /\ UNCHANGED topoVars
      /\ errors' = errors /\ groots' = groots /\ gvisited' = gvisited /\ gframes' = gframes
      /\ dependencies' = dependencies /\ scan # NoModule /\ scan.places # <<>>
      /\ scan' = [scan EXCEPT !.pending = FilesAt(Head(scan.places)), !.places = Tail(@)]
  BY DEF OpenPlace, Scanning
<1>2. LoaderTypeOK /\ gvisited \subseteq modules /\ scan \in Scan /\ gframes # <<>>
  BY <1>1 DEF LoaderInvariant, LoaderTypeOK
<1>3. scan.places \in Seq(Place)
  BY <1>2 DEF Scan
<1>4. Head(scan.places) \in Place /\ Tail(scan.places) \in Seq(Place)
  BY <1>1, <1>3
<1>5. FilesAt(Head(scan.places)) \in Seq(Pending)
  BY <1>4, FilesAtType
<1>6. scan' \in Scan
  BY <1>1, <1>2, <1>4, <1>5 DEF Scan
<1>7. GraphOK'
  BY <1>1, <1>2 DEF LoaderTypeOK, GraphOK, loadVars
<1>8. CallsFit(gframes')
  BY <1>1, <1>2, LoopsFit
<1> QED
  BY <1>1, <1>2, <1>6, <1>7, <1>8, SearchStepKeeps

LEMMA ScanFileKeeps == LoaderInvariant /\ ScanFile => LoaderInvariant'
<1> SUFFICES ASSUME LoaderInvariant, ScanFile PROVE LoaderInvariant'
  OBVIOUS
<1> DEFINE p == Head(scan.pending)
           m == tree.name[p.file]
<1>1. /\ phase = "graph" /\ phase' \in {"graph", "crashed"} /\ tree' = tree
      /\ scan # NoModule /\ scan.pending # <<>> /\ LoadFile(p.file)
      /\ groots' = groots /\ gframes' = gframes /\ gvisited' = gvisited
      /\ dependencies' = dependencies /\ cyclic' = cyclic
      /\ scan' = [scan EXCEPT !.pending = Tail(@),
                    !.dep = IF p.primary \/ m = scan.imp THEN m ELSE @]
  BY DEF ScanFile, Scanning, topoVars
<1>2. LoaderTypeOK /\ LoadedOK /\ scan \in Scan /\ gframes # <<>>
  BY <1>1 DEF LoaderInvariant, LoaderTypeOK
<1>3. scan.pending \in Seq(Pending) /\ scan.dep \in modules \cup {NoModule}
  BY <1>2 DEF Scan
<1>4. p \in Pending /\ Tail(scan.pending) \in Seq(Pending)
  BY <1>1, <1>3
<1>5. p.file \in Files
  BY <1>4 DEF Pending
<1>6. modules' = modules \cup {m}
  BY <1>1, <1>2, <1>5, LoadFileKeeps
<1>7. Scan \subseteq Scan'
  BY <1>6 DEF Scan
<1> HIDE DEF p, m
<1>8. (IF p.primary \/ m = scan.imp THEN m ELSE scan.dep) \in modules' \cup {NoModule}
  BY <1>3, <1>6
<1>9. scan' \in Scan'
  BY <1>1, <1>2, <1>4, <1>8 DEF Scan
<1>10. LoaderTypeOK' /\ LoadedOK'
  BY <1>1, <1>2, <1>5, <1>9, FileLoaded
<1>11. PhasesOK'
  BY <1>1 DEF LoaderInvariant, PhasesOK, Early
<1> QED
  BY <1>10, <1>11 DEF LoaderInvariant

LEMMA ImportFoundKeeps == LoaderInvariant /\ ImportFound => LoaderInvariant'
<1> SUFFICES ASSUME LoaderInvariant, ImportFound PROVE LoaderInvariant'
  OBVIOUS
<1>1. /\ phase = "graph" /\ phase' = phase /\ UNCHANGED <<tree, loadVars>> /\ UNCHANGED topoVars
      /\ errors' = errors /\ groots' = groots
      /\ scan # NoModule /\ scan.dep # NoModule /\ scan' = NoModule
      /\ dependencies' = [dependencies EXCEPT ![GTop.mod] = Append(@, scan.dep)]
      /\ Search(scan.dep, NextImport)
  BY DEF ImportFound, Scanning
<1>2. LoaderTypeOK /\ gvisited \subseteq modules /\ scan \in Scan /\ gframes # <<>>
  BY <1>1 DEF LoaderInvariant, LoaderTypeOK
<1>3. scan.dep \in modules
  BY <1>1, <1>2 DEF Scan
<1>4. CallsFit(gframes') /\ gvisited' = gvisited \cup {scan.dep}
  BY <1>1, <1>2, <1>3, LoopsFit, SearchKeeps
<1>5. GraphOK'
  <2>1. /\ GraphOK /\ modules' = modules /\ GTop.mod \in Names /\ scan.dep \in Names
        /\ dependencies \in [Names -> Seq(Names)]
    BY <1>1, <1>2, <1>3, GTopType DEF LoaderTypeOK, GraphOK, loadVars
  <2>2. dependencies' \in [Names -> Seq(Names)]
    BY <1>1, <2>1
  <2>3. ASSUME NEW n \in Names, NEW i \in 1..Len(dependencies'[n])
        PROVE  dependencies'[n][i] \in modules
    <3>1. CASE n = GTop.mod
      <4>1. dependencies'[n] = Append(dependencies[n], scan.dep)
        BY <1>1, <2>1, <3>1
      <4>2. dependencies[n] \in Seq(Names) /\ Len(dependencies[n]) \in Nat
        BY <2>1
      <4>3. i \in 1..Len(dependencies[n]) \/ i = Len(dependencies[n]) + 1
        BY <2>3, <4>1, <4>2
      <4>4. CASE i \in 1..Len(dependencies[n])
        BY <2>1, <4>1, <4>2, <4>4 DEF GraphOK
      <4>5. CASE i = Len(dependencies[n]) + 1
        BY <1>3, <4>1, <4>2, <4>5
      <4> QED
        BY <4>3, <4>4, <4>5
    <3>2. CASE n # GTop.mod
      BY <1>1, <2>1, <2>3, <3>2 DEF GraphOK
    <3> QED
      BY <3>1, <3>2
  <2> QED
    BY <2>1, <2>2, <2>3 DEF GraphOK
<1> QED
  BY <1>1, <1>2, <1>3, <1>4, <1>5, SearchStepKeeps

LEMMA ImportUnknownKeeps == LoaderInvariant /\ ImportUnknown => LoaderInvariant'
<1> SUFFICES ASSUME LoaderInvariant, ImportUnknown PROVE LoaderInvariant'
  OBVIOUS
<1>1. /\ phase = "graph" /\ phase' = phase /\ UNCHANGED <<tree, loadVars>> /\ UNCHANGED topoVars
      /\ errors \subseteq errors' /\ groots' = groots /\ gvisited' = gvisited
      /\ scan # NoModule /\ scan' = NoModule /\ gframes' = NextImport
      /\ dependencies' = dependencies
  BY DEF ImportUnknown, Scanning
<1>2. LoaderTypeOK /\ gvisited \subseteq modules /\ gframes # <<>>
  BY <1>1 DEF LoaderInvariant, LoaderTypeOK
<1>3. GraphOK'
  BY <1>1, <1>2 DEF LoaderTypeOK, GraphOK, loadVars
<1>4. CallsFit(gframes')
  BY <1>1, <1>2, LoopsFit
<1> QED
  BY <1>1, <1>2, <1>3, <1>4, SearchStepKeeps

LEMMA SearchReturnKeeps == LoaderInvariant /\ SearchReturn => LoaderInvariant'
<1> SUFFICES ASSUME LoaderInvariant, SearchReturn PROVE LoaderInvariant'
  OBVIOUS
<1>1. /\ phase = "graph" /\ phase' = phase /\ UNCHANGED <<tree, loadVars>> /\ UNCHANGED topoVars
      /\ errors' = errors /\ groots' = groots /\ gvisited' = gvisited
      /\ scan = NoModule /\ scan' = scan /\ gframes # <<>>
      /\ gframes' = SubSeq(gframes, 1, Len(gframes) - 1)
      /\ dependencies' = dependencies
  BY DEF SearchReturn
<1>2. LoaderTypeOK /\ gvisited \subseteq modules /\ gframes \in Seq(GFrame)
  BY <1>1 DEF LoaderInvariant, LoaderTypeOK
<1>3. GraphOK'
  BY <1>1, <1>2 DEF LoaderTypeOK, GraphOK, loadVars
<1>4. /\ gframes' \in Seq(GFrame) /\ Len(gframes') = Len(gframes) - 1
      /\ \A i \in 1..Len(gframes') : gframes'[i] = gframes[i]
  BY <1>1, <1>2, DropLast
<1>5. CallsFit(gframes')
  <2>1. DOMAIN gframes' = 1..Len(gframes') /\ DOMAIN gframes' \subseteq DOMAIN gframes
    BY <1>2, <1>4
  <2> QED
    BY <1>2, <1>4, <2>1 DEF CallsFit, LoaderTypeOK
<1> QED
  BY <1>1, <1>2, <1>3, <1>5, SearchStepKeeps

LEMMA StartTopoSortKeeps == LoaderInvariant /\ StartTopoSort => LoaderInvariant'
<1> SUFFICES ASSUME LoaderInvariant, StartTopoSort PROVE LoaderInvariant'
  OBVIOUS
<1>1. /\ phase = "graph" /\ phase' = "topo" /\ UNCHANGED <<tree, loadVars>> /\ errors' = errors
      /\ groots' = groots /\ gframes' = gframes /\ gvisited' = gvisited /\ scan' = scan
      /\ dependencies' = dependencies /\ cyclic' = cyclic /\ TopoReset
  BY DEF StartTopoSort, graphSearchVars
<1>2. /\ LoaderTypeOK /\ GraphOK /\ cyclic = {} /\ modules' = modules
      /\ groots \subseteq modules /\ gvisited \subseteq modules
  BY <1>1 DEF LoaderInvariant, LoaderTypeOK, PhasesOK, loadVars
<1>3. GraphOK'
  BY <1>1, <1>2 DEF GraphOK
<1>4. CallsFit(gframes')
  BY <1>1, <1>2, LoopsFit
<1>5. LoaderTypeOK' /\ LoadedOK'
  <2>1. scan \in Scan \cup {NoModule} /\ (scan # NoModule => gframes # <<>>)
    BY <1>2 DEF LoaderTypeOK
  <2> QED
    BY <1>1, <1>2, <1>3, <1>4, <2>1, NothingLoaded
<1>6. /\ roots' = modules /\ frames' = <<>> /\ visited' = {} /\ stack' = {}
      /\ ordered' = <<>> /\ cyclic' = {}
  BY <1>1, <1>2 DEF TopoReset
<1>7. TypeOK'
  BY <1>2, <1>3, <1>6 DEF TypeOK
<1>8. SearchInvariant'
  BY <1>2, <1>6 DEF SearchInvariant, StackIsFrames, CallsFollowEdges,
     PassedDependenciesDone, VisitedIsOrdered, NothingForgotten, DependenciesFirst
<1>9. PhasesOK'
  BY <1>1, <1>7, <1>8 DEF PhasesOK, Early
<1> QED
  BY <1>5, <1>9 DEF LoaderInvariant

LEMMA SortStepKeeps == LoaderInvariant /\ SortStep => LoaderInvariant'
<1> SUFFICES ASSUME LoaderInvariant, SortStep PROVE LoaderInvariant'
  OBVIOUS
<1>1. /\ phase = "topo" /\ phase' = "topo" /\ tree' = tree /\ loaded' = loaded /\ asts' = asts
      /\ imports' = imports /\ errors' = errors
      /\ groots' = groots /\ gframes' = gframes /\ gvisited' = gvisited /\ scan' = scan
      /\ TopoNext
  BY DEF SortStep, graphSearchVars
<1>2. modules' = modules /\ dependencies' = dependencies
  BY <1>1 DEF TopoNext, VisitRoot, VisitDependency, LeaveModule, graphVars
<1>3. /\ LoaderTypeOK /\ GraphOK /\ TypeOK /\ SearchInvariant
      /\ groots \subseteq modules /\ gvisited \subseteq modules
      /\ scan \in Scan \cup {NoModule} /\ (scan # NoModule => gframes # <<>>)
  BY <1>1 DEF LoaderInvariant, LoaderTypeOK, PhasesOK
<1>4. GraphOK'
  BY <1>2, <1>3 DEF GraphOK
<1>5. CallsFit(gframes')
  BY <1>1, <1>3, LoopsFit
<1>6. UNCHANGED <<tree, loadVars>>
  BY <1>1, <1>2 DEF loadVars
<1>7. LoaderTypeOK' /\ LoadedOK'
  BY <1>1, <1>3, <1>4, <1>5, <1>6, NothingLoaded
<1>8. TypeOK' /\ SearchInvariant'
  BY <1>1, <1>3, TypeStep, SearchStep
<1>9. PhasesOK'
  BY <1>1, <1>8 DEF PhasesOK, Early
<1> QED
  BY <1>7, <1>9 DEF LoaderInvariant

(* Nothing but the phase and what the sort keeps for itself. *)
LEMMA RestKeeps ==
  ASSUME LoaderInvariant,
         UNCHANGED <<tree, loadVars, errors, graphSearchVars, dependencies, topoVars>>
  PROVE  LoaderTypeOK' /\ LoadedOK' /\ (TypeOK => TypeOK') /\ (SearchInvariant => SearchInvariant')
<1>1. /\ errors' = errors /\ groots' = groots /\ gframes' = gframes /\ gvisited' = gvisited
      /\ scan' = scan /\ modules' = modules /\ dependencies' = dependencies
      /\ UNCHANGED topoVars /\ UNCHANGED <<tree, loadVars>>
  BY DEF graphSearchVars, loadVars
<1>2. /\ LoaderTypeOK /\ GraphOK /\ groots \subseteq modules /\ gvisited \subseteq modules
      /\ scan \in Scan \cup {NoModule} /\ (scan # NoModule => gframes # <<>>)
  BY DEF LoaderInvariant, LoaderTypeOK
<1>3. GraphOK'
  BY <1>1, <1>2 DEF GraphOK
<1>4. CallsFit(gframes')
  BY <1>1, <1>2, LoopsFit
<1>5. LoaderTypeOK' /\ LoadedOK'
  BY <1>1, <1>2, <1>3, <1>4, NothingLoaded
<1>6. [TopoNext]_topoAll
  BY <1>1 DEF topoAll, topoVars
<1>7. TypeOK => TypeOK'
  BY <1>6, TypeStep
<1>8. SearchInvariant => SearchInvariant'
  BY <1>1 DEF topoVars, SearchInvariant, StackIsFrames, CallsFollowEdges,
     PassedDependenciesDone, VisitedIsOrdered, NothingForgotten, DependenciesFirst
<1> QED
  BY <1>5, <1>7, <1>8

LEMMA FinishKeeps == LoaderInvariant /\ Finish => LoaderInvariant'
<1> SUFFICES ASSUME LoaderInvariant, Finish PROVE LoaderInvariant'
  OBVIOUS
<1>1. /\ phase = "topo" /\ TopoDone /\ phase' \in {"analyze", "failed"}
      /\ phase' = "analyze" => errors = {} /\ cyclic = {}
      /\ UNCHANGED <<tree, loadVars, errors, graphSearchVars, dependencies, topoVars>>
  BY DEF Finish
<1>2. LoaderTypeOK' /\ LoadedOK' /\ TypeOK' /\ SearchInvariant'
  BY <1>1, RestKeeps DEF LoaderInvariant, PhasesOK
<1>3. TopoDone' /\ errors' = errors /\ cyclic' = cyclic
  BY <1>1 DEF TopoDone, topoVars
<1>4. PhasesOK'
  BY <1>1, <1>2, <1>3 DEF PhasesOK, Early
<1> QED
  BY <1>2, <1>4 DEF LoaderInvariant

LEMMA StutterKeeps == LoaderInvariant /\ UNCHANGED vars => LoaderInvariant'
<1> SUFFICES ASSUME LoaderInvariant, UNCHANGED vars PROVE LoaderInvariant'
  OBVIOUS
<1>1. UNCHANGED <<tree, loadVars, errors, graphSearchVars, dependencies, topoVars>>
  BY DEF vars
<1>2. LoaderTypeOK' /\ LoadedOK' /\ (TypeOK => TypeOK') /\ (SearchInvariant => SearchInvariant')
  BY <1>1, RestKeeps
<1>3. PhasesOK'
  BY <1>2 DEF LoaderInvariant, PhasesOK, Early, TopoDone, vars, graphSearchVars, topoVars
<1> QED
  BY <1>2, <1>3 DEF LoaderInvariant

LEMMA LoaderStep == LoaderInvariant /\ [Next]_vars => LoaderInvariant'
BY LoadEntryKeeps, LoadFormatKeeps, BuildGraphKeeps, SearchRootKeeps, BeginImportKeeps,
   OpenPlaceKeeps, ScanFileKeeps, ImportFoundKeeps, ImportUnknownKeeps, SearchReturnKeeps,
   StartTopoSortKeeps, SortStepKeeps, FinishKeeps, StutterKeeps DEF Next

(***************************************************************************)
(* The types of the loader, how the files loaded, the modules and their    *)
(* errors belong together, and what each phase of main.cpp starts from.    *)
(***************************************************************************)
THEOREM LoaderCorrect == Spec => []LoaderInvariant
BY InitKeeps, LoaderStep, PTL DEF Spec

(* The declarations of a file are merged into exactly one module, once. *)
THEOREM FilesAreMergedOnce == Spec => []FilesMergedOnce
<1>1. LoaderInvariant => FilesMergedOnce
  BY DEF LoaderInvariant, LoadedOK
<1> QED
  BY <1>1, LoaderCorrect, PTL

-----------------------------------------------------------------------------
(* What the search knows of the imports it has gone through *)

(* The imports that the file that made a module came with.                 *)
Own(m) == tree.imports[asts[m][1]]

OwnOK == \A m \in modules : asts[m] # <<>> /\ Len(Own(m)) <= Len(imports[m])

DependenciesKnown ==
  \A m \in gvisited : \A i \in DOMAIN dependencies[m] :
    i <= Len(imports[m]) /\ Known(m, imports[m][i], dependencies[m][i])

UnsearchedFree == \A m \in Names : m \notin gvisited => dependencies[m] = <<>>

(* Without an error an active call has a dependency for every import it    *)
(* has gone through, and it is the only call for its module.               *)
CallsCount ==
  \A i \in DOMAIN gframes :
    /\ gframes[i].mod \in gvisited
    /\ Len(dependencies[gframes[i].mod]) = gframes[i].next - 1
    /\ gframes[i].next <= gframes[i].end + 1
    /\ Len(Own(gframes[i].mod)) <= gframes[i].end
    /\ \A j \in DOMAIN gframes : gframes[i].mod = gframes[j].mod => i = j

ReturnedWithAll ==
  \A m \in gvisited :
    \/ Len(Own(m)) <= Len(dependencies[m])
    \/ \E i \in DOMAIN gframes : gframes[i].mod = m

(* A file that an import of m as imp makes the code load.                  *)
FileFor(m, imp, p) ==
  \E k \in DOMAIN tree.places[m][imp] :
    \E l \in DOMAIN FilesAt(tree.places[m][imp][k]) : p = FilesAt(tree.places[m][imp][k])[l]

ScanKnown ==
  scan # NoModule =>
    /\ GTop.next <= GTop.end
    /\ scan.imp = imports[GTop.mod][GTop.next]
    /\ \A k \in DOMAIN scan.places :
         \E j \in DOMAIN tree.places[GTop.mod][scan.imp] :
           scan.places[k] = tree.places[GTop.mod][scan.imp][j]
    /\ \A i \in DOMAIN scan.pending : FileFor(GTop.mod, scan.imp, scan.pending[i])
    /\ scan.dep # NoModule => Known(GTop.mod, scan.imp, scan.dep)

NoCallsLeft == phase \in {"topo", "analyze"} => gframes = <<>>

Resolved ==
  /\ OwnOK /\ NoCallsLeft
  /\ errors = {} =>
       DependenciesKnown /\ UnsearchedFree /\ CallsCount /\ ReturnedWithAll /\ ScanKnown

(* Merging adds imports at the end alone.                                  *)
LEMMA MergePrefix ==
  ASSUME NEW S, NEW old \in Seq(S), NEW new \in Seq(S)
  PROVE  \A i \in 1..Len(old) : MergeImports(old, new)[i] = old[i]
<1> DEFINE n == Len(new)
           f == CHOOSE f : Merging(old, new, n, f)
<1>1. n \in Nat
  OBVIOUS
<1>2. Merging(old, new, n, f)
  BY <1>1, MergingExists
<1>3. MergeImports(old, new) = f[n]
  BY DEF MergeImports, Merging, MergeOne
<1> HIDE DEF f
<1> DEFINE Grown(s) == /\ s \in Seq(S) /\ Len(old) <= Len(s)
                       /\ \A i \in 1..Len(old) : s[i] = old[i]
           T == {k \in 0..n : ~ Grown(f[k])}
<1>4. T = {}
  <2> SUFFICES ASSUME T # {} PROVE FALSE
    OBVIOUS
  <2>1. T \in SUBSET Nat
    BY <1>1
  <2>2. PICK k \in T : \A j \in T : k <= j
    BY <2>1, Least
  <2>3. k \in 0..n /\ ~ Grown(f[k])
    BY <2>2
  <2>4. f[k] = IF k = 0 THEN old ELSE MergeOne(f[k - 1], new[k])
    BY <1>2, <2>3 DEF Merging
  <2>5. CASE k = 0
    BY <2>3, <2>4, <2>5
  <2>6. CASE k # 0
    <3>1. k - 1 \in 0..n /\ k \in 1..n /\ ~(k <= k - 1)
      BY <1>1, <2>3, <2>6
    <3>2. Grown(f[k - 1])
      BY <2>2, <3>1
    <3>3. new[k] \in S
      BY <3>1
    <3>4. Grown(Append(f[k - 1], new[k]))
      BY <3>2, <3>3
    <3>5. Grown(MergeOne(f[k - 1], new[k]))
      BY <3>2, <3>4 DEF MergeOne
    <3> QED
      BY <2>3, <2>4, <2>6, <3>5
  <2> QED
    BY <2>5, <2>6
<1>5. n \in 0..n
  BY <1>1
<1> QED
  BY <1>3, <1>4, <1>5

(* A file that is loaded leaves the first file and the imports there are   *)
(* where they are; a new module starts with it.                            *)
LEMMA LoadFileGrows ==
  ASSUME LoaderTypeOK, LoadedOK, OwnOK, NEW f \in Files, LoadFile(f), tree' = tree
  PROVE  /\ OwnOK'
         /\ \A m \in modules : Own(m)' = Own(m)
         /\ \A m \in modules : \A i \in 1..Len(imports[m]) :
              i \in 1..Len(imports'[m]) /\ imports'[m][i] = imports[m][i]
<1> DEFINE n == tree.name[f]
<1>1. /\ n \in Names /\ tree.imports \in [Files -> Seq(Names)]
      /\ asts \in [Names -> Seq(Files)] /\ imports \in [Names -> Seq(Names)]
      /\ modules \subseteq Names
  BY TreeType DEF LoaderTypeOK, GraphOK
<1>2. CASE f \in loaded
  <2>1. modules' = modules /\ asts' = asts /\ imports' = imports
    BY <1>2 DEF LoadFile, loadVars
  <2> QED
    BY <1>1, <2>1 DEF OwnOK, Own
<1>3. CASE f \notin loaded
  <2>1. /\ modules' = modules \cup {n}
        /\ asts' = [asts EXCEPT ![n] = Append(asts[n], f)]
        /\ imports' = [imports EXCEPT ![n] = ImportsWith(f)]
    BY <1>3 DEF LoadFile, BuildModule
  <2>2. \A m \in Names : m # n => asts'[m] = asts[m] /\ imports'[m] = imports[m]
    BY <1>1, <2>1
  <2>3. asts'[n] = Append(asts[n], f) /\ imports'[n] = ImportsWith(f)
    BY <1>1, <2>1
  <2>4. CASE n \in modules
    <3>1. asts[n] # <<>> /\ asts[n] \in Seq(Files) /\ Len(Own(n)) <= Len(imports[n])
      BY <1>1, <2>4 DEF OwnOK
    <3>2. asts'[n] # <<>> /\ asts'[n][1] = asts[n][1]
      BY <2>3, <3>1
    <3>3. /\ imports[n] \in Seq(Names) /\ tree.imports[f] \in Seq(Names)
          /\ imports'[n] = MergeImports(imports[n], tree.imports[f])
      BY <1>1, <2>3, <2>4 DEF ImportsWith
    <3>4. imports'[n] \in Seq(Names) /\ Len(imports[n]) <= Len(imports'[n])
      BY <3>3, MergeType
    <3>5. \A i \in 1..Len(imports[n]) : imports'[n][i] = imports[n][i]
      BY <3>3, MergePrefix
    <3>6. Own(n)' = Own(n)
      BY <3>2 DEF Own
    <3>7. \A i \in 1..Len(imports[n]) : i \in 1..Len(imports'[n])
      BY <3>3, <3>4
    <3>9. Own(n) \in Seq(Names) /\ Len(Own(n)) \in Nat
      <4>1. asts[n][1] \in Files
        BY <3>1
      <4> QED
        BY <1>1, <4>1 DEF Own
    <3>10. Len(imports[n]) \in Nat /\ Len(imports'[n]) \in Nat
      BY <3>3, <3>4
    <3>8. Len(Own(n)) <= Len(imports'[n])
      BY <3>1, <3>4, <3>9, <3>10
    <3>11. \A m \in modules : m # n => Own(m)' = Own(m)
      BY <1>1, <2>2 DEF Own
    <3>12. OwnOK'
      BY <1>1, <2>1, <2>2, <2>4, <3>2, <3>6, <3>8, <3>11 DEF OwnOK
    <3>13. ASSUME NEW m \in modules, NEW i \in 1..Len(imports[m])
           PROVE  i \in 1..Len(imports'[m]) /\ imports'[m][i] = imports[m][i]
      BY <1>1, <2>2, <3>5, <3>7
    <3> QED
      BY <3>6, <3>11, <3>12, <3>13
  <2>5. CASE n \notin modules
    <3>1. asts[n] = <<>>
      <4> SUFFICES ASSUME asts[n] # <<>> PROVE FALSE
        OBVIOUS
      <4>1. 1 \in 1..Len(asts[n])
        BY <1>1
      <4>2. asts[n][1] \in loaded /\ tree.name[asts[n][1]] = n
        BY <1>1, <4>1 DEF LoadedOK, FilesMergedOnce
      <4> QED
        BY <2>5, <4>2 DEF LoadedOK
    <3>2. asts'[n] # <<>> /\ asts'[n][1] = f
      BY <2>3, <3>1
    <3>3. imports'[n] = tree.imports[f] /\ tree.imports[f] \in Seq(Names)
      BY <1>1, <2>3, <2>5 DEF ImportsWith
    <3>4. Len(Own(n)') <= Len(imports'[n])
      BY <3>2, <3>3 DEF Own
    <3>5. \A m \in modules : m # n /\ m \in Names
      BY <1>1, <2>5
    <3>6. \A m \in modules : Own(m)' = Own(m)
      BY <2>2, <3>5 DEF Own
    <3>7. OwnOK'
      BY <2>1, <2>2, <3>2, <3>4, <3>5, <3>6 DEF OwnOK
    <3>8. ASSUME NEW m \in modules, NEW i \in 1..Len(imports[m])
          PROVE  i \in 1..Len(imports'[m]) /\ imports'[m][i] = imports[m][i]
      BY <2>2, <3>5
    <3> QED
      BY <3>6, <3>7, <3>8
  <2> QED
    BY <2>4, <2>5
<1> QED
  BY <1>2, <1>3

(* Places and files are the tree's. *)
LEMMA KnownStays ==
  ASSUME tree' = tree
  PROVE  \A m, imp, d : Known(m, imp, d)' = Known(m, imp, d) /\ FileFor(m, imp, d)' = FileFor(m, imp, d)
BY DEF Known, Provides, FileFor

(* Before the search there is nothing to say of it. *)
LEMMA EarlyResolved ==
  ASSUME LoaderInvariant', OwnOK', gvisited' = {}, gframes' = <<>>, scan' = NoModule,
         errors' = {} => \A m \in Names : dependencies'[m] = <<>>
  PROVE  Resolved'
BY DEF Resolved, NoCallsLeft, DependenciesKnown, UnsearchedFree, CallsCount, ReturnedWithAll, ScanKnown

LEMMA NothingLoadedOwn ==
  ASSUME OwnOK, UNCHANGED <<tree, loadVars>>
  PROVE  OwnOK' /\ \A m : Own(m)' = Own(m)
BY DEF OwnOK, Own, loadVars

LEMMA LoadEntryResolved ==
  ASSUME LoaderInvariant, LoaderInvariant', Resolved, LoadEntry
  PROVE  Resolved'
<1>1. /\ phase = "entry" /\ tree' = tree /\ gframes' = gframes /\ gvisited' = gvisited
      /\ scan' = scan /\ dependencies' = dependencies
  BY DEF LoadEntry, graphSearchVars
<1>2. gframes = <<>> /\ gvisited = {} /\ scan = NoModule
  BY <1>1 DEF LoaderInvariant, PhasesOK, Early
<1>3. OwnOK' /\ (errors' = {} => errors = {})
  <2>1. CASE tree.entry # NoFile /\ LoadFile(tree.entry)
    <3>1. tree.entry \in Files
      BY <2>1, TreeType DEF LoaderInvariant
    <3> QED
      BY <1>1, <2>1, <3>1, LoadFileGrows, LoadFileKeeps DEF LoaderInvariant, Resolved
  <2>2. CASE tree.entry = NoFile /\ errors' # {} /\ UNCHANGED loadVars
    BY <1>1, <2>2, NothingLoadedOwn DEF Resolved
  <2> QED
    BY <2>1, <2>2 DEF LoadEntry
<1> QED
  BY <1>1, <1>2, <1>3, EarlyResolved DEF Resolved, UnsearchedFree

LEMMA LoadFormatResolved ==
  ASSUME LoaderInvariant, LoaderInvariant', Resolved, LoadFormat
  PROVE  Resolved'
<1>1. /\ phase = "format" /\ tree' = tree /\ gframes' = gframes /\ gvisited' = gvisited
      /\ scan' = scan /\ dependencies' = dependencies
  BY DEF LoadFormat, graphSearchVars
<1>2. gframes = <<>> /\ gvisited = {} /\ scan = NoModule
  BY <1>1 DEF LoaderInvariant, PhasesOK, Early
<1>3. OwnOK' /\ (errors' = {} => errors = {})
  <2>1. CASE tree.format # NoFile /\ LoadFile(tree.format)
    <3>1. tree.format \in Files
      BY <2>1, TreeType DEF LoaderInvariant
    <3> QED
      BY <1>1, <2>1, <3>1, LoadFileGrows, LoadFileKeeps DEF LoaderInvariant, Resolved
  <2>2. CASE errors' = errors /\ UNCHANGED loadVars
    BY <1>1, <2>2, NothingLoadedOwn DEF Resolved
  <2> QED
    BY <2>1, <2>2 DEF LoadFormat
<1> QED
  BY <1>1, <1>2, <1>3, EarlyResolved DEF Resolved, UnsearchedFree

LEMMA BuildGraphResolved ==
  ASSUME LoaderInvariant, LoaderInvariant', Resolved, BuildGraph
  PROVE  Resolved'
<1>1. /\ phase = "build" /\ UNCHANGED <<tree, loadVars>> /\ gframes' = gframes
      /\ gvisited' = gvisited /\ scan' = scan /\ dependencies' = dependencies
      /\ errors' = {} => errors = {}
  BY DEF BuildGraph
<1>2. gframes = <<>> /\ gvisited = {} /\ scan = NoModule
  BY <1>1 DEF LoaderInvariant, PhasesOK, Early
<1>3. OwnOK'
  BY <1>1, NothingLoadedOwn DEF Resolved
<1> QED
  BY <1>1, <1>2, <1>3, EarlyResolved DEF Resolved, UnsearchedFree

(* Steps of the search that change neither the calls nor what they found. *)
LEMMA CallsStayResolved ==
  ASSUME LoaderInvariant, LoaderInvariant', Resolved, UNCHANGED <<tree, loadVars>>,
         gframes' = gframes, gvisited' = gvisited, dependencies' = dependencies,
         errors' = errors, NoCallsLeft', errors = {} => ScanKnown'
  PROVE  Resolved'
<1>1. OwnOK' /\ (\A m : Own(m)' = Own(m)) /\ imports' = imports /\ tree' = tree
  BY NothingLoadedOwn DEF Resolved, loadVars
<1> SUFFICES ASSUME errors = {}
             PROVE  DependenciesKnown' /\ UnsearchedFree' /\ CallsCount' /\ ReturnedWithAll'
  BY <1>1 DEF Resolved
<1>2. DependenciesKnown' /\ UnsearchedFree'
  BY <1>1, KnownStays DEF Resolved, DependenciesKnown, UnsearchedFree
<1>3. CallsCount' /\ ReturnedWithAll'
  BY <1>1 DEF Resolved, CallsCount, ReturnedWithAll
<1> QED
  BY <1>2, <1>3

LEMMA SearchRootResolved ==
  ASSUME LoaderInvariant, LoaderInvariant', Resolved, SearchRoot
  PROVE  Resolved'
<1>1. PICK m \in groots : Search(m, gframes)
  BY DEF SearchRoot
<1>2. /\ phase = "graph" /\ phase' = "graph" /\ UNCHANGED <<tree, loadVars>>
      /\ errors' = errors /\ scan' = scan /\ dependencies' = dependencies /\ gframes = <<>>
  BY DEF SearchRoot
<1>3. /\ LoaderTypeOK /\ m \in modules /\ m \in Names /\ scan = NoModule
      /\ gvisited \subseteq modules /\ modules \subseteq Names
  BY <1>1, <1>2 DEF LoaderInvariant, LoaderTypeOK, GraphOK
<1>4. /\ OwnOK' /\ (\A n : Own(n)' = Own(n)) /\ imports' = imports /\ tree' = tree
      /\ Len(Own(m)) <= Len(imports[m])
  BY <1>2, <1>3, NothingLoadedOwn DEF Resolved, loadVars, OwnOK
<1>5. NoCallsLeft'
  BY <1>2 DEF NoCallsLeft
<1>6. CASE m \in gvisited
  <2>1. gframes' = gframes /\ gvisited' = gvisited
    BY <1>1, <1>6 DEF Search
  <2>2. ScanKnown'
    BY <1>2, <1>3 DEF ScanKnown
  <2> QED
    BY <1>2, <1>5, <2>1, <2>2, CallsStayResolved
<1>7. CASE m \notin gvisited
  <2> DEFINE new == [mod |-> m, next |-> 1, end |-> Len(imports[m])]
  <2>1. gvisited' = gvisited \cup {m} /\ gframes' = <<new>>
    BY <1>1, <1>2, <1>7 DEF Search
  <2>2. DOMAIN gframes' = {1} /\ gframes'[1] = new
    BY <2>1
  <2> HIDE DEF new
  <2>3. new.mod = m /\ new.next = 1 /\ new.end = Len(imports[m]) /\ Len(imports[m]) \in Nat
    BY <1>3 DEF new, LoaderTypeOK
  <2> SUFFICES ASSUME errors = {}
               PROVE  /\ DependenciesKnown' /\ UnsearchedFree' /\ CallsCount'
                      /\ ReturnedWithAll' /\ ScanKnown'
    BY <1>2, <1>4, <1>5 DEF Resolved
  <2>4. dependencies[m] = <<>>
    BY <1>3, <1>7 DEF Resolved, UnsearchedFree
  <2>5. DependenciesKnown'
    <3> SUFFICES ASSUME NEW n \in gvisited \cup {m}, NEW i \in DOMAIN dependencies[n]
                 PROVE  i <= Len(imports[n]) /\ Known(n, imports[n][i], dependencies[n][i])
      BY <1>2, <1>4, <2>1, KnownStays DEF DependenciesKnown
    <3>1. n # m
      BY <2>4
    <3> QED
      BY <3>1 DEF Resolved, DependenciesKnown
  <2>6. UnsearchedFree'
    BY <1>2, <2>1 DEF Resolved, UnsearchedFree
  <2>7. CallsCount'
    <3>1. /\ gframes'[1].mod \in gvisited'
          /\ Len(dependencies'[gframes'[1].mod]) = gframes'[1].next - 1
          /\ gframes'[1].next <= gframes'[1].end + 1
          /\ Len(Own(m)') <= gframes'[1].end
      BY <1>2, <1>4, <2>1, <2>2, <2>3, <2>4
    <3>2. Own(gframes[1].mod)' = Own(m)'
      BY <1>4, <2>2, <2>3 DEF Own
    <3> QED
      BY <2>2, <3>1, <3>2 DEF CallsCount
  <2>8. ReturnedWithAll'
    BY <1>2, <1>4, <2>1, <2>2, <2>3 DEF Resolved, ReturnedWithAll
  <2>9. ScanKnown'
    BY <1>2, <1>3 DEF ScanKnown
  <2> QED
    BY <2>5, <2>6, <2>7, <2>8, <2>9
<1> QED
  BY <1>6, <1>7

LEMMA BeginImportResolved ==
  ASSUME LoaderInvariant, LoaderInvariant', Resolved, BeginImport
  PROVE  Resolved'
<1> DEFINE imp == imports[GTop.mod][GTop.next]
<1>1. /\ phase = "graph" /\ phase' = "graph" /\ UNCHANGED <<tree, loadVars>>
      /\ errors' = errors /\ gvisited' = gvisited /\ gframes' = gframes
      /\ dependencies' = dependencies /\ GTop.next <= GTop.end
      /\ scan' = [imp |-> imp, places |-> tree.places[GTop.mod][imp],
                  pending |-> <<>>, dep |-> NoModule]
  BY DEF BeginImport
<1>2. imports' = imports /\ tree' = tree /\ GTop' = GTop
  BY <1>1 DEF loadVars, GTop
<1>3. ScanKnown'
  <2>1. /\ scan'.imp = imp /\ scan'.places = tree.places[GTop.mod][imp]
        /\ scan'.pending = <<>> /\ scan'.dep = NoModule
    BY <1>1
  <2> HIDE DEF imp
  <2>2. DOMAIN scan'.pending = {}
    BY <2>1
  <2>3. GTop'.next <= GTop'.end /\ scan'.imp = imports'[GTop'.mod][GTop'.next]
    BY <1>1, <1>2, <2>1 DEF imp
  <2> QED
    BY <1>2, <2>1, <2>2, <2>3 DEF ScanKnown
<1> QED
  BY <1>1, <1>3, CallsStayResolved DEF NoCallsLeft

LEMMA OpenPlaceResolved ==
  ASSUME LoaderInvariant, LoaderInvariant', Resolved, OpenPlace
  PROVE  Resolved'
<1> DEFINE place == Head(scan.places)
<1>1. /\ phase = "graph" /\ phase' = "graph" /\ UNCHANGED <<tree, loadVars>>
      /\ errors' = errors /\ gvisited' = gvisited /\ gframes' = gframes
      /\ dependencies' = dependencies /\ scan # NoModule /\ scan.places # <<>>
      /\ scan.dep = NoModule
      /\ scan' = [scan EXCEPT !.pending = FilesAt(place), !.places = Tail(@)]
  BY DEF OpenPlace, Scanning
<1>2. imports' = imports /\ tree' = tree /\ GTop' = GTop /\ scan \in Scan
  BY <1>1 DEF loadVars, GTop, LoaderInvariant, LoaderTypeOK
<1>3. /\ scan'.imp = scan.imp /\ scan'.places = Tail(scan.places)
      /\ scan'.pending = FilesAt(place) /\ scan'.dep = NoModule
  BY <1>1, <1>2 DEF Scan
<1>4. /\ 1 \in DOMAIN scan.places /\ place = scan.places[1]
      /\ \A k \in DOMAIN Tail(scan.places) :
           k + 1 \in DOMAIN scan.places /\ Tail(scan.places)[k] = scan.places[k + 1]
  BY <1>1, <1>2 DEF Scan
<1> HIDE DEF place
<1>5. ASSUME errors = {} PROVE ScanKnown'
  <2>1. /\ GTop.next <= GTop.end /\ scan.imp = imports[GTop.mod][GTop.next]
        /\ \A k \in DOMAIN scan.places :
             \E j \in DOMAIN tree.places[GTop.mod][scan.imp] :
               scan.places[k] = tree.places[GTop.mod][scan.imp][j]
    BY <1>1, <1>5 DEF Resolved, ScanKnown
  <2>2. PICK j \in DOMAIN tree.places[GTop.mod][scan.imp] :
          place = tree.places[GTop.mod][scan.imp][j]
    BY <1>4, <2>1
  <2>3. ASSUME NEW i \in DOMAIN FilesAt(place)
        PROVE  FileFor(GTop.mod, scan.imp, FilesAt(place)[i])
    BY <2>2 DEF FileFor
  <2>4. \A k \in DOMAIN scan'.places :
          \E l \in DOMAIN tree'.places[GTop'.mod][scan'.imp] :
            scan'.places[k] = tree'.places[GTop'.mod][scan'.imp][l]
    BY <1>2, <1>3, <1>4, <2>1
  <2>5. \A i \in DOMAIN scan'.pending : FileFor(GTop.mod, scan.imp, scan.pending[i])'
    <3> SUFFICES ASSUME NEW i \in DOMAIN FilesAt(place)
                 PROVE  FileFor(GTop.mod, scan.imp, scan.pending[i])'
      BY <1>3
    <3>1. /\ GTop'.mod = GTop.mod /\ scan'.imp = scan.imp /\ scan'.pending = FilesAt(place)
          /\ tree' = tree
      BY <1>2, <1>3
    <3>2. j \in DOMAIN tree'.places[GTop'.mod][scan'.imp]
          /\ tree'.places[GTop'.mod][scan'.imp][j] = place
      BY <2>2, <3>1
    <3>3. FilesAt(tree'.places[GTop'.mod][scan'.imp][j]) = FilesAt(place)
      BY <3>2
    <3> QED
      BY <3>1, <3>2, <3>3 DEF FileFor
  <2> QED
    BY <1>2, <1>3, <2>1, <2>4, <2>5 DEF ScanKnown
<1> QED
  BY <1>1, <1>5, CallsStayResolved DEF NoCallsLeft

LEMMA ScanFileResolved ==
  ASSUME LoaderInvariant, LoaderInvariant', Resolved, ScanFile
  PROVE  Resolved'
<1> DEFINE p == Head(scan.pending)
           m == tree.name[p.file]
<1>1. /\ phase = "graph" /\ phase' \in {"graph", "crashed"} /\ tree' = tree
      /\ scan # NoModule /\ scan.pending # <<>> /\ LoadFile(p.file)
      /\ gframes' = gframes /\ gvisited' = gvisited /\ dependencies' = dependencies
      /\ scan' = [scan EXCEPT !.pending = Tail(@),
                    !.dep = IF p.primary \/ m = scan.imp THEN m ELSE @]
  BY DEF ScanFile, Scanning
<1>2. /\ LoaderTypeOK /\ LoadedOK /\ scan \in Scan /\ gframes # <<>>
      /\ gvisited \subseteq modules
  BY <1>1 DEF LoaderInvariant, LoaderTypeOK
<1>3. /\ scan.pending \in Seq(Pending) /\ p = scan.pending[1] /\ 1 \in DOMAIN scan.pending
      /\ \A i \in DOMAIN Tail(scan.pending) :
           i + 1 \in DOMAIN scan.pending /\ Tail(scan.pending)[i] = scan.pending[i + 1]
  BY <1>1, <1>2 DEF Scan
<1>4. p \in Pending
  BY <1>3
<1>5. p.file \in Files
  BY <1>4 DEF Pending
<1>6. /\ scan'.imp = scan.imp /\ scan'.places = scan.places
      /\ scan'.pending = Tail(scan.pending)
      /\ scan'.dep = IF p.primary \/ m = scan.imp THEN m ELSE scan.dep
  BY <1>1, <1>2 DEF Scan
<1>7. errors' = {} => errors = {}
  BY <1>1, <1>2, <1>5, LoadFileKeeps
<1>8. /\ OwnOK'
      /\ \A n \in modules : Own(n)' = Own(n)
      /\ \A n \in modules : \A i \in 1..Len(imports[n]) :
           i \in 1..Len(imports'[n]) /\ imports'[n][i] = imports[n][i]
  BY <1>1, <1>2, <1>5, LoadFileGrows DEF Resolved
<1>9. /\ GTop' = GTop /\ GTop.mod \in modules /\ GTop.next \in Nat \ {0} /\ GTop.end \in Nat
      /\ GTop.end <= Len(imports[GTop.mod]) /\ imports[GTop.mod] \in Seq(Names)
  BY <1>1, <1>2, GTopType DEF GTop
<1> HIDE DEF p, m
<1> SUFFICES ASSUME errors = {}
             PROVE  /\ DependenciesKnown' /\ UnsearchedFree' /\ CallsCount'
                    /\ ReturnedWithAll' /\ ScanKnown'
  BY <1>1, <1>7, <1>8 DEF Resolved, NoCallsLeft
<1>10. DependenciesKnown'
  <2> SUFFICES ASSUME NEW n \in gvisited, NEW i \in DOMAIN dependencies[n]
               PROVE  /\ i <= Len(imports'[n])
                      /\ Known(n, imports[n][i], dependencies[n][i])'
    BY <1>1 DEF DependenciesKnown
  <2>1. i <= Len(imports[n]) /\ Known(n, imports[n][i], dependencies[n][i])
    BY DEF Resolved, DependenciesKnown
  <2>2. i \in 1..Len(imports[n])
    <3>1. n \in Names /\ dependencies[n] \in Seq(Names)
      BY <1>2 DEF LoaderTypeOK, GraphOK
    <3>2. i \in Nat \ {0}
      BY <3>1
    <3>3. Len(imports[n]) \in Nat
      BY <1>2, <3>1 DEF LoaderTypeOK
    <3> QED
      BY <2>1, <3>2, <3>3
  <2>3. i \in 1..Len(imports'[n]) /\ imports'[n][i] = imports[n][i] /\ imports' \in [Names -> Seq(Names)]
        /\ n \in Names
    BY <1>2, <1>8, <2>2 DEF LoaderInvariant, LoaderTypeOK, GraphOK
  <2>4. Known(n, imports[n][i], dependencies[n][i])'
    BY <1>1, <2>1, <2>3 DEF Known, Provides
  <2> QED
    BY <2>1, <2>3, <2>4
<1>11. UnsearchedFree'
  BY <1>1 DEF Resolved, UnsearchedFree
<1>12. \A i \in DOMAIN gframes : gframes[i].mod \in modules
  BY <1>2 DEF Resolved, CallsCount
<1>13. CallsCount'
  <2> SUFFICES ASSUME NEW i \in DOMAIN gframes
               PROVE  /\ gframes[i].mod \in gvisited
                      /\ Len(dependencies[gframes[i].mod]) = gframes[i].next - 1
                      /\ gframes[i].next <= gframes[i].end + 1
                      /\ Len(Own(gframes[i].mod)') <= gframes[i].end
                      /\ \A j \in DOMAIN gframes : gframes[i].mod = gframes[j].mod => i = j
    BY <1>1 DEF CallsCount, Own
  <2>1. Own(gframes[i].mod)' = Own(gframes[i].mod)
    BY <1>1, <1>8, <1>12 DEF Own
  <2> QED
    BY <1>1, <2>1 DEF Resolved, CallsCount, Own
<1>14. ReturnedWithAll'
  BY <1>1, <1>2, <1>8 DEF Resolved, ReturnedWithAll, Own
<1>15. ScanKnown'
  <2>1. /\ GTop.next <= GTop.end /\ scan.imp = imports[GTop.mod][GTop.next]
        /\ \A k \in DOMAIN scan.places :
             \E j \in DOMAIN tree.places[GTop.mod][scan.imp] :
               scan.places[k] = tree.places[GTop.mod][scan.imp][j]
        /\ \A i \in DOMAIN scan.pending : FileFor(GTop.mod, scan.imp, scan.pending[i])
        /\ scan.dep # NoModule => Known(GTop.mod, scan.imp, scan.dep)
    BY <1>1 DEF Resolved, ScanKnown
  <2>2. scan'.imp = imports'[GTop'.mod][GTop'.next]
    <3>1. GTop.next \in 1..Len(imports[GTop.mod])
      BY <1>9, <2>1
    <3> QED
      BY <1>6, <1>8, <1>9, <2>1, <3>1
  <2>3. \A i \in DOMAIN scan'.pending : FileFor(GTop.mod, scan.imp, scan.pending[i])'
    <3> SUFFICES ASSUME NEW i \in DOMAIN scan'.pending
                 PROVE  FileFor(GTop.mod, scan.imp, scan.pending[i])'
      OBVIOUS
    <3>1. FileFor(GTop.mod, scan.imp, scan.pending[i + 1])
      BY <1>3, <1>6, <2>1
    <3>2. scan'.pending[i] = scan.pending[i + 1]
      BY <1>3, <1>6
    <3> QED
      BY <1>1, <1>6, <1>9, <3>1, <3>2 DEF FileFor
  <2>4. ASSUME p.primary \/ m = scan.imp PROVE Known(GTop.mod, scan.imp, m)
    <3>1. FileFor(GTop.mod, scan.imp, p)
      BY <1>3, <2>1
    <3>2. PICK k \in DOMAIN tree.places[GTop.mod][scan.imp] :
            \E l \in DOMAIN FilesAt(tree.places[GTop.mod][scan.imp][k]) :
              p = FilesAt(tree.places[GTop.mod][scan.imp][k])[l]
      BY <3>1 DEF FileFor
    <3>3. Provides(tree.places[GTop.mod][scan.imp][k], scan.imp, m)
      BY <2>4, <3>2 DEF Provides, m
    <3> QED
      BY <3>3 DEF Known
  <2>5. scan'.dep # NoModule => Known(GTop.mod, scan.imp, scan'.dep)
    BY <1>6, <2>1, <2>4
  <2>6. scan'.dep # NoModule => Known(GTop.mod, scan.imp, scan.dep)'
    BY <1>1, <1>6, <1>9, <2>5 DEF Known, Provides
  <2>7. \A k \in DOMAIN scan'.places :
          \E j \in DOMAIN tree'.places[GTop'.mod][scan'.imp] :
            scan'.places[k] = tree'.places[GTop'.mod][scan'.imp][j]
    BY <1>1, <1>6, <1>9, <2>1
  <2>8. GTop'.next <= GTop'.end
    BY <1>9, <2>1
  <2> QED
    BY <2>2, <2>3, <2>6, <2>7, <2>8 DEF ScanKnown
<1> QED
  BY <1>10, <1>11, <1>13, <1>14, <1>15

LEMMA ImportUnknownResolved ==
  ASSUME LoaderInvariant, LoaderInvariant', Resolved, ImportUnknown
  PROVE  Resolved'
<1>1. /\ phase = "graph" /\ phase' = "graph" /\ UNCHANGED <<tree, loadVars>>
      /\ errors' = errors \cup {<<"unknown", scan.imp>>}
  BY DEF ImportUnknown, Scanning
<1>2. errors' # {}
  BY <1>1
<1> QED
  BY <1>1, <1>2, NothingLoadedOwn DEF Resolved, NoCallsLeft

LEMMA SearchReturnResolved ==
  ASSUME LoaderInvariant, LoaderInvariant', Resolved, SearchReturn
  PROVE  Resolved'
<1>1. /\ phase = "graph" /\ phase' = "graph" /\ UNCHANGED <<tree, loadVars>>
      /\ errors' = errors /\ gvisited' = gvisited
      /\ dependencies' = dependencies /\ scan = NoModule /\ scan' = scan /\ gframes # <<>>
      /\ gframes' = SubSeq(gframes, 1, Len(gframes) - 1) /\ GTop.next > GTop.end
  BY DEF SearchReturn
<1>2. /\ OwnOK' /\ (\A n : Own(n)' = Own(n)) /\ imports' = imports /\ tree' = tree
  BY <1>1, NothingLoadedOwn DEF Resolved, loadVars
<1>3. LoaderTypeOK /\ gframes \in Seq(GFrame)
  BY DEF LoaderInvariant, LoaderTypeOK
<1>4. /\ gframes' \in Seq(GFrame) /\ Len(gframes') = Len(gframes) - 1
      /\ \A i \in 1..Len(gframes') : gframes'[i] = gframes[i]
  BY <1>1, <1>3, DropLast
<1>5. /\ Len(gframes) \in Nat \ {0} /\ DOMAIN gframes = 1..Len(gframes)
      /\ DOMAIN gframes' = 1..Len(gframes') /\ DOMAIN gframes' \subseteq DOMAIN gframes
      /\ \A i \in DOMAIN gframes : i = Len(gframes) \/ i \in DOMAIN gframes'
  BY <1>1, <1>3, <1>4
<1> SUFFICES ASSUME errors = {}
             PROVE  /\ DependenciesKnown' /\ UnsearchedFree' /\ CallsCount'
                    /\ ReturnedWithAll' /\ ScanKnown'
  BY <1>1, <1>2 DEF Resolved, NoCallsLeft
<1>6. DependenciesKnown' /\ UnsearchedFree' /\ ScanKnown'
  BY <1>1, <1>2, KnownStays DEF Resolved, DependenciesKnown, UnsearchedFree, ScanKnown
<1>7. CallsCount'
  <2> SUFFICES ASSUME NEW i \in DOMAIN gframes'
               PROVE  /\ gframes'[i].mod \in gvisited
                      /\ Len(dependencies[gframes'[i].mod]) = gframes'[i].next - 1
                      /\ gframes'[i].next <= gframes'[i].end + 1
                      /\ Len(Own(gframes'[i].mod)) <= gframes'[i].end
                      /\ \A j \in DOMAIN gframes' : gframes'[i].mod = gframes'[j].mod => i = j
    BY <1>1, <1>2 DEF CallsCount, Own, loadVars
  <2>1. i \in DOMAIN gframes /\ gframes'[i] = gframes[i]
    BY <1>4, <1>5
  <2>2. \A j \in DOMAIN gframes' : j \in DOMAIN gframes /\ gframes'[j] = gframes[j]
    BY <1>4, <1>5
  <2> QED
    BY <2>1, <2>2 DEF Resolved, CallsCount
<1>8. ReturnedWithAll'
  <2> SUFFICES ASSUME NEW m \in gvisited, ~(Len(Own(m)) <= Len(dependencies[m]))
               PROVE  \E i \in DOMAIN gframes' : gframes'[i].mod = m
    BY <1>1, <1>2 DEF ReturnedWithAll
  <2>1. PICK i \in DOMAIN gframes : gframes[i].mod = m
    BY DEF Resolved, ReturnedWithAll
  <2>2. CASE i = Len(gframes)
    <3>1. /\ gframes[i] = GTop /\ GTop.next \in Nat \ {0} /\ GTop.end \in Nat
      BY <1>1, <1>3, <2>2, GTopType DEF GTop
    <3>2. /\ Len(dependencies[m]) = GTop.next - 1 /\ GTop.next <= GTop.end + 1
          /\ Len(Own(m)) <= GTop.end
      BY <2>1, <3>1 DEF Resolved, CallsCount
    <3>3. Len(dependencies[m]) = GTop.end
      BY <1>1, <3>1, <3>2
    <3> QED
      BY <3>2, <3>3
  <2>3. CASE i # Len(gframes)
    BY <1>4, <1>5, <2>1, <2>3
  <2> QED
    BY <2>2, <2>3
<1> QED
  BY <1>6, <1>7, <1>8

LEMMA StartTopoSortResolved ==
  ASSUME LoaderInvariant, LoaderInvariant', Resolved, StartTopoSort
  PROVE  Resolved'
<1>1. /\ UNCHANGED <<tree, loadVars>> /\ errors' = errors /\ gvisited' = gvisited
      /\ gframes' = gframes /\ dependencies' = dependencies /\ scan' = scan /\ gframes = <<>>
  BY DEF StartTopoSort, graphSearchVars
<1>2. NoCallsLeft' /\ scan = NoModule
  BY <1>1 DEF NoCallsLeft, LoaderInvariant, LoaderTypeOK
<1>3. ScanKnown'
  BY <1>1, <1>2 DEF ScanKnown
<1> QED
  BY <1>1, <1>2, <1>3, CallsStayResolved

LEMMA RestResolved ==
  ASSUME LoaderInvariant, LoaderInvariant', Resolved, SortStep \/ Finish \/ UNCHANGED vars
  PROVE  Resolved'
<1>1. /\ UNCHANGED <<tree, loadVars>> /\ errors' = errors /\ gvisited' = gvisited
      /\ gframes' = gframes /\ dependencies' = dependencies /\ scan' = scan
      /\ phase \in {"topo", "analyze"} \/ phase' = phase
  BY DEF SortStep, Finish, vars, graphSearchVars, loadVars, TopoNext, VisitRoot,
     VisitDependency, LeaveModule, graphVars
<1>2. NoCallsLeft'
  BY <1>1 DEF Resolved, NoCallsLeft
<1>3. errors = {} => ScanKnown'
  <2>1. GTop' = GTop /\ imports' = imports /\ tree' = tree
    BY <1>1 DEF GTop, loadVars
  <2>2. \A i : FileFor(GTop.mod, scan.imp, scan.pending[i])' = FileFor(GTop.mod, scan.imp, scan.pending[i])
    BY <1>1, <2>1 DEF FileFor
  <2>3. Known(GTop.mod, scan.imp, scan.dep)' = Known(GTop.mod, scan.imp, scan.dep)
    BY <1>1, <2>1 DEF Known, Provides
  <2> QED
    BY <1>1, <2>1, <2>2, <2>3 DEF Resolved, ScanKnown
<1> QED
  BY <1>1, <1>2, <1>3, CallsStayResolved

LEMMA ImportFoundResolved ==
  ASSUME LoaderInvariant, LoaderInvariant', Resolved, ImportFound
  PROVE  Resolved'
<1> DEFINE d == scan.dep
           m == GTop.mod
           top == Len(gframes)
<1>1. /\ phase = "graph" /\ phase' = "graph" /\ UNCHANGED <<tree, loadVars>>
      /\ errors' = errors /\ scan # NoModule /\ d # NoModule /\ scan' = NoModule
      /\ dependencies' = [dependencies EXCEPT ![m] = Append(@, d)]
      /\ Search(d, NextImport)
  BY DEF ImportFound, Scanning
<1>2. /\ OwnOK' /\ (\A n : Own(n)' = Own(n)) /\ imports' = imports /\ tree' = tree
  BY <1>1, NothingLoadedOwn DEF Resolved, loadVars
<1>3. /\ LoaderTypeOK /\ scan \in Scan /\ gframes # <<>> /\ gvisited \subseteq modules
      /\ modules \subseteq Names /\ dependencies \in [Names -> Seq(Names)]
  BY <1>1 DEF LoaderInvariant, LoaderTypeOK, GraphOK
<1>4. d \in modules
  BY <1>1, <1>3 DEF Scan
<1>5. /\ top \in Nat \ {0} /\ DOMAIN gframes = 1..top /\ gframes \in Seq(GFrame)
      /\ m \in Names /\ GTop.next \in Nat \ {0} /\ GTop.end \in Nat
      /\ imports[m] \in Seq(Names) /\ GTop.end <= Len(imports[m]) /\ gframes[top] = GTop
  BY <1>3, GTopType DEF LoaderTypeOK, GTop
<1>6. /\ NextImport \in Seq(GFrame) /\ Len(NextImport) = top
      /\ \A i \in 1..top :
           /\ NextImport[i].mod = gframes[i].mod
           /\ NextImport[i].end = gframes[i].end
           /\ i < top => NextImport[i].next = gframes[i].next
      /\ NextImport[top].next = GTop.next + 1
  BY <1>3, AdvancedCall DEF GTop
<1>7. /\ gvisited' = gvisited \cup {d}
      /\ \A i \in 1..top : gframes'[i] = NextImport[i]
      /\ d \in gvisited => gframes' = NextImport
      /\ d \notin gvisited =>
           /\ Len(gframes') = top + 1
           /\ gframes'[top + 1] = [mod |-> d, next |-> 1, end |-> Len(imports[d])]
  <2>1. CallsFit(NextImport)
    BY <1>3, LoopsFit
  <2> QED
    BY <1>1, <1>3, <1>4, <1>6, <2>1, SearchKeeps
<1>8. gframes' \in Seq(GFrame')
  BY DEF LoaderInvariant, LoaderTypeOK
<1> HIDE DEF d, m, top
<1>9. /\ dependencies'[m] = Append(dependencies[m], d)
      /\ \A n \in Names : n # m => dependencies'[n] = dependencies[n]
      /\ dependencies[m] \in Seq(Names) /\ Len(dependencies[m]) \in Nat
  BY <1>1, <1>3, <1>5
<1>10. /\ Len(dependencies'[m]) = Len(dependencies[m]) + 1
       /\ DOMAIN dependencies'[m] = 1..(Len(dependencies[m]) + 1)
       /\ dependencies'[m][Len(dependencies[m]) + 1] = d
       /\ \A i \in 1..Len(dependencies[m]) : dependencies'[m][i] = dependencies[m][i]
  <2>1. d \in Names
    BY <1>3, <1>4
  <2> QED
    BY <1>9, <2>1
<1> SUFFICES ASSUME errors = {}
             PROVE  /\ DependenciesKnown' /\ UnsearchedFree' /\ CallsCount'
                    /\ ReturnedWithAll' /\ ScanKnown'
  BY <1>1, <1>2 DEF Resolved, NoCallsLeft
<1>11. /\ m \in gvisited /\ Len(dependencies[m]) = GTop.next - 1
       /\ \A i \in 1..top : gframes[i].mod = m => i = top
       /\ \A i \in 1..top :
            /\ gframes[i].mod \in gvisited
            /\ Len(dependencies[gframes[i].mod]) = gframes[i].next - 1
            /\ gframes[i].next <= gframes[i].end + 1
            /\ Len(Own(gframes[i].mod)) <= gframes[i].end
            /\ \A j \in 1..top : gframes[i].mod = gframes[j].mod => i = j
  <2>1. CallsCount /\ gframes[top].mod = m /\ top \in 1..top
    BY <1>5 DEF Resolved, m
  <2> QED
    BY <1>5, <2>1 DEF CallsCount
<1>12. /\ GTop.next <= GTop.end /\ scan.imp = imports[m][GTop.next] /\ Known(m, scan.imp, d)
  BY <1>1 DEF Resolved, ScanKnown, m, d
<1>13. DependenciesKnown'
  <2> SUFFICES ASSUME NEW n \in gvisited \cup {d}, NEW i \in DOMAIN dependencies'[n]
               PROVE  i <= Len(imports[n]) /\ Known(n, imports[n][i], dependencies'[n][i])
    BY <1>2, <1>7 DEF DependenciesKnown, Known, Provides
  <2>1. n \in Names /\ DOMAIN dependencies[m] = 1..Len(dependencies[m])
    BY <1>3, <1>4, <1>9
  <2>2. CASE n # m /\ n \in gvisited
    BY <1>9, <2>1, <2>2 DEF Resolved, DependenciesKnown
  <2>3. CASE n # m /\ n \notin gvisited
    <3>1. dependencies'[n] = <<>>
      BY <1>9, <2>1, <2>3 DEF Resolved, UnsearchedFree
    <3> QED
      BY <3>1
  <2>4. CASE n = m
    <3>1. CASE i \in 1..Len(dependencies[m])
      BY <1>10, <1>11, <2>1, <2>4, <3>1 DEF Resolved, DependenciesKnown
    <3>2. CASE i = Len(dependencies[m]) + 1
      <4>1. i = GTop.next /\ dependencies'[m][i] = d
        BY <1>5, <1>10, <1>11, <3>2
      <4>2. i <= Len(imports[m])
        BY <1>5, <1>12, <4>1
      <4> QED
        BY <1>12, <2>4, <4>1, <4>2
    <3>3. i \in 1..Len(dependencies[m]) \/ i = Len(dependencies[m]) + 1
      BY <1>9, <1>10, <2>4
    <3> QED
      BY <3>1, <3>2, <3>3
  <2> QED
    BY <2>2, <2>3, <2>4
<1>14. UnsearchedFree'
  BY <1>7, <1>9, <1>11 DEF Resolved, UnsearchedFree
<1>15. \A i \in 1..top :
         /\ gframes'[i].mod = gframes[i].mod /\ gframes'[i].end = gframes[i].end
         /\ gframes'[i].next = IF i = top THEN gframes[i].next + 1 ELSE gframes[i].next
  <2> SUFFICES ASSUME NEW i \in 1..top
               PROVE  /\ gframes'[i].mod = gframes[i].mod /\ gframes'[i].end = gframes[i].end
                      /\ gframes'[i].next = IF i = top THEN gframes[i].next + 1 ELSE gframes[i].next
    OBVIOUS
  <2>1. gframes'[i] = NextImport[i]
    BY <1>7
  <2>2. CASE i = top
    BY <1>5, <1>6, <2>1, <2>2
  <2>3. CASE i # top
    <3>1. i < top
      BY <1>5, <2>3
    <3> QED
      BY <1>6, <2>1, <2>3, <3>1
  <2> QED
    BY <2>2, <2>3
<1>16. /\ Len(gframes') = top \/ Len(gframes') = top + 1
       /\ DOMAIN gframes' = 1..Len(gframes')
       /\ Len(gframes') = top + 1 => d \notin gvisited
  <2>1. top # top + 1
    BY <1>5
  <2> QED
    BY <1>6, <1>7, <1>8, <2>1
<1>17. \A i \in 1..top :
         /\ gframes'[i].mod \in gvisited
         /\ Len(dependencies'[gframes'[i].mod]) = gframes'[i].next - 1
         /\ gframes'[i].next <= gframes'[i].end + 1
         /\ Len(Own(gframes'[i].mod)) <= gframes'[i].end
         /\ \A j \in 1..top : gframes'[i].mod = gframes'[j].mod => i = j
  <2> SUFFICES ASSUME NEW i \in 1..top
               PROVE  /\ gframes'[i].mod \in gvisited
                      /\ Len(dependencies'[gframes'[i].mod]) = gframes'[i].next - 1
                      /\ gframes'[i].next <= gframes'[i].end + 1
                      /\ Len(Own(gframes'[i].mod)) <= gframes'[i].end
                      /\ \A j \in 1..top : gframes'[i].mod = gframes'[j].mod => i = j
    OBVIOUS
  <2>1. /\ gframes'[i].mod = gframes[i].mod /\ gframes'[i].end = gframes[i].end
        /\ gframes[i].mod \in gvisited /\ Len(Own(gframes[i].mod)) <= gframes[i].end
        /\ \A j \in 1..top : gframes'[i].mod = gframes'[j].mod => i = j
    BY <1>11, <1>15
  <2>2. CASE i = top
    <3>1. gframes[i].mod = m /\ gframes[i] = GTop /\ gframes'[i].next = GTop.next + 1
      BY <1>5, <1>15, <2>2 DEF m
    <3>2. Len(dependencies'[m]) = gframes'[i].next - 1
      BY <1>5, <1>10, <1>11, <3>1
    <3>3. gframes'[i].next <= gframes'[i].end + 1
      BY <1>5, <1>12, <2>1, <3>1
    <3> QED
      BY <2>1, <3>1, <3>2, <3>3
  <2>3. CASE i # top
    <3>1. gframes'[i].next = gframes[i].next /\ gframes[i].mod # m /\ gframes[i].mod \in Names
      BY <1>3, <1>11, <1>15, <2>3
    <3>2. dependencies'[gframes[i].mod] = dependencies[gframes[i].mod]
      BY <1>9, <3>1
    <3> QED
      BY <1>11, <2>1, <3>1, <3>2
  <2> QED
    BY <2>2, <2>3
<1>18. CallsCount'
  <2>1. CASE Len(gframes') = top
    <3>1. DOMAIN gframes' = 1..top
      BY <1>16, <2>1
    <3> QED
      BY <1>2, <1>7, <1>17, <3>1 DEF CallsCount
  <2>2. CASE Len(gframes') = top + 1
    <3> DEFINE new == [mod |-> d, next |-> 1, end |-> Len(imports[d])]
    <3>1. d \notin gvisited /\ gframes'[top + 1] = new
      BY <1>7, <1>16, <2>2
    <3>2. /\ new.mod = d /\ new.next = 1 /\ new.end = Len(imports[d])
          /\ Len(imports[d]) \in Nat
      BY <1>3, <1>4 DEF LoaderTypeOK
    <3>3. d # m /\ d \in Names
      BY <1>3, <1>4, <1>11, <3>1
    <3>4. dependencies'[d] = <<>>
      BY <1>9, <3>1, <3>3 DEF Resolved, UnsearchedFree
    <3>5. Len(Own(d)) <= Len(imports[d])
      BY <1>4 DEF Resolved, OwnOK
    <3> HIDE DEF new
    <3>6. /\ gframes'[top + 1].mod = d
          /\ Len(dependencies'[d]) = gframes'[top + 1].next - 1
          /\ gframes'[top + 1].next <= gframes'[top + 1].end + 1
          /\ Len(Own(d)) <= gframes'[top + 1].end
      BY <3>1, <3>2, <3>4, <3>5
    <3>7. /\ \A i \in DOMAIN gframes' : i \in 1..top \/ i = top + 1
          /\ \A i \in 1..top : gframes'[i].mod # d
      <4>1. DOMAIN gframes' = 1..(top + 1)
        BY <1>16, <2>2
      <4> QED
        BY <1>5, <1>17, <3>1, <4>1
    <3>8. ASSUME NEW i \in DOMAIN gframes'
          PROVE  /\ gframes'[i].mod \in gvisited \cup {d}
                 /\ Len(dependencies'[gframes'[i].mod]) = gframes'[i].next - 1
                 /\ gframes'[i].next <= gframes'[i].end + 1
                 /\ Len(Own(gframes'[i].mod)) <= gframes'[i].end
                 /\ \A j \in DOMAIN gframes' : gframes'[i].mod = gframes'[j].mod => i = j
      <4>1. CASE i \in 1..top
        BY <1>17, <3>6, <3>7, <4>1
      <4>2. CASE i = top + 1
        BY <3>6, <3>7, <4>2
      <4> QED
        BY <3>7, <4>1, <4>2
    <3> QED
      BY <1>2, <1>7, <3>8 DEF CallsCount
  <2> QED
    BY <1>16, <2>1, <2>2
<1>19. ReturnedWithAll'
  <2> SUFFICES ASSUME NEW n \in gvisited \cup {d},
                      ~(Len(Own(n)) <= Len(dependencies'[n]))
               PROVE  \E i \in DOMAIN gframes' : gframes'[i].mod = n
    BY <1>2, <1>7 DEF ReturnedWithAll
  <2>1. CASE n \in gvisited
    <3>1. ASSUME Len(Own(n)) <= Len(dependencies[n]) PROVE FALSE
      <4>1. n = m
        BY <1>3, <1>9, <2>1, <3>1
      <4>2. Own(m) \in Seq(Names)
        <5>1. asts[m] # <<>> /\ asts[m] \in Seq(Files)
          BY <1>3, <1>11 DEF Resolved, OwnOK, LoaderTypeOK
        <5>2. asts[m][1] \in Files
          BY <5>1
        <5> QED
          BY <1>3, <5>2, TreeType DEF Own
      <4> QED
        BY <1>9, <1>10, <3>1, <4>1, <4>2
    <3>2. PICK i \in 1..top : gframes[i].mod = n
      BY <1>5, <2>1, <3>1 DEF Resolved, ReturnedWithAll
    <3>3. i \in DOMAIN gframes'
      <4>1. i \in Nat \ {0} /\ i <= top /\ top \in Nat
        BY <1>5
      <4>2. DOMAIN gframes' = 1..top \/ DOMAIN gframes' = 1..(top + 1)
        BY <1>16
      <4> QED
        BY <4>1, <4>2
    <3> QED
      BY <1>15, <3>2, <3>3
  <2>2. CASE n = d /\ d \notin gvisited
    <3>1. top + 1 \in DOMAIN gframes' /\ gframes'[top + 1].mod = d
      BY <1>5, <1>7, <1>16, <2>2
    <3> QED
      BY <2>2, <3>1
  <2> QED
    BY <2>1, <2>2
<1>20. ScanKnown'
  BY <1>1 DEF ScanKnown
<1> QED
  BY <1>13, <1>14, <1>18, <1>19, <1>20

LEMMA InitResolved == Init => Resolved
BY DEF Init, Resolved, OwnOK, NoCallsLeft, DependenciesKnown, UnsearchedFree, CallsCount,
   ReturnedWithAll, ScanKnown, NoImports

LEMMA ResolvedStep ==
  LoaderInvariant /\ LoaderInvariant' /\ Resolved /\ [Next]_vars => Resolved'
BY LoadEntryResolved, LoadFormatResolved, BuildGraphResolved, SearchRootResolved,
   BeginImportResolved, OpenPlaceResolved, ScanFileResolved, ImportFoundResolved,
   ImportUnknownResolved, SearchReturnResolved, StartTopoSortResolved, RestResolved DEF Next

(***************************************************************************)
(* As long as there is no error, the search has a dependency for each      *)
(* import it has gone through, and it is the one the tree has for it.      *)
(***************************************************************************)
THEOREM SearchResolves == Spec => []Resolved
BY InitResolved, ResolvedStep, LoaderCorrect, PTL DEF Spec

(* No broken file, no unknown import and no cycle reaches the analysis: a   *)
(* searched module has a dependency for each of the imports it was made     *)
(* with, every dependency is what the tree has for its import, and the      *)
(* module comes after everything it depends on.                             *)
THEOREM OnlySoundProgramsAnalyzed == Spec => []AnalysisOnlyOfSoundPrograms
<1>1. LoaderInvariant /\ Resolved => AnalysisOnlyOfSoundPrograms
  <2> SUFFICES ASSUME LoaderInvariant, Resolved, phase = "analyze"
               PROVE  /\ loaded \cap tree.broken = {}
                      /\ \A m \in gvisited :
                           /\ Len(tree.imports[asts[m][1]]) <= Len(dependencies[m])
                           /\ \A i \in DOMAIN dependencies[m] :
                                Known(m, imports[m][i], dependencies[m][i])
                           /\ \E k \in 1..Len(ordered) :
                                /\ ordered[k] = m
                                /\ \A j \in DOMAIN dependencies[m] :
                                     \E l \in 1..(k - 1) : ordered[l] = dependencies[m][j]
    BY DEF AnalysisOnlyOfSoundPrograms
  <2>1. TypeOK /\ SearchInvariant /\ TopoDone /\ errors = {} /\ cyclic = {}
    BY DEF LoaderInvariant, PhasesOK
  <2>2. loaded \cap tree.broken = {}
    BY <2>1 DEF LoaderInvariant, LoadedOK
  <2>3. EveryModuleOnce /\ DependenciesFirst
    BY <2>1, DoneMeansOnce DEF SearchInvariant
  <2>4. ASSUME NEW m \in gvisited
        PROVE  \E k \in 1..Len(ordered) :
                 /\ ordered[k] = m
                 /\ \A j \in DOMAIN dependencies[m] :
                      \E l \in 1..(k - 1) : ordered[l] = dependencies[m][j]
    <3>1. m \in modules /\ m \in Names
      BY DEF LoaderInvariant, LoaderTypeOK, GraphOK
    <3>2. PICK k \in 1..Len(ordered) : ordered[k] = m
      BY <2>1, <2>3, <3>1 DEF EveryModuleOnce
    <3>3. DOMAIN dependencies[m] = 1..Len(dependencies[m])
      BY <2>1, <3>1 DEF TypeOK, GraphOK
    <3> QED
      BY <2>1, <2>3, <3>2, <3>3 DEF DependenciesFirst
  <2>5. ASSUME NEW m \in gvisited
        PROVE  /\ Len(tree.imports[asts[m][1]]) <= Len(dependencies[m])
               /\ \A i \in DOMAIN dependencies[m] : Known(m, imports[m][i], dependencies[m][i])
    <3>1. DOMAIN gframes = {}
      BY DEF Resolved, NoCallsLeft
    <3> QED
      BY <2>1, <3>1 DEF Resolved, DependenciesKnown, ReturnedWithAll, Own
  <2> QED
    BY <2>2, <2>4, <2>5
<1> QED
  BY <1>1, LoaderCorrect, SearchResolves, PTL

-----------------------------------------------------------------------------
(* Trees that are laid out as documented *)

LEMMA SameTree ==
  ASSUME tree' = tree
  PROVE  WellLaidOut' = WellLaidOut
BY DEF WellLaidOut

(* Files are never unloaded. *)
LEMMA SettledGrows ==
  ASSUME tree' = tree, loaded \subseteq loaded'
  PROVE  \A m : Settled(m) => Settled(m)'
BY DEF Settled

(* A place for a module has all its files, or none. *)
LEMMA AllAtPlace ==
  ASSUME WellLaidOut, NEW x \in Names, NEW m \in Names, NEW k \in DOMAIN tree.places[x][m],
         NEW f \in FilesOf(tree.places[x][m][k])
  PROVE  /\ FilesOf(tree.places[x][m][k]) = {g \in Files : tree.name[g] = m}
         /\ tree.name[f] = m
BY DEF WellLaidOut

LEMMA PlaceHasAll ==
  ASSUME WellLaidOut, NEW m \in Names, NEW place,
         \E x \in Names : \E j \in DOMAIN tree.places[x][m] : place = tree.places[x][m][j],
         FilesOf(place) # {}, NEW f \in Files, tree.name[f] = m
  PROVE  f \in FilesOf(place)
<1>1. PICK x \in Names : \E j \in DOMAIN tree.places[x][m] : place = tree.places[x][m][j]
  OBVIOUS
<1>2. PICK j \in DOMAIN tree.places[x][m] : place = tree.places[x][m][j]
  BY <1>1
<1>3. PICK g : g \in FilesOf(tree.places[x][m][j])
  BY <1>2
<1>4. FilesOf(tree.places[x][m][j]) = {h \in Files : tree.name[h] = m}
  BY <1>3, AllAtPlace
<1> QED
  BY <1>2, <1>4

(* A module all of whose files are loaded is settled. *)
LEMMA AllLoadedSettled ==
  ASSUME WellLaidOut, NEW m \in Names, \A f \in Files : tree.name[f] = m => f \in loaded
  PROVE  Settled(m)
<1> SUFFICES ASSUME NEW x \in Names, NEW k \in DOMAIN tree.places[x][m],
                    NEW f \in FilesOf(tree.places[x][m][k])
             PROVE  f \in loaded
  BY DEF Settled
<1> QED
  BY AllAtPlace

(* Before the search there is nothing else to say. *)
LEMMA EarlyLayout ==
  ASSUME LoaderInvariant', Early', EarlyOK'
  PROVE  Layout'
<1>1. groots' = {} /\ gframes' = <<>> /\ gvisited' = {} /\ scan' = NoModule
  BY DEF LoaderInvariant, PhasesOK
<1>2. phase' \notin {"graph", "topo", "analyze"}
  BY DEF Early
<1> QED
  BY <1>1, <1>2 DEF Layout, SearchedSettled, ScanOK, FramesOK, NoneForgotten, ImportsGoneThrough

LEMMA LoadEntryLayout ==
  ASSUME LoaderInvariant, LoaderInvariant', Layout, LoadEntry
  PROVE  Layout'
<1>1. phase = "entry" /\ phase' = "format" /\ tree' = tree
  BY DEF LoadEntry
<1>2. /\ loaded \subseteq {tree.entry, tree.format} \ {NoFile}
      /\ \A m \in modules : \E f \in loaded : tree.name[f] = m
  BY <1>1 DEF Layout, EarlyOK, Early
<1>3. CASE UNCHANGED loadVars
  <2>1. EarlyOK' /\ Early'
    BY <1>1, <1>2, <1>3 DEF EarlyOK, Early, loadVars
  <2> QED
    BY <2>1, EarlyLayout
<1>4. CASE tree.entry # NoFile /\ LoadFile(tree.entry)
  <2>1. tree.entry \in Files
    BY <1>4, TreeType DEF LoaderInvariant
  <2>2. loaded' = loaded \cup {tree.entry} /\ modules' = modules \cup {tree.name[tree.entry]}
    BY <1>1, <1>4, <2>1, LoadFileKeeps DEF LoaderInvariant
  <2>3. EarlyOK' /\ Early'
    BY <1>1, <1>2, <1>4, <2>2 DEF EarlyOK, Early
  <2> QED
    BY <2>3, EarlyLayout
<1> QED
  BY <1>3, <1>4 DEF LoadEntry

LEMMA LoadFormatLayout ==
  ASSUME LoaderInvariant, LoaderInvariant', Layout, LoadFormat
  PROVE  Layout'
<1>1. phase = "format" /\ phase' = "build" /\ tree' = tree
  BY DEF LoadFormat
<1>2. /\ loaded \subseteq {tree.entry, tree.format} \ {NoFile}
      /\ \A m \in modules : \E f \in loaded : tree.name[f] = m
  BY <1>1 DEF Layout, EarlyOK, Early
<1>3. CASE UNCHANGED loadVars
  <2>1. EarlyOK' /\ Early'
    BY <1>1, <1>2, <1>3 DEF EarlyOK, Early, loadVars
  <2> QED
    BY <2>1, EarlyLayout
<1>4. CASE tree.format # NoFile /\ LoadFile(tree.format)
  <2>1. tree.format \in Files
    BY <1>4, TreeType DEF LoaderInvariant
  <2>2. loaded' = loaded \cup {tree.format} /\ modules' = modules \cup {tree.name[tree.format]}
    BY <1>1, <1>4, <2>1, LoadFileKeeps DEF LoaderInvariant
  <2>3. EarlyOK' /\ Early'
    BY <1>1, <1>2, <1>4, <2>2 DEF EarlyOK, Early
  <2> QED
    BY <2>3, EarlyLayout
<1> QED
  BY <1>3, <1>4 DEF LoadFormat

(* What main.cpp loaded cannot be found by an import, so the roots of the  *)
(* search are settled.                                                     *)
LEMMA BuildGraphLayout ==
  ASSUME LoaderInvariant, LoaderInvariant', WellLaidOut, Layout, BuildGraph
  PROVE  Layout'
<1>1. /\ phase = "build" /\ phase' \in {"failed", "graph"} /\ tree' = tree
      /\ phase' = "graph" => groots' = modules
      /\ phase' = "failed" => groots' = groots
      /\ loaded' = loaded /\ modules' = modules /\ imports' = imports
      /\ gframes' = gframes /\ gvisited' = gvisited /\ scan' = scan
  BY DEF BuildGraph, loadVars
<1>2. groots = {} /\ gframes = <<>> /\ gvisited = {} /\ scan = NoModule
  BY <1>1 DEF LoaderInvariant, PhasesOK, Early
<1>3. ASSUME NEW m \in modules
      PROVE  Settled(m)
  <2>1. m \in Names /\ loaded \subseteq Files
    BY DEF LoaderInvariant, LoaderTypeOK, GraphOK
  <2>2. PICK f \in loaded : f \in {tree.entry, tree.format} \ {NoFile} /\ tree.name[f] = m
    BY <1>1 DEF Layout, EarlyOK, Early
  <2>3. ASSUME NEW x \in Names, NEW k \in DOMAIN tree.places[x][m]
        PROVE  FilesOf(tree.places[x][m][k]) = {}
    <3> SUFFICES ASSUME NEW g \in FilesOf(tree.places[x][m][k]) PROVE FALSE
      OBVIOUS
    <3>1. f \in FilesOf(tree.places[x][m][k])
      BY <2>1, <2>2, AllAtPlace
    <3> QED
      BY <2>1, <2>2, <3>1 DEF WellLaidOut
  <2> QED
    BY <2>3 DEF Settled
<1>4. SearchedSettled'
  BY <1>1, <1>2, <1>3, SettledGrows DEF SearchedSettled
<1> QED
  BY <1>1, <1>2, <1>4
  DEF Layout, EarlyOK, Early, ScanOK, FramesOK, NoneForgotten, ImportsGoneThrough

LEMMA SearchRootLayout ==
  ASSUME LoaderInvariant, LoaderInvariant', Layout, SearchRoot
  PROVE  Layout'
<1>1. PICK m \in groots : Search(m, gframes) /\ groots' = groots \ {m}
  BY DEF SearchRoot
<1>2. /\ phase = "graph" /\ phase' = "graph" /\ tree' = tree /\ loaded' = loaded
      /\ modules' = modules /\ imports' = imports /\ errors' = errors /\ scan' = scan
      /\ dependencies' = dependencies /\ gframes = <<>>
  BY DEF SearchRoot, loadVars
<1>3. LoaderTypeOK /\ m \in modules /\ scan = NoModule
  BY <1>1, <1>2 DEF LoaderInvariant, LoaderTypeOK
<1>4. CallsFit(gframes) /\ Len(gframes) = 0
  BY <1>2, <1>3, LoopsFit
<1>5. /\ gvisited' = gvisited \cup {m}
      /\ m \in gvisited => gframes' = gframes
      /\ m \notin gvisited =>
           /\ Len(gframes') = 1
           /\ gframes'[1] = [mod |-> m, next |-> 1, end |-> Len(imports[m])]
  <2>1. gvisited' = gvisited \cup {m}
    BY <1>1, <1>3, <1>4, SearchKeeps
  <2>2. m \in gvisited => gframes' = gframes
    BY <1>1, <1>3, <1>4, SearchKeeps
  <2>3. m \notin gvisited =>
          /\ Len(gframes') = Len(gframes) + 1
          /\ gframes'[Len(gframes) + 1] = [mod |-> m, next |-> 1, end |-> Len(imports[m])]
    BY <1>1, <1>3, <1>4, SearchKeeps
  <2> QED
    BY <1>4, <2>1, <2>2, <2>3
<1>6. DOMAIN gframes' = 1..Len(gframes')
  BY DEF LoaderInvariant, LoaderTypeOK
<1>7. SearchedSettled'
  BY <1>1, <1>2, <1>5, SettledGrows DEF Layout, SearchedSettled
<1>8. FramesOK'
  BY <1>2, <1>4, <1>5, <1>6 DEF Layout, FramesOK
<1>9. NoneForgotten'
  BY <1>1, <1>2, <1>3, <1>5 DEF Layout, NoneForgotten, Found
<1>10. ImportsGoneThrough'
  <2> SUFFICES ASSUME errors = {}, NEW n \in gvisited', NEW k \in 1..Len(imports[n])
               PROVE  \/ Contains(dependencies[n], imports[n][k])
                      \/ \E i \in DOMAIN gframes' : gframes'[i].mod = n /\ gframes'[i].next <= k
    BY <1>2 DEF ImportsGoneThrough
  <2>1. CASE n \in gvisited
    BY <1>2, <2>1 DEF Layout, ImportsGoneThrough
  <2>2. CASE n = m /\ m \notin gvisited
    BY <1>5, <1>6, <2>2
  <2> QED
    BY <1>5, <2>1, <2>2
<1> QED
  BY <1>2, <1>3, <1>7, <1>8, <1>9, <1>10 DEF Layout, EarlyOK, Early, ScanOK

(* Steps that only change the import being resolved. *)
LEMMA OnlyScanLayout ==
  ASSUME LoaderInvariant, LoaderInvariant', Layout, phase = "graph", phase' = phase,
         UNCHANGED <<tree, loadVars>>, errors' = errors, groots' = groots,
         gframes' = gframes, gvisited' = gvisited, dependencies' = dependencies,
         ~ Found, ScanOK'
  PROVE  Layout'
<1>1. loaded' = loaded /\ modules' = modules /\ imports' = imports /\ tree' = tree
  BY DEF loadVars
<1>2. SearchedSettled'
  BY <1>1, SettledGrows DEF Layout, SearchedSettled
<1>3. FramesOK'
  BY <1>1 DEF Layout, FramesOK
<1>4. NoneForgotten'
  BY <1>1 DEF Layout, NoneForgotten
<1>5. ImportsGoneThrough'
  BY <1>1 DEF Layout, ImportsGoneThrough
<1>6. EarlyOK'
  BY DEF EarlyOK, Early
<1> QED
  BY <1>2, <1>3, <1>4, <1>5, <1>6 DEF Layout

LEMMA BeginImportLayout ==
  ASSUME LoaderInvariant, LoaderInvariant', Layout, BeginImport
  PROVE  Layout'
<1> DEFINE imp == imports[GTop.mod][GTop.next]
<1>1. /\ phase = "graph" /\ phase' = phase /\ UNCHANGED <<tree, loadVars>>
      /\ errors' = errors /\ groots' = groots /\ gvisited' = gvisited /\ gframes' = gframes
      /\ dependencies' = dependencies /\ gframes # <<>> /\ GTop.next <= GTop.end
      /\ scan = NoModule
      /\ scan' = [imp |-> imp, places |-> tree.places[GTop.mod][imp],
                  pending |-> <<>>, dep |-> NoModule]
  BY DEF BeginImport
<1>2. imports' = imports /\ tree' = tree /\ loaded' = loaded
  BY <1>1 DEF loadVars
<1>3. GTop' = GTop
  BY <1>1 DEF GTop
<1>4. GTop.mod \in Names
  BY <1>1, GTopType DEF LoaderInvariant
<1>5. PendingFiles' = {}
  BY <1>1 DEF PendingFiles
<1>6. ScanOK'
  <2>1. /\ GTop'.next <= GTop'.end
        /\ scan'.imp = imports'[GTop'.mod][GTop'.next]
        /\ scan'.dep \in {NoModule, scan'.imp}
    BY <1>1, <1>2, <1>3
  <2>2. \A k \in DOMAIN scan'.places :
          \E x \in Names : \E j \in DOMAIN tree'.places[x][scan'.imp] :
            scan'.places[k] = tree'.places[x][scan'.imp][j]
    BY <1>1, <1>2, <1>4
  <2>3. ~ Found'
    BY <1>1 DEF Found
  <2> QED
    BY <1>5, <2>1, <2>2, <2>3 DEF ScanOK
<1> QED
  BY <1>1, <1>6, OnlyScanLayout DEF Found

LEMMA OpenPlaceLayout ==
  ASSUME LoaderInvariant, LoaderInvariant', WellLaidOut, Layout, OpenPlace
  PROVE  Layout'
<1> DEFINE place == Head(scan.places)
<1>1. /\ phase = "graph" /\ phase' = phase /\ UNCHANGED <<tree, loadVars>>
      /\ errors' = errors /\ groots' = groots /\ gvisited' = gvisited /\ gframes' = gframes
      /\ dependencies' = dependencies /\ scan # NoModule /\ scan.places # <<>>
      /\ scan.pending = <<>> /\ scan.dep = NoModule
      /\ scan' = [scan EXCEPT !.pending = FilesAt(place), !.places = Tail(@)]
  BY DEF OpenPlace, Scanning
<1>2. scan \in Scan /\ ScanOK
  BY <1>1 DEF LoaderInvariant, LoaderTypeOK, Layout
<1>3. /\ scan'.imp = scan.imp /\ scan'.places = Tail(scan.places)
      /\ scan'.pending = FilesAt(place) /\ scan'.dep = NoModule
  BY <1>1, <1>2 DEF Scan
<1>4. /\ scan.places \in Seq(Place) /\ scan.imp \in Names
      /\ 1 \in DOMAIN scan.places /\ place = scan.places[1]
      /\ \A k \in DOMAIN Tail(scan.places) :
           k + 1 \in DOMAIN scan.places /\ Tail(scan.places)[k] = scan.places[k + 1]
  BY <1>1, <1>2 DEF Scan
<1>5. imports' = imports /\ tree' = tree /\ loaded' = loaded /\ GTop' = GTop
  BY <1>1 DEF loadVars, GTop
<1> HIDE DEF place
<1>6. PendingFiles' = FilesOf(place)
  <2>1. scan'.pending = FilesAt(place)
    BY <1>3
  <2> QED
    BY <2>1, Zenon DEF PendingFiles, FilesOf
<1>7. PICK x \in Names : \E j \in DOMAIN tree.places[x][scan.imp] :
        place = tree.places[x][scan.imp][j]
  BY <1>1, <1>2, <1>4 DEF ScanOK
<1>9. PICK j \in DOMAIN tree.places[x][scan.imp] : place = tree.places[x][scan.imp][j]
  BY <1>7
<1>8. ScanOK'
  <2>1. /\ GTop'.next <= GTop'.end
        /\ scan'.imp = imports'[GTop'.mod][GTop'.next]
        /\ scan'.dep \in {NoModule, scan'.imp}
    BY <1>1, <1>2, <1>3, <1>5 DEF ScanOK
  <2>2. \A k \in DOMAIN scan'.places :
          \E y \in Names : \E i \in DOMAIN tree'.places[y][scan'.imp] :
            scan'.places[k] = tree'.places[y][scan'.imp][i]
    BY <1>1, <1>2, <1>3, <1>4, <1>5 DEF ScanOK
  <2>3. \A f \in PendingFiles' :
          \E y \in Names : \E i \in DOMAIN tree'.places[y][scan'.imp] :
            f \in FilesOf(tree'.places[y][scan'.imp][i])
    BY <1>3, <1>5, <1>6, <1>9
  <2>4. Found' => \A f \in Files : tree'.name[f] = scan'.imp => f \in loaded' \cup PendingFiles'
    <3> SUFFICES ASSUME Found', NEW f \in Files, tree.name[f] = scan.imp
                 PROVE  f \in PendingFiles'
      BY <1>3, <1>5
    <3>1. FilesAt(place) # <<>> /\ FilesAt(place) \in Seq(Pending)
      <4>1. place \in Place
        BY <1>4
      <4> QED
        BY <1>3, <4>1, FilesAtType DEF Found
    <3>2. FilesAt(place)[1].file \in FilesOf(place)
      <4>1. 1 \in DOMAIN FilesAt(place)
        BY <3>1
      <4> QED
        BY <4>1 DEF FilesOf
    <3>3. PICK m \in Names : m = scan.imp
      BY <1>4
    <3>4. \E y \in Names : \E i \in DOMAIN tree.places[y][m] : place = tree.places[y][m][i]
      BY <1>9, <3>3
    <3>5. f \in FilesOf(place)
      BY <3>2, <3>3, <3>4, PlaceHasAll
    <3> QED
      BY <1>6, <3>5
  <2> QED
    BY <2>1, <2>2, <2>3, <2>4 DEF ScanOK
<1> QED
  BY <1>1, <1>8, OnlyScanLayout DEF Found

(* A settled module has nothing left to load, so its imports stay as they  *)
(* are while another file is merged.                                       *)
LEMMA SearchedImportsStay ==
  ASSUME LoaderInvariant, NEW f \in Files, LoadFile(f), tree' = tree, SearchedSettled,
         NEW x \in Names, NEW j \in DOMAIN tree.places[x][tree.name[f]],
         f \in FilesOf(tree.places[x][tree.name[f]][j])
  PROVE  \A m \in groots \cup gvisited : imports'[m] = imports[m]
<1> SUFFICES ASSUME NEW m \in groots \cup gvisited PROVE imports'[m] = imports[m]
  OBVIOUS
<1>1. m \in Names /\ LoaderTypeOK /\ LoadedOK
  BY DEF LoaderInvariant, LoaderTypeOK, GraphOK
<1>2. m = tree.name[f] => f \in loaded
  BY DEF SearchedSettled, Settled
<1>3. \A n \in Names : n # tree.name[f] \/ f \in loaded => imports'[n] = imports[n]
  BY <1>1, LoadFileKeeps
<1> QED
  BY <1>1, <1>2, <1>3

LEMMA ScanFileLayout ==
  ASSUME LoaderInvariant, LoaderInvariant', WellLaidOut, Layout, ScanFile
  PROVE  Layout'
<1> DEFINE p == Head(scan.pending)
           f == p.file
           imp == scan.imp
<1>1. /\ phase = "graph" /\ phase' \in {"graph", "crashed"} /\ tree' = tree
      /\ scan # NoModule /\ scan.pending # <<>> /\ LoadFile(f)
      /\ groots' = groots /\ gframes' = gframes /\ gvisited' = gvisited
      /\ dependencies' = dependencies
      /\ scan' = [scan EXCEPT !.pending = Tail(@),
                    !.dep = IF p.primary \/ tree.name[f] = imp THEN tree.name[f] ELSE @]
  BY DEF ScanFile, Scanning
<1>2. /\ LoaderTypeOK /\ LoadedOK /\ scan \in Scan /\ gframes # <<>>
      /\ SearchedSettled /\ ScanOK /\ FramesOK /\ NoneForgotten /\ ImportsGoneThrough
  BY <1>1 DEF LoaderInvariant, LoaderTypeOK, Layout
<1>3. scan.pending \in Seq(Pending) /\ imp \in Names
  BY <1>2 DEF Scan
<1>4. /\ p \in Pending /\ 1 \in DOMAIN scan.pending /\ p = scan.pending[1]
      /\ \A i \in DOMAIN Tail(scan.pending) :
           i + 1 \in DOMAIN scan.pending /\ Tail(scan.pending)[i] = scan.pending[i + 1]
      /\ \A i \in DOMAIN scan.pending :
           i = 1 \/ (i - 1 \in DOMAIN Tail(scan.pending)
                      /\ Tail(scan.pending)[i - 1] = scan.pending[i])
  BY <1>1, <1>3
<1>5. f \in Files /\ f \in PendingFiles
  BY <1>4 DEF Pending, PendingFiles
<1>22. PICK x \in Names : \E j \in DOMAIN tree.places[x][imp] :
          f \in FilesOf(tree.places[x][imp][j])
  BY <1>1, <1>2, <1>5 DEF ScanOK
<1>6. PICK j \in DOMAIN tree.places[x][imp] : f \in FilesOf(tree.places[x][imp][j])
  BY <1>22
<1>7. tree.name[f] = imp
  BY <1>3, <1>6, AllAtPlace
<1>8. /\ scan'.imp = imp /\ scan'.places = scan.places /\ scan'.pending = Tail(scan.pending)
      /\ scan'.dep = imp /\ scan' # NoModule
  <2>1. /\ scan'.imp = imp /\ scan'.places = scan.places /\ scan'.pending = Tail(scan.pending)
        /\ scan'.dep = imp
    BY <1>1, <1>2, <1>7 DEF Scan
  <2>2. scan' \in Resolution
    <3>1. Scan \subseteq Resolution
      BY <1>2 DEF Scan, Resolution, LoaderTypeOK, GraphOK
    <3>2. Tail(scan.pending) \in Seq(Pending)
      BY <1>1, <1>3
    <3> QED
      BY <1>1, <1>2, <1>3, <1>7, <3>1, <3>2 DEF Resolution
  <2>3. scan' # NoModule
    BY <2>2, NoModuleAssumption
  <2> QED
    BY <2>1, <2>3
<1> HIDE DEF p, f, imp
<1>9. loaded' = loaded \cup {f} /\ modules' = modules \cup {imp}
  BY <1>1, <1>2, <1>5, <1>7, LoadFileKeeps
<1>10. errors' = {} => errors = {}
  BY <1>1, <1>2, <1>5, LoadFileKeeps
<1>11. \A m \in groots \cup gvisited : imports'[m] = imports[m]
  BY <1>1, <1>2, <1>5, <1>6, <1>7, SearchedImportsStay
<1>12. \A i \in DOMAIN gframes :
         gframes[i].mod \in gvisited /\ gframes[i].end = Len(imports[gframes[i].mod])
  BY <1>2 DEF FramesOK
<1>13. GTop.mod \in gvisited /\ GTop' = GTop
  BY <1>1, <1>2, <1>12, GTopType DEF GTop
<1>14. SearchedSettled'
  BY <1>1, <1>2, <1>9, SettledGrows DEF SearchedSettled
<1>15. \A g \in PendingFiles : g = f \/ g \in PendingFiles'
  BY <1>4, <1>8 DEF PendingFiles, f
<1>16. PendingFiles' \subseteq PendingFiles
  BY <1>4, <1>8 DEF PendingFiles
<1>17. ScanOK'
  <2>1. /\ GTop'.next <= GTop'.end
        /\ scan'.imp = imports'[GTop'.mod][GTop'.next]
        /\ scan'.dep \in {NoModule, scan'.imp}
    BY <1>1, <1>2, <1>8, <1>11, <1>13 DEF ScanOK, imp
  <2>2. \A k \in DOMAIN scan'.places :
          \E y \in Names : \E i \in DOMAIN tree'.places[y][scan'.imp] :
            scan'.places[k] = tree'.places[y][scan'.imp][i]
    BY <1>1, <1>2, <1>8 DEF ScanOK, imp
  <2>3. \A g \in PendingFiles' :
          \E y \in Names : \E i \in DOMAIN tree'.places[y][scan'.imp] :
            g \in FilesOf(tree'.places[y][scan'.imp][i])
    BY <1>1, <1>2, <1>8, <1>16 DEF ScanOK, imp
  <2>4. \A g \in Files : tree'.name[g] = scan'.imp => g \in loaded' \cup PendingFiles'
    BY <1>1, <1>2, <1>8, <1>9, <1>15 DEF ScanOK, Found, imp
  <2> QED
    BY <2>1, <2>2, <2>3, <2>4 DEF ScanOK
<1>18. FramesOK'
  BY <1>1, <1>11, <1>12 DEF FramesOK
<1>19. NoneForgotten'
  <2>1. \A m \in modules : m \in groots \cup gvisited \/ m = imp
    BY <1>1, <1>2 DEF NoneForgotten, imp
  <2>2. Found'
    BY <1>3, <1>8, NoModuleAssumption DEF Found
  <2> QED
    BY <1>1, <1>8, <1>9, <2>1, <2>2 DEF NoneForgotten
<1>20. ImportsGoneThrough'
  BY <1>1, <1>2, <1>10, <1>11 DEF ImportsGoneThrough
<1>21. EarlyOK'
  BY <1>1 DEF EarlyOK, Early
<1> QED
  BY <1>14, <1>17, <1>18, <1>19, <1>20, <1>21 DEF Layout

(* What NextImport does to the active calls, for the invariants of frames. *)
LEMMA NextImportFrames ==
  ASSUME LoaderTypeOK, gframes # <<>>, FramesOK
  PROVE  /\ DOMAIN NextImport = 1..Len(gframes) /\ DOMAIN gframes = 1..Len(gframes)
         /\ \A i \in 1..Len(gframes) :
              /\ NextImport[i].mod = gframes[i].mod
              /\ NextImport[i].mod \in gvisited
              /\ NextImport[i].end = Len(imports[NextImport[i].mod])
              /\ NextImport[i].next = IF i = Len(gframes) THEN gframes[i].next + 1
                                                          ELSE gframes[i].next
<1>1. NextImport \in Seq(GFrame) /\ Len(NextImport) = Len(gframes)
  BY AdvancedCall
<1>2. DOMAIN NextImport = 1..Len(gframes) /\ DOMAIN gframes = 1..Len(gframes)
      /\ Len(gframes) \in Nat
  BY <1>1 DEF LoaderTypeOK
<1>3. \A i \in 1..Len(gframes) :
        /\ NextImport[i].mod = gframes[i].mod
        /\ NextImport[i].end = gframes[i].end
        /\ i < Len(gframes) => NextImport[i].next = gframes[i].next
  BY AdvancedCall
<1>4. NextImport[Len(gframes)].next = gframes[Len(gframes)].next + 1
  BY AdvancedCall
<1>5. ASSUME NEW i \in 1..Len(gframes)
      PROVE  NextImport[i].next = IF i = Len(gframes) THEN gframes[i].next + 1
                                                      ELSE gframes[i].next
  <2>1. CASE i = Len(gframes)
    BY <1>4, <2>1
  <2>2. CASE i # Len(gframes)
    <3>1. i \in Nat /\ i <= Len(gframes) /\ Len(gframes) \in Nat
      BY <1>2
    <3>2. i < Len(gframes)
      BY <2>2, <3>1
    <3> QED
      BY <1>3, <2>2, <3>2
  <2> QED
    BY <2>1, <2>2
<1>6. \A i \in 1..Len(gframes) :
        /\ gframes[i].mod \in gvisited
        /\ gframes[i].end = Len(imports[gframes[i].mod])
  BY <1>2 DEF FramesOK
<1> QED
  BY <1>2, <1>3, <1>5, <1>6

LEMMA ImportUnknownLayout ==
  ASSUME LoaderInvariant, LoaderInvariant', Layout, ImportUnknown
  PROVE  Layout'
<1>1. /\ phase = "graph" /\ phase' = phase /\ UNCHANGED <<tree, loadVars>>
      /\ errors' = errors \cup {<<"unknown", scan.imp>>} /\ groots' = groots
      /\ gvisited' = gvisited /\ dependencies' = dependencies
      /\ scan # NoModule /\ scan.pending = <<>> /\ scan.dep = NoModule /\ scan' = NoModule
      /\ gframes' = NextImport
  BY DEF ImportUnknown, Scanning
<1>2. loaded' = loaded /\ modules' = modules /\ imports' = imports /\ tree' = tree
  BY <1>1 DEF loadVars
<1>3. LoaderTypeOK /\ gframes # <<>> /\ FramesOK /\ SearchedSettled /\ NoneForgotten
  BY <1>1 DEF LoaderInvariant, LoaderTypeOK, Layout
<1>4. FramesOK'
  BY <1>1, <1>2, <1>3, NextImportFrames DEF FramesOK
<1>5. SearchedSettled'
  BY <1>1, <1>2, <1>3, SettledGrows DEF SearchedSettled
<1>6. NoneForgotten'
  BY <1>1, <1>2, <1>3 DEF NoneForgotten, Found
<1>7. ImportsGoneThrough' /\ ScanOK' /\ EarlyOK'
  BY <1>1 DEF ImportsGoneThrough, ScanOK, EarlyOK, Early
<1> QED
  BY <1>4, <1>5, <1>6, <1>7 DEF Layout

LEMMA SearchReturnLayout ==
  ASSUME LoaderInvariant, LoaderInvariant', Layout, SearchReturn
  PROVE  Layout'
<1>1. /\ phase = "graph" /\ phase' = phase /\ UNCHANGED <<tree, loadVars>>
      /\ errors' = errors /\ groots' = groots /\ gvisited' = gvisited
      /\ dependencies' = dependencies /\ scan = NoModule /\ scan' = scan /\ gframes # <<>>
      /\ gframes' = SubSeq(gframes, 1, Len(gframes) - 1) /\ GTop.next > GTop.end
  BY DEF SearchReturn
<1>2. loaded' = loaded /\ modules' = modules /\ imports' = imports /\ tree' = tree
  BY <1>1 DEF loadVars
<1>3. /\ LoaderTypeOK /\ FramesOK /\ SearchedSettled /\ NoneForgotten /\ ImportsGoneThrough
      /\ gframes \in Seq(GFrame)
  BY DEF LoaderInvariant, LoaderTypeOK, Layout
<1>4. /\ gframes' \in Seq(GFrame) /\ Len(gframes') = Len(gframes) - 1
      /\ \A i \in 1..Len(gframes') : gframes'[i] = gframes[i]
  BY <1>1, <1>3, DropLast
<1>5. /\ Len(gframes) \in Nat \ {0} /\ DOMAIN gframes = 1..Len(gframes)
      /\ DOMAIN gframes' = 1..Len(gframes')
  BY <1>1, <1>3, <1>4
<1>6. FramesOK'
  BY <1>1, <1>2, <1>3, <1>4, <1>5 DEF FramesOK
<1>7. SearchedSettled'
  BY <1>1, <1>2, <1>3, SettledGrows DEF SearchedSettled
<1>8. NoneForgotten'
  BY <1>1, <1>2, <1>3 DEF NoneForgotten, Found
<1>9. ImportsGoneThrough'
  <2> SUFFICES ASSUME errors = {}, NEW m \in gvisited, NEW k \in 1..Len(imports[m]),
                      ~ Contains(dependencies[m], imports[m][k])
               PROVE  \E i \in DOMAIN gframes' : gframes'[i].mod = m /\ gframes'[i].next <= k
    BY <1>1, <1>2 DEF ImportsGoneThrough
  <2>1. PICK i \in DOMAIN gframes : gframes[i].mod = m /\ gframes[i].next <= k
    BY <1>3 DEF ImportsGoneThrough
  <2>2. CASE i = Len(gframes)
    <3>1. GTop = gframes[i] /\ GTop.next \in Nat /\ GTop.end \in Nat
      BY <1>1, <1>3, <2>2, GTopType DEF GTop
    <3>2. GTop.end = Len(imports[m])
      BY <1>3, <2>1, <3>1 DEF FramesOK
    <3> QED
      BY <1>1, <2>1, <3>1, <3>2
  <2>3. CASE i # Len(gframes)
    <3>1. i \in 1..Len(gframes')
      BY <1>4, <1>5, <2>3
    <3> QED
      BY <1>4, <1>5, <2>1, <3>1
  <2> QED
    BY <2>2, <2>3
<1>10. ScanOK' /\ EarlyOK'
  BY <1>1 DEF ScanOK, EarlyOK, Early
<1> QED
  BY <1>6, <1>7, <1>8, <1>9, <1>10 DEF Layout

LEMMA ContainsAppend ==
  ASSUME NEW s \in Seq(Names), NEW d \in Names
  PROVE  /\ Contains(Append(s, d), d)
         /\ \A e : Contains(s, e) => Contains(Append(s, d), e)
<1>1. Len(s) \in Nat /\ Len(Append(s, d)) = Len(s) + 1 /\ Append(s, d)[Len(s) + 1] = d
      /\ \A i \in 1..Len(s) : i \in 1..(Len(s) + 1) /\ Append(s, d)[i] = s[i]
  OBVIOUS
<1>2. Len(s) + 1 \in 1..(Len(s) + 1)
  BY <1>1
<1> QED
  BY <1>1, <1>2 DEF Contains

LEMMA ImportFoundLayout ==
  ASSUME LoaderInvariant, LoaderInvariant', WellLaidOut, Layout, ImportFound
  PROVE  Layout'
<1> DEFINE imp == scan.imp
           top == Len(gframes)
<1>1. /\ phase = "graph" /\ phase' = phase /\ UNCHANGED <<tree, loadVars>>
      /\ errors' = errors /\ groots' = groots
      /\ scan # NoModule /\ scan.pending = <<>> /\ scan.dep # NoModule /\ scan' = NoModule
      /\ dependencies' = [dependencies EXCEPT ![GTop.mod] = Append(@, scan.dep)]
      /\ Search(scan.dep, NextImport)
  BY DEF ImportFound, Scanning
<1>2. loaded' = loaded /\ modules' = modules /\ imports' = imports /\ tree' = tree
  BY <1>1 DEF loadVars
<1>3. /\ LoaderTypeOK /\ scan \in Scan /\ gframes # <<>> /\ ScanOK /\ FramesOK
      /\ SearchedSettled /\ NoneForgotten /\ ImportsGoneThrough
  BY <1>1 DEF LoaderInvariant, LoaderTypeOK, Layout
<1>4. /\ scan.dep = imp /\ imp \in modules /\ imp \in Names
      /\ imp = imports[GTop.mod][GTop.next] /\ GTop.next <= GTop.end
  BY <1>1, <1>3 DEF ScanOK, Scan, LoaderTypeOK, GraphOK
<1>5. Settled(imp)
  <2>1. PendingFiles = {}
    BY <1>1 DEF PendingFiles
  <2>2. \A f \in Files : tree.name[f] = imp => f \in loaded
    BY <1>1, <1>3, <2>1 DEF ScanOK, Found
  <2> QED
    BY <1>4, <2>2, AllLoadedSettled
<1> HIDE DEF imp, top
<1>6. CallsFit(NextImport)
  BY <1>3, LoopsFit
<1>7. /\ DOMAIN NextImport = 1..top /\ DOMAIN gframes = 1..top /\ top \in Nat \ {0}
      /\ Len(NextImport) = top
      /\ \A i \in 1..top :
           /\ NextImport[i].mod = gframes[i].mod
           /\ NextImport[i].mod \in gvisited
           /\ NextImport[i].end = Len(imports[NextImport[i].mod])
           /\ NextImport[i].next = IF i = top THEN gframes[i].next + 1 ELSE gframes[i].next
  <2>1. top \in Nat \ {0} /\ Len(NextImport) = top
    BY <1>3, AdvancedCall DEF LoaderTypeOK, top
  <2> QED
    BY <1>3, <2>1, NextImportFrames DEF top
<1>8. /\ gvisited' = gvisited \cup {imp}
      /\ \A i \in 1..top : gframes'[i] = NextImport[i]
      /\ imp \in gvisited => gframes' = NextImport
      /\ imp \notin gvisited =>
           /\ Len(gframes') = top + 1
           /\ gframes'[top + 1] = [mod |-> imp, next |-> 1, end |-> Len(imports[imp])]
  <2>1. Search(imp, NextImport)
    BY <1>1, <1>4
  <2>2. gvisited' = gvisited \cup {imp}
    BY <1>3, <1>4, <1>6, <2>1, SearchKeeps
  <2>3. \A i \in 1..Len(NextImport) : gframes'[i] = NextImport[i]
    BY <1>3, <1>4, <1>6, <2>1, SearchKeeps
  <2>4. imp \in gvisited => gframes' = NextImport
    BY <1>3, <1>4, <1>6, <2>1, SearchKeeps
  <2>5. imp \notin gvisited =>
          /\ Len(gframes') = Len(NextImport) + 1
          /\ gframes'[Len(NextImport) + 1] =
               [mod |-> imp, next |-> 1, end |-> Len(imports[imp])]
    BY <1>3, <1>4, <1>6, <2>1, SearchKeeps
  <2> QED
    BY <1>7, <2>2, <2>3, <2>4, <2>5
<1>9. /\ DOMAIN gframes' = 1..Len(gframes')
      /\ 1..top \subseteq DOMAIN gframes'
      /\ \A i \in DOMAIN gframes' : i \in 1..top \/ (imp \notin gvisited /\ i = top + 1)
      /\ imp \notin gvisited => top + 1 \in DOMAIN gframes'
  <2>1. DOMAIN gframes' = 1..Len(gframes')
    BY DEF LoaderInvariant, LoaderTypeOK
  <2>2. CASE imp \in gvisited
    BY <1>7, <1>8, <2>1, <2>2
  <2>3. CASE imp \notin gvisited
    BY <1>7, <1>8, <2>1, <2>3
  <2> QED
    BY <2>1, <2>2, <2>3
<1>10. FramesOK'
  <2> SUFFICES ASSUME NEW i \in DOMAIN gframes'
               PROVE  /\ gframes'[i].mod \in gvisited'
                      /\ gframes'[i].end = Len(imports[gframes'[i].mod])
    BY <1>2 DEF FramesOK
  <2>1. CASE i \in 1..top
    BY <1>7, <1>8, <2>1
  <2>2. CASE imp \notin gvisited /\ i = top + 1
    BY <1>8, <2>2
  <2> QED
    BY <1>9, <2>1, <2>2
<1>11. SearchedSettled'
  BY <1>1, <1>2, <1>3, <1>5, <1>8, SettledGrows DEF SearchedSettled
<1>12. NoneForgotten'
  BY <1>1, <1>2, <1>3, <1>8 DEF NoneForgotten, imp
<1>13. ImportsGoneThrough'
  <2> SUFFICES ASSUME errors = {}, NEW m \in gvisited', NEW k \in 1..Len(imports[m]),
                      ~ Contains(dependencies'[m], imports[m][k])
               PROVE  \E i \in DOMAIN gframes' : gframes'[i].mod = m /\ gframes'[i].next <= k
    BY <1>1, <1>2 DEF ImportsGoneThrough
  <2>1. CASE m \notin gvisited
    <3>1. m = imp /\ imp \notin gvisited
      BY <1>8, <2>1
    <3>2. gframes'[top + 1].mod = m /\ gframes'[top + 1].next = 1 /\ top + 1 \in DOMAIN gframes'
      BY <1>8, <1>9, <3>1
    <3> QED
      BY <3>2
  <2>2. CASE m \in gvisited
    <3>1. /\ m \in Names /\ dependencies \in [Names -> Seq(Names)] /\ GTop.mod \in Names
          /\ GTop.next \in Nat
      BY <1>3, <2>2, GTopType DEF LoaderTypeOK, GraphOK
    <3>2. \A e : Contains(dependencies[m], e) => Contains(dependencies'[m], e)
      <4>1. CASE m = GTop.mod
        <5>1. dependencies'[m] = Append(dependencies[m], imp)
          BY <1>1, <1>4, <3>1, <4>1
        <5> QED
          BY <1>4, <3>1, <5>1, ContainsAppend
      <4>2. CASE m # GTop.mod
        BY <1>1, <3>1, <4>2
      <4> QED
        BY <4>1, <4>2
    <3>3. PICK i \in DOMAIN gframes : gframes[i].mod = m /\ gframes[i].next <= k
      BY <1>3, <2>2, <3>2 DEF ImportsGoneThrough
    <3>4. i \in 1..top /\ i \in DOMAIN gframes' /\ gframes'[i].mod = m
      BY <1>7, <1>8, <1>9, <3>3
    <3>5. CASE i = top
      <4>1. GTop = gframes[i] /\ gframes'[i].next = GTop.next + 1
        BY <1>7, <1>8, <3>4, <3>5 DEF GTop, top
      <4>2. GTop.next # k
        <5> SUFFICES ASSUME GTop.next = k PROVE FALSE
          OBVIOUS
        <5>1. imports[m][k] = imp /\ m = GTop.mod
          BY <1>4, <3>3, <4>1
        <5>2. dependencies'[m] = Append(dependencies[m], imp)
          BY <1>1, <1>4, <3>1, <5>1
        <5>3. Contains(Append(dependencies[m], imp), imp)
          BY <1>4, <3>1, ContainsAppend
        <5> QED
          BY <5>1, <5>2, <5>3
      <4>3. GTop.next + 1 <= k
        BY <3>1, <3>3, <4>1, <4>2
      <4> QED
        BY <3>4, <4>1, <4>3
    <3>6. CASE i # top
      BY <1>7, <1>8, <3>3, <3>4, <3>6
    <3> QED
      BY <3>5, <3>6
  <2> QED
    BY <2>1, <2>2
<1>14. ScanOK' /\ EarlyOK'
  BY <1>1 DEF ScanOK, EarlyOK, Early
<1> QED
  BY <1>10, <1>11, <1>12, <1>13, <1>14 DEF Layout

(* Steps after the search, and those that change nothing. *)
LEMMA AfterSearchLayout ==
  ASSUME LoaderInvariant, Layout, tree' = tree, loaded' = loaded, modules' = modules,
         imports' = imports, errors' = errors, dependencies' = dependencies,
         UNCHANGED graphSearchVars,
         \/ phase' = phase
         \/ phase = "graph" /\ phase' = "topo" /\ gframes = <<>> /\ groots = {}
         \/ phase = "topo" /\ phase' \in {"analyze", "failed"}
  PROVE  Layout'
<1>1. groots' = groots /\ gframes' = gframes /\ gvisited' = gvisited /\ scan' = scan
  BY DEF graphSearchVars
<1>2. SearchedSettled'
  BY <1>1, SettledGrows DEF Layout, SearchedSettled
<1>3. FramesOK'
  BY <1>1 DEF Layout, FramesOK
<1>4. ImportsGoneThrough'
  BY <1>1 DEF Layout, ImportsGoneThrough
<1>5. EarlyOK'
  BY <1>1 DEF Layout, EarlyOK, Early
<1>6. GTop' = GTop /\ PendingFiles' = PendingFiles /\ Found' = Found
  BY <1>1 DEF GTop, PendingFiles, Found
<1>7. ScanOK'
  BY <1>1, <1>6 DEF Layout, ScanOK
<1>8. NoneForgotten'
  <2>1. CASE phase' = phase
    BY <1>1, <1>6, <2>1 DEF Layout, NoneForgotten
  <2>2. CASE phase = "graph" /\ phase' = "topo" /\ gframes = <<>> /\ groots = {}
    <3>1. scan = NoModule
      BY <2>2 DEF LoaderInvariant, LoaderTypeOK
    <3> QED
      BY <1>1, <2>2, <3>1 DEF Layout, NoneForgotten, Found
  <2>3. CASE phase = "topo" /\ phase' \in {"analyze", "failed"}
    BY <1>1, <2>3 DEF Layout, NoneForgotten
  <2> QED
    BY <2>1, <2>2, <2>3
<1> QED
  BY <1>2, <1>3, <1>4, <1>5, <1>7, <1>8 DEF Layout

LEMMA LayoutStep ==
  LoaderInvariant /\ LoaderInvariant' /\ LayoutInvariant /\ [Next]_vars => LayoutInvariant'
<1> SUFFICES ASSUME LoaderInvariant, LoaderInvariant', LayoutInvariant, [Next]_vars,
                    WellLaidOut'
             PROVE  Layout'
  BY DEF LayoutInvariant
<1>1. tree' = tree
  BY DEF Next, vars, LoadEntry, LoadFormat, BuildGraph, SearchRoot, BeginImport, OpenPlace,
     ScanFile, ImportFound, ImportUnknown, SearchReturn, StartTopoSort, SortStep, Finish
<1>2. WellLaidOut /\ Layout
  BY <1>1, SameTree DEF LayoutInvariant
<1>3. CASE StartTopoSort
  BY <1>2, <1>3, AfterSearchLayout DEF StartTopoSort, loadVars
<1>4. CASE SortStep
  <2>1. modules' = modules /\ dependencies' = dependencies
    BY <1>4 DEF SortStep, TopoNext, VisitRoot, VisitDependency, LeaveModule, graphVars
  <2> QED
    BY <1>2, <1>4, <2>1, AfterSearchLayout DEF SortStep
<1>5. CASE Finish
  BY <1>2, <1>5, AfterSearchLayout DEF Finish, loadVars
<1>6. CASE UNCHANGED vars
  BY <1>2, <1>6, AfterSearchLayout DEF vars, loadVars
<1> QED
  BY <1>2, <1>3, <1>4, <1>5, <1>6, LoadEntryLayout, LoadFormatLayout, BuildGraphLayout,
     SearchRootLayout, BeginImportLayout, OpenPlaceLayout, ScanFileLayout, ImportFoundLayout,
     ImportUnknownLayout, SearchReturnLayout DEF Next

(***************************************************************************)
(* In a tree that is laid out as documented: what the search has visited   *)
(* has nothing left to load, what it resolves is the module imported, and  *)
(* it has gone through all the imports its active calls do not wait for.   *)
(***************************************************************************)
THEOREM LayoutCorrect == Spec => []LayoutInvariant
<1>1. Init => LayoutInvariant
  BY DEF Init, LayoutInvariant, Layout, EarlyOK, Early, SearchedSettled, ScanOK, FramesOK,
     NoneForgotten, ImportsGoneThrough
<1> QED
  BY <1>1, LayoutStep, LoaderCorrect, PTL DEF Spec

(* When the analysis starts, every load statement of every loaded module   *)
(* of such a tree has become a dependency.                                 *)
THEOREM EveryImportResolved == Spec => []ImportsResolvedWhenWellLaidOut
<1>1. LoaderInvariant /\ LayoutInvariant => ImportsResolvedWhenWellLaidOut
  <2> SUFFICES ASSUME LoaderInvariant, LayoutInvariant, phase = "analyze", WellLaidOut,
                      NEW m \in modules, NEW i \in DOMAIN imports[m]
               PROVE  Contains(dependencies[m], imports[m][i])
    BY DEF ImportsResolvedWhenWellLaidOut
  <2>1. errors = {} /\ m \in gvisited /\ gframes = <<>>
    BY DEF LoaderInvariant, PhasesOK, LayoutInvariant, Layout, NoneForgotten
  <2>2. i \in 1..Len(imports[m])
    BY DEF LoaderInvariant, LoaderTypeOK, GraphOK
  <2> QED
    BY <2>1, <2>2 DEF LayoutInvariant, Layout, ImportsGoneThrough
<1> QED
  BY <1>1, LoaderCorrect, LayoutCorrect, PTL

(* No load grows the import list a loop of an active dfs call ranges over. *)
THEOREM LoopsAreUndisturbed == Spec => []LoopsUndisturbedWhenWellLaidOut
<1>1. LayoutInvariant => LoopsUndisturbedWhenWellLaidOut
  BY DEF LayoutInvariant, Layout, FramesOK, LoopsUndisturbedWhenWellLaidOut
<1> QED
  BY <1>1, LayoutCorrect, PTL

=============================================================================
