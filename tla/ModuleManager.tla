---------------------------- MODULE ModuleManager ----------------------------
(***************************************************************************)
(* ModuleManager (src/modules/modules.cpp) as main.cpp drives it: load the *)
(* entry file and the format runtime, follow the load statements of every  *)
(* module (build_graph), and sort the modules (TopoSort).                  *)
(*                                                                         *)
(* A source tree is a record that says, for every file, which module it    *)
(* declares, what it loads and whether it parses, and for every importer   *)
(* and import the places the code looks at, in the order of the code:      *)
(* embedded table entries, the directory of the target's override tree,    *)
(* then the bases (directory of the importer, current directory, root).    *)
(* A place has a primary file and the .qu files of a directory; in an      *)
(* exclusive place (embedded, override) the directory is only looked at    *)
(* when there is no primary file.                                          *)
(*                                                                         *)
(* The recursion of dfs is a call stack, as in TopoSort; the files of one  *)
(* place are loaded one step at a time.                                    *)
(***************************************************************************)
EXTENDS TopoSort, SequencesExt

CONSTANTS
  Files,     \* file keys: canonical paths and "<embedded>:" names
  NoFile,    \* no such file
  NoModule,  \* nullptr
  Trees      \* the source trees to compile

(* A place an import can lead to. *)
Place == [primary : Files \cup {NoFile}, dir : Seq(Files), exclusive : BOOLEAN]

ASSUME TreesAssumption ==
  \A t \in Trees :
    /\ {t.entry, t.format} \subseteq Files \cup {NoFile}
    /\ t.name \in [Files -> Names]
    /\ t.imports \in [Files -> Seq(Names)]
    /\ t.places \in [Names -> [Names -> Seq(Place)]]

(* A file to load, and an import being resolved: the places and the files *)
(* still to look at, and the module found.                                 *)
Pending == [file : Files, primary : BOOLEAN]
Resolution == [imp : Names, places : Seq(Place), pending : Seq(Pending),
               dep : Names \cup {NoModule}]

(* nullptr is no module, and no import being resolved. *)
ASSUME NoModuleAssumption == NoModule \notin Names /\ NoModule \notin Resolution

VARIABLES
  tree,      \* the source tree, fixed for one compilation
  phase,     \* where main.cpp is
  loaded,    \* ModuleManager::loaded_files
  asts,      \* Module::ast, as the sequence of files merged into it
  imports,   \* Module::imports
  errors,    \* ctx.errors, except for the cycles of TopoSort
  groots,    \* build_graph: roots still to visit
  gframes,   \* build_graph: active calls of dfs
  gvisited,  \* build_graph: the set visited
  scan       \* the import being resolved, or NoModule

loadVars  == <<loaded, modules, asts, imports>>
graphSearchVars == <<groots, gframes, gvisited, scan>>
vars == <<tree, phase, loadVars, errors, graphSearchVars, dependencies, topoVars>>


NoImports == [n \in Names |-> <<>>]

Init ==
  /\ tree \in Trees
  /\ phase = "entry"
  /\ loaded = {} /\ modules = {} /\ asts = NoImports /\ imports = NoImports
  /\ dependencies = NoImports
  /\ errors = {}
  /\ groots = {} /\ gframes = <<>> /\ gvisited = {} /\ scan = NoModule
  /\ roots = {} /\ frames = <<>> /\ visited = {} /\ stack = {}
  /\ ordered = <<>> /\ cyclic = {}

-----------------------------------------------------------------------------
(* Merging the imports of a further file: only the ones not yet there. *)
MergeImports(old, new) ==
  LET merged[i \in 0..Len(new)] ==
        IF i = 0 THEN old
        ELSE IF Contains(merged[i - 1], new[i]) THEN merged[i - 1]
        ELSE Append(merged[i - 1], new[i])
  IN  merged[Len(new)]

ImportsWith(f) ==
  LET m == tree.name[f]
  IN  IF m \in modules THEN MergeImports(imports[m], tree.imports[f])
                       ELSE tree.imports[f]

(* build_module: lex and parse, then create the module or merge into it.   *)
(* A file that does not parse leaves its errors in the bag and is merged   *)
(* all the same.                                                           *)
BuildModule(f) ==
  LET m == tree.name[f]
  IN  /\ loaded' = loaded \cup {f}
      /\ modules' = modules \cup {m}
      /\ asts' = [asts EXCEPT ![m] = Append(@, f)]
      /\ imports' = [imports EXCEPT ![m] = ImportsWith(f)]
      /\ errors' = IF f \in tree.broken THEN errors \cup {<<"parse", f>>} ELSE errors

(* Fault: loaded_files is not consulted. *)
LoadAgain(f) == BuildModule(f)

(* load_module and load_embedded_file: a file is loaded once. *)
LoadFile(f) ==
  IF f \in loaded THEN UNCHANGED <<loadVars, errors>> ELSE BuildModule(f)

(* main.cpp loads the entry file; a missing one is an error. *)
LoadEntry ==
  /\ phase = "entry"
  /\ phase' = "format"
  /\ \/ /\ tree.entry = NoFile
        /\ errors' = errors \cup {<<"entry", NoFile>>}
        /\ UNCHANGED loadVars
     \/ /\ tree.entry # NoFile
        /\ LoadFile(tree.entry)
  /\ UNCHANGED <<tree, graphSearchVars, dependencies, topoVars>>

(* main.cpp loads std::format, embedded or from the source tree.  There is *)
(* none on ZeroPoint (NoFile).                                             *)
LoadFormat ==
  /\ phase = "format"
  /\ phase' = "build"
  /\ IF tree.format = NoFile THEN UNCHANGED <<loadVars, errors>>
                             ELSE LoadFile(tree.format)
  /\ UNCHANGED <<tree, graphSearchVars, dependencies, topoVars>>

(* Fault: only the module of the entry file is a root. *)
BuildFromEntry ==
  /\ phase = "build"
  /\ phase' = IF tree.entry = NoFile THEN "failed" ELSE "graph"
  /\ groots' = IF tree.entry = NoFile THEN {} ELSE {tree.name[tree.entry]}
  /\ UNCHANGED <<tree, loadVars, errors, gframes, gvisited, scan, dependencies, topoVars>>

(* build_graph is called: no entry module is an error and it returns;      *)
(* otherwise it takes a snapshot of the modules as its roots.              *)
BuildGraph ==
  /\ phase = "build"
  /\ \/ /\ tree.entry = NoFile
        /\ phase' = "failed"
        /\ errors' = errors \cup {<<"entry", NoModule>>}
        /\ UNCHANGED groots
     \/ /\ tree.entry # NoFile
        /\ phase' = "graph"
        /\ groots' = modules
        /\ UNCHANGED errors
  /\ UNCHANGED <<tree, loadVars, gframes, gvisited, scan, dependencies, topoVars>>

-----------------------------------------------------------------------------
(* The call dfs(m) of build_graph, made with the calls gfs active.  The    *)
(* loop over mod->imports fixes its end when it starts.                    *)
Search(m, gfs) ==
  IF m \in gvisited
  THEN gframes' = gfs /\ UNCHANGED gvisited
  ELSE /\ gvisited' = gvisited \cup {m}
       /\ gframes' = Append(gfs, [mod |-> m, next |-> 1, end |-> Len(imports[m])])

GTop == gframes[Len(gframes)]
NextImport == [gframes EXCEPT ![Len(gframes)].next = @ + 1]

SearchRoot ==
  /\ phase = "graph"
  /\ gframes = <<>>
  /\ \E m \in groots :
       /\ IsFirst(m, groots)
       /\ Search(m, gframes)
       /\ groots' = groots \ {m}
  /\ UNCHANGED <<tree, phase, loadVars, errors, scan, dependencies, topoVars>>

(* The innermost call takes its next import. *)
BeginImport ==
  /\ phase = "graph"
  /\ scan = NoModule
  /\ gframes # <<>>
  /\ GTop.next <= GTop.end
  /\ LET imp == imports[GTop.mod][GTop.next]
     IN  scan' = [imp |-> imp, places |-> tree.places[GTop.mod][imp],
                  pending |-> <<>>, dep |-> NoModule]
  /\ UNCHANGED <<tree, phase, loadVars, errors, groots, gframes, gvisited,
                 dependencies, topoVars>>

Scanning == phase = "graph" /\ scan # NoModule

(* The files one place makes the code load: a primary file is taken as the *)
(* dependency whatever it declares, a file of a directory only when it     *)
(* declares the imported module.                                           *)
FilesAt(place) ==
  LET taken == [i \in DOMAIN place.dir |-> [file |-> place.dir[i], primary |-> FALSE]]
      first == <<[file |-> place.primary, primary |-> TRUE]>>
  IN  CASE place.primary = NoFile -> taken
        [] place.primary # NoFile /\ place.exclusive -> first
        [] OTHER -> first \o taken

(* No dependency yet: look at the next place. *)
OpenPlace ==
  /\ Scanning
  /\ scan.pending = <<>>
  /\ scan.dep = NoModule
  /\ scan.places # <<>>
  /\ scan' = [scan EXCEPT !.pending = FilesAt(Head(scan.places)), !.places = Tail(@)]
  /\ UNCHANGED <<tree, phase, loadVars, errors, groots, gframes, gvisited,
                 dependencies, topoVars>>

(* Merging f pushes onto the vector a loop of an active dfs call ranges    *)
(* over.                                                                   *)
Invalidates(f) ==
  /\ f \notin loaded
  /\ \E i \in DOMAIN gframes : gframes[i].mod = tree.name[f]
  /\ ImportsWith(f) # imports[tree.name[f]]

(* Load the next file of the place.  Growing a vector that is being        *)
(* iterated over is undefined: the loop goes on over the elements it       *)
(* started with, or the compiler crashes.                                  *)
ScanFile ==
  /\ Scanning
  /\ scan.pending # <<>>
  /\ LET p == Head(scan.pending)
         m == tree.name[p.file]
     IN  /\ LoadFile(p.file)
         /\ scan' = [scan EXCEPT
              !.pending = Tail(@),
              !.dep = IF p.primary \/ m = scan.imp THEN m ELSE @]
         /\ \/ phase' = phase
            \/ Invalidates(p.file) /\ phase' = "crashed"
  /\ UNCHANGED <<tree, groots, gframes, gvisited, dependencies, topoVars>>

(* Fault: the search goes on before the rest of the directory is loaded. *)
ImportFoundEarly ==
  /\ Scanning
  /\ scan.dep # NoModule
  /\ dependencies' = [dependencies EXCEPT ![GTop.mod] = Append(@, scan.dep)]
  /\ Search(scan.dep, NextImport)
  /\ scan' = NoModule
  /\ UNCHANGED <<tree, phase, loadVars, errors, groots, topoVars>>

(* The import is resolved: record the dependency and search it. *)
ImportFound ==
  /\ Scanning
  /\ scan.pending = <<>>
  /\ scan.dep # NoModule
  /\ dependencies' = [dependencies EXCEPT ![GTop.mod] = Append(@, scan.dep)]
  /\ Search(scan.dep, NextImport)
  /\ scan' = NoModule
  /\ UNCHANGED <<tree, phase, loadVars, errors, groots, topoVars>>

(* Fault: the loop does not go on after an import that is unknown. *)
ImportUnknownAgain ==
  /\ Scanning
  /\ scan.pending = <<>> /\ scan.dep = NoModule /\ scan.places = <<>>
  /\ errors' = errors \cup {<<"unknown", scan.imp>>}
  /\ scan' = NoModule
  /\ UNCHANGED <<tree, phase, loadVars, groots, gframes, gvisited, dependencies, topoVars>>

(* Fault: an import that no place has is passed over without an error. *)
ImportPassedOver ==
  /\ Scanning
  /\ scan.pending = <<>> /\ scan.dep = NoModule /\ scan.places = <<>>
  /\ gframes' = NextImport
  /\ scan' = NoModule
  /\ UNCHANGED <<tree, phase, loadVars, errors, groots, gvisited, dependencies, topoVars>>

(* No place has it: "Unknown imported module". *)
ImportUnknown ==
  /\ Scanning
  /\ scan.pending = <<>>
  /\ scan.dep = NoModule
  /\ scan.places = <<>>
  /\ errors' = errors \cup {<<"unknown", scan.imp>>}
  /\ gframes' = NextImport
  /\ scan' = NoModule
  /\ UNCHANGED <<tree, phase, loadVars, groots, gvisited, dependencies, topoVars>>

SearchReturn ==
  /\ phase = "graph"
  /\ scan = NoModule
  /\ gframes # <<>>
  /\ GTop.next > GTop.end
  /\ gframes' = SubSeq(gframes, 1, Len(gframes) - 1)
  /\ UNCHANGED <<tree, phase, loadVars, errors, groots, gvisited, scan,
                 dependencies, topoVars>>

-----------------------------------------------------------------------------
(* build_graph ends by calling topo_sort. *)
StartTopoSort ==
  /\ phase = "graph"
  /\ gframes = <<>>
  /\ groots = {}
  /\ phase' = "topo"
  /\ TopoReset
  /\ UNCHANGED <<tree, loadVars, errors, graphSearchVars, dependencies, cyclic>>

SortStep ==
  /\ phase = "topo"
  /\ TopoNext
  /\ UNCHANGED <<tree, phase, loaded, asts, imports, errors, graphSearchVars>>

(* main.cpp goes on to the semantic analysis only without errors. *)
Finish ==
  /\ phase = "topo"
  /\ TopoDone
  /\ phase' = IF errors = {} /\ cyclic = {} THEN "analyze" ELSE "failed"
  /\ UNCHANGED <<tree, loadVars, errors, graphSearchVars, dependencies, topoVars>>

Next ==
  \/ LoadEntry \/ LoadFormat \/ BuildGraph
  \/ SearchRoot \/ BeginImport \/ OpenPlace \/ ScanFile
  \/ ImportFound \/ ImportUnknown \/ SearchReturn
  \/ StartTopoSort \/ SortStep \/ Finish

Spec == Init /\ [][Next]_vars

(* One thread of control that runs until it returns. *)
FairSpec == Spec /\ WF_vars(Next)

-----------------------------------------------------------------------------
(***************************************************************************)
(* The declarations of a file are merged into exactly one module, once,    *)
(* however many imports lead to it (loaded_files): otherwise its symbols   *)
(* are declared twice.                                                     *)
(***************************************************************************)
FilesMergedOnce ==
  /\ \A f \in loaded : \E i \in 1..Len(asts[tree.name[f]]) : asts[tree.name[f]][i] = f
  /\ \A n \in Names : \A i \in 1..Len(asts[n]) :
       /\ asts[n][i] \in loaded
       /\ tree.name[asts[n][i]] = n
       /\ \A j \in 1..Len(asts[n]) : asts[n][i] = asts[n][j] => i = j

(* A tree as the documentation prescribes it: what an import finds is      *)
(* named like the import, every place for a module has all its files, and  *)
(* nobody imports the modules main.cpp loads by itself.                    *)
FilesOf(place) == {FilesAt(place)[i].file : i \in DOMAIN FilesAt(place)}
WellLaidOut ==
  /\ \A m, n \in Names : \A k \in DOMAIN tree.places[m][n] :
       LET fs == FilesOf(tree.places[m][n][k])
       IN  fs # {} => fs = {f \in Files : tree.name[f] = n}
  /\ \A f \in {tree.entry, tree.format} \ {NoFile} :
       \A m, n \in Names : \A k \in DOMAIN tree.places[m][n] :
         f \notin FilesOf(tree.places[m][n][k])

(***************************************************************************)
(* In such a tree, when the analysis starts every load statement of every  *)
(* loaded module has become a dependency, so DependenciesFirst is about    *)
(* all of them: through directories with several files, diamonds of        *)
(* imports, and roots that are not reachable from the entry.               *)
(***************************************************************************)
ImportsResolvedWhenWellLaidOut ==
  phase = "analyze" /\ WellLaidOut =>
    \A m \in modules : \A i \in DOMAIN imports[m] :
      Contains(dependencies[m], imports[m][i])

(***************************************************************************)
(* In such a tree no load grows the import list that a loop of an active   *)
(* dfs call is ranging over (for (const auto& imp : mod->imports)), which  *)
(* would be undefined behaviour.                                           *)
(***************************************************************************)
LoopsUndisturbedWhenWellLaidOut ==
  WellLaidOut =>
    \A i \in DOMAIN gframes : gframes[i].end = Len(imports[gframes[i].mod])

(***************************************************************************)
(* What the comment of build_graph says: "Resolve the dependency graph for *)
(* every loaded module" (src/modules/modules.cpp): a module that loads     *)
(* something is searched before the analysis starts.                       *)
(***************************************************************************)
EveryLoadedModuleSearched ==
  phase = "analyze" => \A m \in modules : imports[m] # <<>> => m \in gvisited

(* A place has a file of module d that dfs takes for the import. *)
Provides(place, imp, d) ==
  \E i \in DOMAIN FilesAt(place) :
    /\ tree.name[FilesAt(place)[i].file] = d
    /\ FilesAt(place)[i].primary \/ d = imp

(* The tree has module d for what m imports as imp. *)
Known(m, imp, d) ==
  \E k \in DOMAIN tree.places[m][imp] : Provides(tree.places[m][imp][k], imp, d)

(***************************************************************************)
(* No broken file, no unknown import and no cycle gets past main.cpp's     *)
(* check after build_graph, although the loader goes on after each of      *)
(* them. Of a module that was searched, the load statements of the file    *)
(* that made it have all become dependencies, the i-th dependency is what  *)
(* the tree has for the i-th import, and it is analysed before the module. *)
(* (In any tree, so nothing is said of what a file adds that is merged     *)
(* later: ImportsResolvedWhenWellLaidOut.)                                 *)
(***************************************************************************)
AnalysisOnlyOfSoundPrograms ==
  phase = "analyze" =>
    /\ loaded \cap tree.broken = {}
    /\ \A m \in gvisited :
         /\ Len(tree.imports[asts[m][1]]) <= Len(dependencies[m])
         /\ \A i \in DOMAIN dependencies[m] : Known(m, imports[m][i], dependencies[m][i])
         /\ \E k \in 1..Len(ordered) :
              /\ ordered[k] = m
              /\ \A j \in DOMAIN dependencies[m] :
                   \E l \in 1..(k - 1) : ordered[l] = dependencies[m][j]

(* Loading and sorting come to an end on every tree. *)
BuildTerminates == <>(phase \in {"analyze", "failed", "crashed"})
=============================================================================
