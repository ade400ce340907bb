# Verification of quark-lang

quark-lang is a compiler (C++, `src/src`, `src/include`) for the language Quark, together with the
standard library of that language (`src/std/**/*.qu`). This directory holds TLA+ models of the parts
of both whose correctness depends on the order of steps, on the state left by earlier calls, or on
all paths through a program; TLC configurations that check them on small instances; and proofs,
checked by TLAPS, of the theorems about the parts that carry the most weight.

Source paths below are relative to the root of the repository, lines are given where they matter.

## 1. The system

The compiler is a single-threaded batch program: `main` (`src/main.cpp`) runs the phases one after
the other, each on the data structures the one before has left. The hard behaviours are therefore
not interleavings of threads, but

* searches of graphs that are changed while they are searched (modules),
* errors that are noted while the phase goes on, and are to stop the compilation later,
* names that are resolved twice, by the analysis and again by the IR generator, from different tables,
* indices and labels that are renumbered while others still hold the old ones (IR passes),
* a program that three generators of machine code have to mean the same by,
* facts that have to hold on *every* path through generated code (lowering, liveness),
* in the runtime library, sequences of legal calls (allocator, vector, arena) that together lead into
  a state no single call would.

| Component | State | Operations | Interacts with | Correct when |
|---|---|---|---|---|
| Module manager (`src/modules/modules.cpp`) | `modules`, `loaded_files`, `entry_module`, `ordered`; per module `imports`, `dependencies`, merged AST | `load_entry`, `load_module`, `load_embedded_module`, `build_module`, `build_graph`, `topo_sort` | called by `main`; calls lexer and parser; the order is used by analysis and IR generation | each file is merged once; each import becomes a dependency; dependencies come first; cycles are reported and nothing else is; nothing unsound goes on |
| Lexer (`src/frontend/lexer.cpp`) | position | `tokenize` | parser | |
| Parser (`src/frontend/parser.cpp`) | `current`, `buffer` (lookahead), error bag | `parse` and one function per construct, lookahead, error recovery, rewriting of `for`, `+=`, `++` | module manager | a text without errors becomes the tree it stands for; a wrong text is reported; it ends |
| Semantic analysis (`src/semantic/semantic.cpp`) | scopes, loop and switch depth, generics instantiated so far; per variable: initialized, mutable, may be null, constant value, guard | `analyze_*`, `check_convertible`, `may_be_null`, `check_arg_guard` | symbol table, type context | what it lets through can be lowered; the facts about variables hold on every run |
| Symbol table, namespaces, type context (`src/semantic/symbol_table.cpp`, `src/support`) | scope stack, namespace trees, interned types | enter/leave, declare, lookup, `using`; interning | semantic analysis, IR generator | a name means the innermost declaration that is visible; equal types are one object |
| IR generator (`src/ir/ir_gen.cpp`) | `current_func->body`, `current_terminated`, `next_label`, `break_labels`, `continue_labels`, registers, variable maps | `gen_function`, `gen_block`, `gen_stmt`, `gen_region`, `gen_expr` | reads the checked AST; its output goes to the optimizer | the code does what the function says, on every path |
| Optimizer (`src/ir/opt.cpp`) | the IR program; `live_in`, use counts, remap tables, the round | `optimize`, `fold_constants`, `remove_dead_instructions`, `remove_dead_locals`, `compact_labels`, `remove_unused_functions`, `compact_strings`, `compact_globals` | between generator and back ends | the program does the same afterwards; indices keep their targets |
| Code generators (`isel.cpp`, `aarch64_isel.cpp`, `fasmcodegen.cpp` in `src/backend`) | machine code, frame layout, fixups | one emitter per IR instruction, prologue, epilogue, entry, imports | optimizer, object writers | the code does what the IR says, on every target |
| Encoders, object writers (`x86_64.cpp`, `aarch_64.cpp`, `elf`, `coff`) | bytes, sections | encoding, layout, relocations | driver | |
| Driver (`src/main.cpp`), linker check (`src/linker`) | phase, files on disk | the phases, `ar`, linking | everything | no phase runs on the errors of an earlier one; outputs are complete or absent |
| `std::heap` (`std/heap/heap.qu`) | `heap_head`, block headers in memory, chunks mapped | `heap_malloc`, `heap_free`, `heap_realloc` | `mmap`; used by vectors and strings | blocks never overlap and tile their chunks; merging is safe; requests are met or refused |
| `std::vector`, `std::arena` and regions | data/size/capacity; base/offset/capacity | push, pop, free; bump, begin, end | heap, `mmap` | an element stays what it was; memory ends with its region |
| `std::string`, `format`, `io`, `types`, `math`, `cmp` | none beyond a call | conversions, system calls | | |

`PROJECT.json` lists all components with what is modelled of each, and the hazards, each at the line
where it bites.

## 2. Modules

```
TopoSort ─ ModuleManager            build_graph ends in topo_sort
   │ MCTopoSort   │ MCModuleManager
TopoSortProofs ─ ModuleManagerProofs

Syntax ─ Parser                     what programs mean; what the parser makes of their text
           MCParser

Names ─ NamesProofs, MCNames        two resolutions of the same names, side by side

FlowFacts                           facts about variables, and the runs they are about
   │ FlowFactsProofs, MCFlowFacts

DeadLocals ─ DeadStores             any code, run with its dead stores marked
   │            │ DeadStoresProofs
   │         Lowering ─┬─ IRGen     the code that IRGen makes, run so beside its source
   │            │      └─ Statements
   │         MCLowering, MCDeadStores

IRMachine                           what the IR means
   ├─ Optimizer (with DeadLocals)   a program before, between and after the passes
   │     MCOptimizer
   └─ Backend  ⇒ ImplementsIR       generated code, executed, refines IRMachine
        ├─ ISel, AArch64ISel, FasmGen ─ Machine
        └─ MCBackend, BackendProofs
IRPrograms                          the programs both run

Prune ─ PruneProofs, MCPrune
Heap ─ HeapProofs, MCHeap
```

An `MC` module gives the constants of a specification their values and, where it is needed, bounds
the initial states. Operators that a comment calls a *fault* (`FreeWithoutMerge`, `ForStepInside`,
...) are no part of any specification. Each is a definition next to it with one plausible mistake in
it; putting it in the place of that definition makes TLC find the property it is listed with in
`PROJECT.json` (`mutants`) violated. This documents which mistake each property guards against.

### TopoSort (`ModuleManager::topo_sort`, modules.cpp:262-302)

`frames` is the call stack of the recursive lambda `dfs`; a frame holds a module and the position in
its range-for over `dependencies`. `visited`, `stack`, `ordered` are the variables of the same names,
`cyclic` stands for the error entries. `VisitRoot` and `VisitDependency` are a call of `dfs` up to its
first return or its loop, `LeaveModule` is the end of a call.

### ModuleManager (the rest of modules.cpp, as `main.cpp` drives it)

A source tree is an input: what module each file declares, what it loads, whether it parses, and for
each importer and import the places the code looks at, in order. A place has at most one primary file
(`std/x/x.qu`, `x.qu`) and the files of a directory. `LoadEntry`, `LoadFormat`, `BuildGraph`, `Finish`
are the steps of `main`; `SearchRoot`, `BeginImport`, `OpenPlace`, `ScanFile`, `ImportFound`,
`ImportUnknown`, `SearchReturn` are `build_graph` with its recursive `dfs`, one loaded file at a time.
`SortStep` is `TopoNext`. Growing a vector that an active range-for iterates over is undefined; it may
go on with the elements it started with or crash.

### Syntax, Parser (`src/frontend/parser.cpp`)

`Syntax` is the reference, taken from the documents: trees in the form programs are written in; their
`StatementsText`, with the parentheses that the precedence table (Doc.md:308) asks for and no others; their
`Meaning`, in which `for`, `+=`, `++` are replaced as Doc.md:305 and AI_CONTEXT.md:177 say. `Parser` is the
code: one operator per parsing function on the state of the parser (`at` for `current`, `bad` for the error
bag, `tree` for the node returned); lookahead (`looks_like_generic_args`, declaration or expression), and the
recovery loops. `ParseStatement` is one turn of `parse()`. A round of a loop that consumes nothing
would be repeated for ever, since it depends on the position alone: it sets `stuck`.

Tokens are kinds, so which name is a generic parameter cannot be told (the parser keeps a set of them
for `Type`); escapes, literals' values and source locations are left out.

### Names (`symbol_table.cpp`, semantic.cpp, ir_gen.cpp)

What a name stands for. A program is its modules in the order of `topo_sort`. The phases are those of
`main`: `hide` (switches of `@hide`), `import` and `collect` per module, `analyze` per body, `leave`,
then `register` and `generate` of the IR generator, which resolves the same names again by strings of its own.
A symbol has the key it lives at and its `home`, the full name it was declared by; a copy that `using`
makes keeps the home. `bound` is what analysis found for each use, `generated` what code generation did.
`symbols` are the symbols of the namespaces, `scopes` the open scopes in front of them. A namespace inside of a
module is a block to `analyze_namespace_stmt` and has a scope of its own while it is analysed (`Analyze`): what a
`using` in it copies and what its globals declare goes there (`Declare`), shadows the namespace's own symbols
(`Lookup`) and ends with the block. The scope of a body is `Scope`, built where it is needed.
Generic functions and method calls through a value (which need types) are left out.

### FlowFacts (semantic.cpp, facts about variables)

The analysis walks a function once, in source order, and keeps one fact per symbol (`VarSymbol`,
`FuncArgSymbol` in `symbol_table.h`). A program is its items in source order: declaration,
assignment, passing an argument (or returning a reference), use, test; `next` holds the places control
can reach behind an item, so a branch is two edges, a loop a backward one, and a function that is
analysed later and called earlier a backward one too. `Analyse` is the handler of one item:
`AcceptsDeclare`, `AcceptsAssign`, `AcceptsPass` are its checks (`check_convertible` is `Assignable`,
`check_arg_guard` is `GuardPasses`), `DeclaredFact` and `AssignedFact` what it does to the facts.
`known` keeps the facts at each place. `Execute` then runs an accepted program along any of the edges;
`env` is what the variables hold. The properties are about both: what `env` holds at a place against
what `known` says of it there. Behind a first error only the verdict matters, since nothing is
generated. Variables are named apart (scopes are in `Names`); stores through a pointer to a
pointer are not modelled; an uninitialized variable holds `junk`.

### DeadLocals, DeadStores (`remove_dead_locals`, opt.cpp:200-345)

`DeadLocals` has basic blocks (named by their first instruction), successors, the backward scan of a block and the
iteration, as operators over code. `Sweep` is one turn of the loop at opt.cpp:308: one block after the other, each
with what the ones before it have found, in place. `Live` is `scan_block` in closed form: a local is live at
an instruction if it is read further down before it is written. The loop makes at most `IterationLimit` = 512 turns.

In `DeadStores` a body runs, from its first instruction along any path; `last` is the store that wrote each
local last, `dead` the stores the pass deletes. A read must never find the value of a deleted store.

### IRGen, Statements, Lowering (`src/ir/ir_gen.cpp`, control flow)

`IRGen` is the generator as operators on its state (`code`, `term`, `label`): one operator per handler.
`Statements` is the reference, an abstract machine for nested statements with
`break`, `continue`, `return` that unwind. `Lowering` compiles a program, runs the code as `DeadStores` does and
the program beside it, and gives each test the same outcome on both sides. Instructions that are no event of the
program (labels, jumps, the store of a region's slot; `Hidden`) leave it where it is. It also states `RegionsEnd`
and `StaysInFunction`, which the code does not have (section 3).

### IRMachine, IRPrograms (`ir.h`)

`IRMachine` is an abstract machine: a stack of activations, each with registers, locals and the words of its
extra stack (aggregates, regions), which share nothing; globals; memory mapped by the kernel. Words
are tagged with what they are, so an address that is off by one is not an address. `IRPrograms` are programs
that between them use every instruction modelled: calls with 2 to 10 arguments, aggregates passed and returned,
recursion, loops, globals, fields and elements, system calls, regions, casts, divisions. Integers are words of eight
bytes in two's complement and wrap around; a byte has `ByteBits` bits (2 in the runs), so that the ends of the range
are within reach of TLC. Of two types of a cast the narrower one counts, as on x86-64; signed and unsigned words are
divided each in their way, and a division without a quotient (by zero, the least word by -1) kills the process.

### Optimizer (`src/ir/opt.cpp`)

`optimize` as a state machine: `OptimizePass` is one pass over one function (`FoldConstants`,
`RemoveDeadInstructions`, `RemoveDeadLocals`), followed by the next function, the next round while
something changed, or `Compact`. The program runs first as generated (`phase = "reference"`) and its outcome is
noted. After *any* pass the optimizer may be left (`Check`): the program as it is then runs on the same machine.

### Machine, ISel, FasmGen, AArch64ISel, Backend (`src/backend`)

`Machine` has the machine instructions. The three selectors turn each IR instruction into a list of them,
one operator per `emit_*` of the code, with their frame layouts, argument registers and stack arguments,
shadow space (Windows), pushes and pops, ranges of immediates (AArch64). `Backend` links the code of a
program for a target and executes it, one machine instruction per step. Its variables `stack`,
`globals`, `heap`, `result` record the abstract state as it is read off registers and memory whenever control
passes from the code of one IR instruction to that of another; `ImplementsIR == IR!Spec` is the
refinement, fairness included. Control that leaves the generated code, as a wild program may make it, is the end
of the model: no step is possible (TLC would report it as a deadlock). Addresses are in words of eight bytes; a
four-byte store of AArch64 (`StoreHalves`) replaces the lower half of a number and makes an address unusable.

### Prune (`remove_unused_functions`, `compact_strings`, `compact_globals`, opt.cpp:676-860)

`calls` and `uses` are the input; `keep`, `work`, `remap`, `functions`, `table` the variables of the
code; `funcId[f][c]` is the index the calls of `c` in `f` hold at the moment. `Follow` is one turn of the
work list, `Move` and `Pack` one turn of the renumbering loops.

### Heap (`std/heap/heap.qu`)

Addresses and sizes are in units of 16 bytes; requests are in bytes and go through `align16`, whose
addition wraps around at `Word`. A header is `size[a]` and `a \in used`; `free` is the list from
`heap_head`. The loop of `heap_malloc` and the tails of `heap_realloc` are steps of their own: `op`
holds what remains of the call. `Refill` puts a chunk at any unused base, as `mmap` may; `OutOfMemory`
is a failing `mmap`. Headers that a merge leaves inside a block keep their old contents, as in memory.

## 3. What the runs show

| Run | Instance | Shows |
|---|---|---|
| `topo_sort` | every graph of 3 modules with up to 2 dependencies each (13³ graphs), repeated and self-dependencies included; 26,026 states | each module once, behind its dependencies; a cycle is reported iff there is one; the search ends |
| `module_manager` | a family of trees of 3 files and 3 names: all import lists, files and directories, exclusive places, wrong module names, a broken file, no entry, format runtime or none; 406,012 states | files are merged once; imports of well laid out trees all resolve and no loop is disturbed; no broken file, cycle or import that the tree does not have reaches the analysis; it ends |
| `parser` | the texts of all expressions of two operators and of statements nested two deep; all sequences of up to five tokens over five small vocabularies; every sample program with one token removed or inserted or its end cut off; 768,838 states | a text is parsed into what it means; a text that is accepted has all its names in the tree and its brackets nest; every round of every loop consumes something |
| `names` | a function `f` in any of three modules, a namespace and the entry file, private or not, called from each place by five paths under four imports; attributes and switches of `@hide` on every kind of declaration; duplicates, forward declarations, methods, nested modules, a module and a namespace of one name; imports and globals inside of a namespace that shadow its own functions, structs and methods; 107,126 states | nothing private is used from outside; both resolutions agree on every plain use; no two functions become one |
| `names_private` | the same | *violated*: in a module `a` with a namespace `n`, the call `n::f()` is checked as `a::n::f`, and the code calls the `@private` `f` of module `n` (ir_gen.cpp:1314-1316), against Doc.md:670 |
| `flow_facts` | three declarations (pointers `p`, `q`, a reference `r`, a parameter `x`) and all triples of seven statements, straight or with the first one or two in an `if`; all programs that declare `c`, then `n` with `@guard(c)`, change one of them or none, and pass `n`; 144,258 states | a pointer that is null was held for nullable there; no reference is null; no statement takes nullability back; guards about immutable literals hold at the call |
| `lowering` | all functions with two levels of nesting: if/else-if/else, while, for, switch with several values and cases, region, block, each with break/continue/return/effect/nothing inside; functions around one local, with stores, loads, address-taking, reads through a pointer, in loops, branches, switches and regions; 346,238 states | the code produces the events of the function in the same order; no deleted store is read |
| `optimizer` | all expressions of one operator over 0, 1, 2 and a variable, their value returned, passed to the kernel or a function, tested, stored or dropped; expressions of two operators; signed and unsigned arithmetic on the least word, -1, 0 and 2; `IRPrograms`; a loop with stores nobody reads; 73,397 states | after every pass the program makes the same system calls with the same arguments and ends the same; the rounds end |
| `prune` | 3 functions, 2 entries, all sets of entry points, call graphs (only the first function may call itself), at most one entry used per function; 386,208 states | calls and loads keep their targets, nothing unreachable is kept, the passes end |
| `backend` | 23 programs on x86-64 Linux and in fasm text, 22 on Windows (no system calls by number), 16 on AArch64; 4,959 states | the machine code implements the IR; no word of a running function is another one of it or of its callers, nor below the stack pointer; the stack is aligned on Windows and AArch64; the caller's frame pointer survives |
| `backend_frames` | a cast to four bytes on AArch64 and Linux | *violated*: the cast uses the place of the saved frame pointer as scratch (aarch64_isel.cpp:743), against the comment at aarch64_isel.cpp:146 |
| `heap` | 2 chunks of 10 units that may be neighbours, requests of 1, 30 and 200 bytes (the last larger than a chunk), `Word` 65536; 248,950 states | blocks tile chunks, are disjoint, the bit agrees with the list; other allocations are undisturbed; calls return |

**Bounds.** Three modules are enough for the shapes that matter to a depth-first search: a chain, a
diamond's shared leaf, a cycle of one, two and three, a cycle off the path. The proofs cover all
sizes. Two operators show how any two of them group, which is all that binding powers decide; nesting
two deep puts every statement inside every other, with and without braces. One function name is enough
for `names`, since names do not interact; what does is the number of places it is declared at, and these
are all the kinds of places there are (own module, imported module, enclosing and nested namespace,
entry file). For the heap, ten units in a chunk leave six usable, so a chunk holds three blocks of the least
size: a block with free and used neighbours on both sides, splitting with and without remainder, and a guard between
two adjacent chunks. Two levels of nesting reach every combination of a jump, the statement it leaves
and the statement it passes through. One local is enough for dead stores because the pass treats
locals independently; the slots of regions are further locals. For `flow_facts`, three statements let
a null go from its source through a second pointer to the reference, with each of the three in the
branch or behind it; the theorems cover all programs without backward edges. 0 and 1 are the constants the
folder treats specially, 2 is one it does not. The programs of `backend` have more arguments than any target has
argument registers, with and without a pointer to the result in front, an even and an odd number of stack arguments,
and every width of cast; what goes wrong on AArch64 is listed below. Their frames stay small: from 256 bytes on, the nine-bit offset by which AArch64 reads
stack arguments wraps around (`Ldur`, aarch64_isel.cpp:251).

**Fairness.** The compiler is one thread that runs until it returns, so `WF` of the whole next-state
relation is justified for `TopoSort`, `ModuleManager`, `Names`, `Prune` and `Optimizer`, and so is it for the
program that runs in `IRMachine`, `Backend` and `Optimizer`. For `Heap` only the steps within a
call (`Work`) are fair: a program need not make another call. `Parser` states none; that it ends is the
invariant `EveryRoundConsumes`, since a text is finite. `CHECK_DEADLOCK FALSE` is used where the
program ends (`Heap` always has a further call, and `Backend` stutters once the program has exited).

**Disagreements stated without a run.** Each of these is a definition of its module, or a bound of a run, and a
hazard in `PROJECT.json`.

* `RoomAsAsked` (Heap): `heap_realloc` returns the old, too small block when the next block is free
  but too small (heap.qu:176-191).
* `RegionsEnd` (Lowering): a region left by return, break or continue is not ended (ir_gen.cpp:1290).
* `StaysInFunction` (Lowering): `break` counts as terminating, so code behind a switch is left out
  and execution runs off the end (ir_gen.cpp:1204).
* `EveryLoadedModuleSearched` (ModuleManager): a module that comes in as a sibling in a scanned directory is
  not among the roots, so its own imports are never resolved (modules.cpp:410, 423). A primary file is taken for
  the import whatever module it declares, though the comment at modules.cpp:149 says that the name is checked.
* `ReferencesNotNull` with loops: `while (c) { r = p; p = nullptr; }` is accepted, and in the second
  round `r` is null (semantic.cpp:1594). `LoopPrograms` of `MCFlowFacts` are these programs.
* `HeapFails = FALSE` in `flow_facts`: `may_be_null` takes `heap_malloc` for never null
  (semantic.cpp:318-320), though it returns NULL when memory is out (heap.qu:148).
* `GuardsOfConstantsHold` leaves out guards about mutable variables: their `const_value` stays that of the
  declaration (semantic.cpp:1285), so the guard is judged by an old value.
* `DeadStoresUnread` excludes functions of more than 512 basic blocks (`TooManyBlocks`). Liveness goes back by
  one block per iteration where control runs down the text, and the loop at opt.cpp:308 stops after 512 iterations
  whether or not it has converged. The pass itself, compiled and run on a function that stores a local in the
  first of 514 blocks and reads it in the last, deletes the store.
* `StackAligned` says nothing of x86-64 Linux and the fasm text: a call with an odd number of stack arguments is made
  with the stack at an odd word there (isel.cpp:339, fasmcodegen.cpp:313). What the generated code calls does not mind.
* `DeadStoresUnread` excludes functions with a region whose body ends in a jump. There the end of the region
  is emitted behind the jump, in the same basic block; the pass reads the successors off the last instruction
  (opt.cpp:245), takes the block to fall through and deletes stores that are read at the target of the jump.
* `AcceptedAsWritten` leaves out texts with attributes: those in front of a statement that takes none are
  dropped without a word (parser.cpp:318). `f(a < b, c > (d))` is read as a call of a generic `a`
  (parser.cpp:279), so `>` is only in generic arguments in the texts of `TextMeansItsSource`.
* `SameOutcome` excuses programs that compare a negative number as unsigned: `fold_int` compares unsigned kinds as
  unsigned numbers (opt.cpp:387-406), the generators everything as signed (isel.cpp:308). It excuses a division that
  traps and whose result no instruction needs but other operations: it is removed as dead. `fold_int` itself leaves
  divisions without a quotient alone and divides unsigned kinds as unsigned (opt.cpp:376-383), as the generators do.
* `MCRuns` leaves out of AArch64 the programs that take the address of a local (a wrong immediate,
  aarch64_isel.cpp:513), narrow to a signed type (zero-extended, aarch64_isel.cpp:748), cast four bytes
  (`backend_frames`), or divide without a quotient (`sdiv` and `udiv` do not trap, aarch64_isel.cpp:582). So it does
  `Struct(8)` and `Struct(9)`, calls that return through a pointer with eight or more arguments behind it: the caller
  counts seven registers and stores the eighth of them in the second word on the stack (aarch64_isel.cpp:282-297), the
  callee counts eight and reads the first (aarch64_isel.cpp:249). All of them fail `ImplementsIR` there.
* `DefinitionsApart` fails for some programs with declarations ahead, which `MCPrograms` leaves out: `a` declares `f`
  without a body and defines one in its namespace `b`, which `declare` takes for the body of the first
  (symbol_table.cpp:143), so `a::b::f` is no symbol; module `a::b` imports a function `f` that is declared only and
  defines `f`, which completes the copy. Both bodies are `a::b::f` and nothing is reported. The theorem about
  it (section 4) is for programs that declare functions with their bodies.
* `PlainUsesAgree` is about plain uses. A qualified read of a mutable global gives its first value
  (ir_gen.cpp:2007), that value is never stored for plain reads (ir_gen.cpp:868), and imports inside of
  bodies and namespaces are gone when code is generated (ir_gen.cpp:1231), and so are the globals of a namespace
  (they are symbols of its block only, semantic.cpp:2826, symbol_table.cpp:85). A name is looked for again when all
  modules are in the table, as a full name first and from the module rather than the namespace of the use: `n::f`
  is that of a module `n` although the own namespace `n` has one (`names_private`); `n::V` of a module `s::a`
  becomes that of `s::n` when it is loaded later, and `E::V` that of a module `E` (both seen in the compiled
  compiler); a method of a struct `S` inside a namespace calls the method of an `S` outside of it. Names that are
  apart in the sense of section 4 rule the last three out; the first is not a plain use.

## 4. What is proved

All proofs hold for every value of the constants.

**TopoSortProofs**, for `TopoSpec` (any graph whose dependencies are loaded modules), under
`RankAssumption` (names are totally ordered, as strings are):

* `TypeCorrect`, and `SearchCorrect`: `SearchInvariant` is inductive.
* `DependenciesComeFirst`: `[]DependenciesFirst`. It is not inductive: when a module is appended, one
  has to know that all its dependencies were. That is `PassedDependenciesDone`, what each active call has dealt
  with is visited, or is the call it waits for. That in turn needs
  `CallsFollowEdges` (the call above was made for the dependency the frame is at), `StackIsFrames`
  (`stack` is the set of active modules, each active once) and `VisitedIsOrdered`.
* `EveryModuleComesOnce`, from `NothingForgotten` and `VisitedIsOrdered`.
* `ReportedCyclesAreReal`: a reported module lies on a closed walk, built from the frames by
  `CallsFollowEdges`.
* `CyclesAreReported`: both directions at once, with *m lies on a cycle* stated by closed sets: every set
  that holds the dependencies of `m` and those of its own members holds `m` (`OnCycle`). In a finished search without
  reports the modules in front of `m` in `ordered` are such a set without `m`.

**ModuleManagerProofs**, for `Spec` of `ModuleManager`, under `TreesAssumption` (trees are made of the
constants: files, names, places; nothing about how they are laid out) and `NoModuleAssumption` (`nullptr` is no
module):

* `LoaderCorrect`: `LoaderInvariant` is inductive. It has the types, with every loop over imports within its
  vector (`end` is at most the length, since lists only grow); what is loaded, merged and reported (`LoadedOK`);
  and what each phase starts from (`PhasesOK`), where the invariant of `TopoSortProofs` comes in.
* `FilesAreMergedOnce`: for all trees, broken files and unknown imports included.
* `OnlySoundProgramsAnalyzed`: an unknown import is told from a known one by what the tree holds (`Known`), not by
  the error that is reported for it. `SearchResolves` carries it: without an error an active call of `dfs` has exactly
  one dependency for each import behind it (`CallsCount`), each of them the tree's for the import at the same place
  (`DependenciesKnown`), and the import under way looks at places and files of its own alone (`ScanKnown`).
* `LayoutCorrect`: in a tree that is `WellLaidOut`, `Layout` is inductive. Its core is that a searched module
  is *settled*: every file that any import could merge into it is loaded already. So loading never grows its
  imports again, though a place is loaded file by file between the start of one search and the next
  (`SearchedSettled`, `ScanOK`), and nothing but the import in progress is loaded and neither searched nor a root
  (`NoneForgotten`).
* `LoopsAreUndisturbed`, `EveryImportResolved` follow, the latter with `ImportsGoneThrough`.
* The prover knows a recursive function only if some function satisfies its equation: `MergingExists`
  shows that for the loop of `MergeImports`, by a least counterexample, which is how all inductions here are done.

**HeapProofs**, for `Spec` of `Heap`, under its assumptions on chunks, bases and requests and
`IdleAssumption` (being idle is no call):

* `HeapWellFormed`: `HeapInvariant` is inductive. `ChunksTiled`, `BlocksDisjoint` and `BitIsTruth` are not by
  themselves: within a call a block may be the program's no longer and not yet on the list. `WellFormed` accounts for
  every block as live, listed or under way, has them tile the chunks, and sets the bit for the live ones and the
  guards, for none that is listed, and leaves it open for the one under way; what a merge leaves in memory inside a
  block does not matter to it. `MovesLive` says that the block a move is to free is still live. `Snug` says that a block has at
  most one unit more than its request: without it, a `heap_realloc` to the same request would cut a block.
  `Split`, `Merge` and `Grow` show once what a split, a merge and a new chunk do to a tiling.
* `ChunksAlwaysTiled`, `BlocksAlwaysDisjoint`, `BitAlwaysTruth` follow; `OthersKeepTheirBlocks` is an action property, one
  case per step; `MergesFindTheirBlock` says that `unlink_free` always finds the neighbour it looks for.
* `RoomKeptUnlessGivenUp`, `RoomWhileNotGivenUp`: what holds of `RoomAsAsked`, which the code does not keep (section
  3). If no request is within 31 bytes of the top of the word (`RequestsFit`; `align16` wraps for those, and TLC
  then finds a block that is too small), `heap_realloc` beside a free block that is not big enough (`GivesUp`) is the only
  step that leaves a block with less room than was asked for.

**PruneProofs**, for `Spec` of `Prune`, under `SizeAssumption`:

* `PruneCorrect`: `PruneInvariant` is inductive. Its core is `Numbered`: what is left below the loop
  variable is in the new list at the place its new index says, and `ClosedUnderCalls(keep)`, by which
  every call of a function that is left has a target that is left.
* `PruningKeepsCalls`, `CompactingKeepsLoads`, `PruneTypeCorrect` follow from it.
* `OnlyReachableKept`: nothing but what the entry points reach is kept.

**FlowFactsProofs**, for `Spec` of `FlowFacts`, under `FlowAssumption` (the kinds of variables are
disjoint, the items well-formed):

* `FlowTypeCorrect`, and `WalkCorrect`: `WalkInvariant` is inductive. Its core is that the facts at a
  place are `After` those at the place before, that an accepted item was accepted with those facts, and that
  later facts cover earlier ones (`Covers`).
* `NullabilityNeverTakenBack`: `NullabilityMonotone`, for all programs, loops included.
* `NullsAreKnown`, `ReferencesAreNotNull`: for programs whose edges all go forward (`Forward`) and a
  heap that does not fail (`~HeapFails`). `RunInvariant` relates the contents to the facts at the
  place of the run; it survives a jump forward over items because of `Covers`. Both
  assumptions are needed (section 3).
* `GuardsHold`: `GuardsOfConstantsHold`, for all programs, loops included, and a heap that may fail, if arguments
  are named apart from the integers declared (`ArgumentsApart`, as scopes have it). Declarations keep what is known of a
  constant at every later place, and no accepted statement writes one, so `GuardInvariant` holds along any edge.

**NamesProofs**, for `Spec` of `Names`, under `ProgramsAssumption` (braces match, as the parser sees to; a file
without declarations is taken as its module declaration alone):

* `NamespacesFollowTheText`: `NamesInvariant` is inductive. `SpaceOf` says what is open at an item by looking at
  the whole text before it; `SpaceStep`, the lemma most of the proof is about, says that it grows and shrinks by one name where a
  namespace begins and ends. `RankedStep` is why: what is open lies at the depths 1, 2, ... in the order
  of the text. Leaving a namespace leads to one that exists because with each namespace those
  around it do (`SpacesClosed`). Analysis has as many scopes open as namespaces, and none when it leaves the module
  (`ScopesMoveOn`). `NamesTypeCorrect` follows.
* `CompiledMeansChecked`: the invariant `UsesInvariant` adds what has been analysed and generated so far
  (`BoundInOrder`, `WrittenInOrder`). That the two passes name the sites of uses alike is what `PlainUsesAgree`
  compares them by.
* `PrivateIsPrivate`: `PrivateStaysHome`, for programs that are `PlainlyDeclared`. `HomeInvariant` says that each
  symbol of the table and of the open scopes (`SoundScopes`), copies included, has the home, the owner and the privacy
  of a declaration of the text (`TableTruthful`), and so has each symbol a use was bound to. Whether the documentation has
  a declaration private is a question about the text, whether the loop over the attributes makes it so (`hidden` of `HidePass`) a
  recursion over it; `HiddenIsPrivate` joins them. The hypotheses are the ones the statement needs: a full name
  is declared once (`DeclaredOnce`; homes are what tells declarations apart), functions come with their bodies
  (`NoneAhead`; a body that completes a declaration found further out gives that one its attributes), and no
  declaration has both `@hide` and `@unhide` (`SwitchesApart`; attributes are sets here, the code goes by their order).
  Of the 3,940 programs of `MCNames` 3,871 are so, 2,450 of them with private declarations.
* `FunctionsAreApart`: `DefinitionsApart`, for programs that are `NoneAhead`. `ApartInvariant` keeps for the functions
  collected so far that each has a key of its own in the table; a second one is found by `lookup` and reported.
  `CarriersApart` is the fact about the text: no declaration is listed twice.
* `PlainUsesMeanTheSame`: `PlainUsesAgree`, for programs that are `NamesApart`; uses in programs with imports inside of
  namespaces are not plain, nor are reads inside of namespaces. Analysis looks for a name from the
  namespace of the use, in its scopes and in the table as it is when the body's module is analysed; the generator looks
  for it among full names and, from the module, in the table of all modules. `AgreeInvariant` says why they meet.
  The scopes of namespaces hold globals alone (`GlobalsIn`, kept by `GlobalsStep`), so a call goes past them (`TargetIs`). A
  symbol is where it was declared or in a module that imported it (`GroundedTable`, along the only ways the
  table changes, `Grown`). The functions of the modules collected so far are there under their own names
  (`HeldInOrder`), so that nothing further out is found in their place. What the table binds a use to `Leads`, from
  the module, to the same symbol, in every table that extends this one (`BoundGrounded`; `LeadsStays` and `FoundStays` are
  why a later module cannot take the name over, `FoundIsResolved` that the generator's search finds it). The tables of functions and
  globals hold the full names of the text (`Registered`). `CallAgrees` then goes through the
  candidates of `resolve_function_id` in their order, `ValueAgrees` through the cases of a value.
  `NamesApart` is: functions come with their bodies (`NoneAhead`), no module is in the namespace of another
  (`ModulesApart`), no two namespaces have the same last name (`SpacesNamedApart`), a type has no name that
  is in the path of a namespace, or of a type of the other kind (`TypesApart`), and structs stand outside of the
  namespaces in a module (`StructsOutside`). Without `SpacesNamedApart`, `TypesApart` and `StructsOutside` the code is seen to
  differ (section 3). 3,552 of the 3,940 programs of `MCNames` are `NamesApart`, and of the 237 in which code is generated for a
  plain use that analysis bound, 222.

**DeadStoresProofs**, for `Spec` of `DeadStores` (any body, of IRGen or not), under `CodesAssumption` (a body is a
sequence, and a pointer to a local comes from an instruction that takes its address):

* `LivenessSolved`: if there are no more blocks than iterations, `LiveIn` solves the equations of liveness,
  `LiveIn[b] = ScanBlock(b)` for every block. That `Sweep` works in place makes this harder than for a fixpoint in
  rounds. Each turn of a sweep only adds (`SweepRises`, by the monotonicity of the scan), and where the equations hold for
  a local an iteration changes nothing for it (`SettledStays`). So after *n* iterations a local is settled or is live
  before at least *n* blocks (`IterationsGrow`): an iteration that does not settle it adds a block, and blocks run out.
* `LivenessFollowsThePaths`: `DeadStoresInvariant` is inductive. `LiveBefore` is liveness at an instruction rather than
  a block; `LiveAlongPaths` says that what is live behind a step is live before it or was written by the step, whether the
  step stays in its block (`LiveBack`) or jumps (`OneBlock` and the equations). So the store that wrote a local last
  is not among the dead ones while the local is live.
* `DeadStoresAreUnread`: `DeadStoresUnread`, since a read makes its local live, and escaped locals lose no store. The run
  checks it of the code that `Lowering` produces, whose specification takes its bodies from `IRGen`.

**BackendProofs**, for `Spec` of `Backend`, under `RunsAssumption` (programs are sequences of functions, bodies
sequences of instructions of the IR):

* `ArmStackAligned`: the part of `StackAligned` about AArch64, at every instruction of every run of every program, whatever it
  does to memory. `ArmOnBoundary` is the inductive invariant: the stack pointer is an address on the stack, at
  an even word, and no instruction of the image but an adjustment by an even number writes it (`Keeps`).
  `ProgramKeeps` shows that for the code of every program, emitter by emitter, through the concatenations and the linker
  (`LinkKeeps`). The hypothesis `FramesFit` is needed: the emitter does not check the twelve bits for the size of a frame
  (aarch_64.cpp:49), and a larger one gives another instruction, of which nothing is known.

Values of recursive functions (`hidden`, the scope of a body, `FlattenSeq`) exist and have their types by the
lemmas `IterationExists` and `IterationType`, which are inductions by least counterexample (`LeastOf`).

**Only model-checked:** termination and other liveness properties, which need fairness; the modules with
recursive operators (`Parser`, `Syntax`, `IRGen`, `Statements`, `Lowering`, `Optimizer`), since the meaning of nested
programs is defined by recursion. Of `Backend`: the alignment of the stack on Windows, `FramesApart` and `CallersFrameKept`, which a program that
writes outside of its variables can break (the frame pointer and the return address are in memory it can reach),
so that no theorem about all programs can state them; and the refinement `ImplementsIR`.

## 5. What is not modelled

* Characters: the lexer, escapes, formatting, diagnostics' wording, command line, the IR dump.
* Paths: two spellings of one file are one key. `loaded_files` keys embedded files by
  name, so the same std file embedded and on disk would be two; this is not modelled.
* Embedded files that declare no module, which `build_module` reports (modules.cpp:224): those of the standard library
  all declare one. The runtime for formatting, which
  is loaded for every system but ZeroPoint (main.cpp:81-92), is one file, embedded or not.
* Types: convertibility, overload-free signatures, generics and their instantiation, interning, method calls
  through a value. Programs in `Names` and `FlowFacts` are taken to be well typed.
* Expressions in `IRGen` are opaque: the registers and the aggregates of `gen_expr` enter as programs of
  `IRPrograms` and `MCOptimizer`, written the way it makes them.
* Floats and string constants in the optimizer and behind it; the bytes of encodings, object files and
  relocations, which are tables and layouts; the Windows half of fasm and its import tables.
* Bytes: the copy in `heap_realloc` and the contents of blocks; on the machines, accesses of less than a word
  other than in casts.
* The library above the allocator: `std::vector` and `std::arena` are sequential and short (`free` of a vector
  keeps its size, vector.qu:57; an arena does not look at the result of `mmap`, arena.qu:62, nor does a
  region, isel.cpp:415); `string`, `format`, `io`, `types`, `math`, `cmp` are conversions and system calls.
* The driver behind the IR: output files, archives, the linker.

Read in the back ends and outside of what the programs reach: the range of `imm19` is masked and not checked
(aarch64_isel.cpp:919), the number of `open` becomes that of `openat` while the arguments stay those of `open` (aarch64_isel.cpp:356), two
names can be mangled to one (isel.cpp:76), an odd number of stack arguments leaves the stack misaligned on
Linux (isel.cpp:339), which the generated code itself does not notice.

## 6. Plan

1. `Names`: `FunctionsAreApart` and `PlainUsesMeanTheSame` for declarations ahead whose function is defined in
   the same namespace; the latter for modules in the namespace of another.
2. `Vector` on `Heap` (push, growth, free and reuse, failing realloc), `Arena`.
3. `Driver`: the phases behind the IR, object, archive and link files and what is left when one fails
   (`main.cpp`, `linker.cpp`, `options.cpp`).
4. Generics: the instances made so far, instantiated across functions and again by the IR generator.
5. `gen_expr`: registers and aggregates, with `IRMachine` as what its code means, which joins `Statements`,
   `IRGen`, `Optimizer` and `Backend` into one chain.
6. A refinement from "a program with its calls" to `Prune`.
