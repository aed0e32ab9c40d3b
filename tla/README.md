# Bunny-JIT in TLA+

Bunny-JIT is a small optimizing compiler library. A front-end builds a procedure
in SSA form by calling emitters of `bjit::Proc`; `compile()` optimizes it,
allocates registers and appends machine code to a byte vector; `bjit::Module`
keeps the code of many procedures, loads it into executable memory and patches
it there. Nothing is concurrent. What is hard to test is of another kind: passes
that iterate until nothing changes over arbitrary control flow graphs, counts and
sets that are kept up to date incrementally or recycled as scratch space, and
client protocols (compile, patch, load, unload in any order) in which a mistake
shows only long after it was made.

All paths are relative to `src/`, the repository. The modules say in comments
which function they model; `PROJECT.json` has the lines of every definition.

## 1. Inventory

| component | source | state | operations | modelled by |
|---|---|---|---|---|
| Code module | `src/module.cpp`, `src/bjit.h` 700-892, near calls of `src/arch-x64-emit.cpp` | `bytes`, `offsets`, `nearReloc`, `stubs`, two queues of patches, the mapped block and its sizes | `compile`, `compileStub`, `patchStub`, `patchCalls`, `patchCallsIn`, `load`, `patch`, `unload` | `CodeModule`, `LinkSpec`, `CodeModuleRefinement`, `CodeModuleProofs` |
| Hash table of CSE | `src/hash.h` | `slots`, `nUsed` | `insert`, `find`, `remove`, `clear`, `reserve`, `rehash`, and the resizes these cause | `HashTable`, `ItemMap`, `HashTableProofs` |
| Front-end interface | `src/bjit.h` 40-420, 553-576 | `ops`, `blocks`, `env`, `currentBlock` | constructor, `newLabel`, `emitLabel`, jumps, returns, calls, emitters | `ProcBuild` (one emitter per class) |
| Opcode table, IR | `src/ir-ops.h`, `src/ir-ops.cpp`, `src/bjit-impl.h` | `Op`, `Block`, alternatives of phis | predicates on opcodes | `IR`, with an interpreter |
| Dead code elimination, jump threading | `src/opt-dce.cpp` 1-400 | use counts, `Phi::tmp`, live flags | one call, many rounds | `Dce`, `DceProofs` |
| Live values | `src/opt-dce.cpp` 402-493 | `livein`, use counts as scratch | one call, many sweeps | `Livein`, `LiveinProofs` |
| Control flow graph, dominators | `src/opt-dom.cpp` | `live`, `comeFrom`, `dom`, `idom`, `pdom` | `rebuild_cfg`, `rebuild_dom` | `Dominators`, `DominatorsProofs` |
| Control flow optimizations | `src/opt-jump.cpp`, `breakEdge` and `opt()` in `src/bjit.h` | blocks, labels, phis | `opt_jump`, `opt_jump_be`, `breakEdge`, `find_ivs` | `LoopOpt`, `find_ivs` in `StackClasses` |
| Sinking | `src/opt-sink.cpp` | code of blocks | `opt_sink` | `Sink` |
| Constant folding | `src/opt-fold.cpp` | ops, the map of renames | `opt_fold` | `OpValues`, `Fold`, `Simplify`, `SimplifyProofs` |
| Reassociation | `src/opt-reassoc.cpp` | the same | `opt_reassoc` | `Reassoc`, `Simplify`, `SimplifyProofs` |
| CSE and hoisting | `src/opt-cse.cpp` | memory tags, the table of expressions, pairs, positions | `rebuild_memtags`, `opt_cse` | `MemTags`, `MemTagsProofs`, `Cse` |
| Register allocation | `src/opt-ra.cpp` | registers, classes and slots, added blocks and moves | `allocRegs`, `findSCC`, `findUsedRegs` | `StackClasses`, `BlockAlloc`, `RegAlloc`, `Emit` |
| Sanity checks | `src/sanity.cpp` | none | asserts | its assertions are properties of `Dce`, `Livein`, `Sink` and `RegAlloc` |
| Code generation, x64 | `src/arch-x64*` | output bytes, relocations | `arch_emit`, constraints on registers, the assembler | operations and the assembler in `X64Asm`, `X64Machine`, `X64Select`; frame, layout and jumps in `Emit`, near calls and stubs in `CodeModule` |
| Code generation, arm64 | `src/arch-arm64*` | the same | the same | not modelled |
| Debug output | `src/debug.cpp` | none | printing | not modelled |
| Example front-end: lexer | `front/front-lexer.*` | position, current token | `lex` | planned |
| Example front-end: parser, scopes | `front/front-parse.*`, `front-ast.h`, `bjit.cpp` | token, scopes, `env` | parsing, code generation | planned |
| Tests, build files | `tests`, `Makefile`, `run-tests.sh`, `win` | | | not part of the program |

How they interact: everything is a call in one thread. `compile()` runs `opt()`,
which repeats DCE, folding, reassociation, CSE, sinking and the jump passes while
any of them reports progress; each pass rebuilds the control flow graph, the
dominators, the live values or the memory tags it needs in the shared `ops` and
`blocks`. The contract between the passes is what `sanity()` asserts: it is
checked "after each DCE pass". Between `Proc` and `Module` the contract is the
list of near relocations and the byte vector.

What makes each of them correct, and where it bites, is the list of hazards in
`PROJECT.json`. In short:

* Code module: in any order of calls, with system calls that fail, every call in
  executable memory reaches the procedure the client last sent it to; code is
  never writable and executable, never written outside the block.
* Hash table: it is a map; probing always ends; resizing always ends.
* DCE: it ends, keeps the meaning of the procedure, leaves exact use counts and
  nothing dead, and what `sanity()` asserts.
* Live values, dominators, memory tags: iterations that end with exactly what
  their definitions by paths say.
* Common subexpressions: what is moved or shared still computes what it did, for
  loads too, wherever the passes before left it; what the pass knows of positions
  and dominators is from before its own changes.
* Loop inversion, merging, sinking: they end, although they alternate with DCE
  and undo some of each other's work; they keep the meaning and add no work to a
  path, while working on dominators and live values from before their changes.
* Folding and reassociation: they keep the value of every operation for every
  argument, agree on a normal form (or they would alternate for ever), and do not
  change an operation that has another user.
* Register allocation: whatever has to be moved, stored, loaded back or computed
  again, every operation finds its operands.
* Layout: whichever blocks are looked through, moved, or reached without a jump,
  control arrives where the procedure says; every way out restores the caller's
  registers and stack.
* Instruction selection: whatever registers the allocator chooses among those it
  was told, every instruction encodes the registers, offsets and constants it
  should, and nothing is overwritten that is still needed.

## 2. The modules

### Code module: `CodeModule`, `LinkSpec`, `CodeModuleRefinement`

One action per public method; `patch()` and `unload()`, which work through
queues, have one action per entry of a queue (`patchNextStub`, `patchNextNear`,
`unloadNextNear`) so that what holds in the middle can be stated. `pc` tells
whether the client runs or one of these two; "asserted" and "faulted" are ends of
the process. The byte vector is its size and the places of its near-call fields;
a loaded field is its displacement, an integer that is incremented as
`arch_patchNear` does it and never set. `load()` has three outcomes, with `mmap`
or `mprotect` failing. The preconditions of linking (every index is a procedure
by then) are those the code asserts (`assertFails`) or relies on.

`LinkSpec` is the promise to the client: a program of calls and stubs that can be
edited at any time, and executable code that equals the program as of the last
load or patch. `CodeModuleRefinement` maps to it: the program's target of a call
is its relocation after all pending patches are applied in order, the live target
is the procedure at the address the displacement in memory reaches.

### Hash table: `HashTable`, `ItemMap`

Every operation of the table. `resize()` reinserts with `insert()`, which can
resize again: the vectors of nested resizes are one sequence `todo`, one item of
which is reinserted per step, and a vector lists the items of a table in the order
of their slots (`ItemsOf`). Hash functions are constants; sizes are powers of two
(`TableSizes`), as the masks of the code need. `ItemMap` is a plain
map; the table implements it with its items and those waiting in `todo`.

### Procedures: `IR`, `ProcBuild`, `Dce`, `Livein`

`IR` has opcodes (one per class that the passes tell apart), operations, blocks,
and what a procedure means: `Outcome` runs one on an argument and returns its
result, the calls it made and the memory they saw. `ProcBuild` has the emitters
as actions that consume a script of front-end calls, so that every procedure a
pass starts from is one that the public interface makes; assertions of the
emitters are guards, and a script that breaks one is a deadlock TLC reports.
`ScriptsAssumption` says that scripts are sequences of `Calls`, which have the
arguments that the emitters' signatures ask for.

`Dce` composes with it: after the script, `compile` starts the pass. A step is
one operation of the walk (`visit`), one turn of the threading loop (`thread`,
`follow`), or one block of the phases that follow (`phiUses`, `rename`, `sweep`).
`Livein` continues where `Dce` ends, with `rebuild_cfg` and `rebuild_livein`, a
block per step; the modules below run it where the code calls `rebuild_livein`.
`LiveinReady` is what it relies on: the procedure has the shape that `sanity()`
checks, whichever passes have run before.

### The loop of `opt()`: `LoopOpt`, `Cse`, `Sink`

`LoopOpt` is `opt_jump` between the rounds of dead code elimination it alternates
with. One call scans the live blocks and ends with its first change: two blocks
merged (`merge`), labels swapped (`swapLabels`), a loop of one block given a
preheader (`selfLoop`) or a back edge replaced by a copy of the block at the head
of the loop (`backEdge`, `opt_jump_be`). `breakEdge` and what it does to
immediate dominators is an operator; `RebuildDom` computes dominators in one
step, by paths, which is what `Dominators` shows of the sweeps.

`Cse` is `opt_cse` in the loop of `opt()`, which repeats dead code elimination,
`opt_cse` and `opt_jump` until neither of these two has made progress. A step is
one block to hoist from (`hoistBlock`: how far up the dominators an operation
goes is `Climb`, the edges it breaks on the way `BreakEdge`, the way back through
the block it comes to `MoveTo`), one operation on a phi that may be known on some
edges (`checkPre`), one round over the pairs (`csePairs`), and the renames. The
table of expressions is the map that `HashTable` is shown to implement; the order
of a scan over it is that of hashes, so `checkPre` takes its operations in any
order. The pass indexes operations by positions that are true after dead code
elimination and are not kept up everywhere. The model has them as the code leaves
them: where an assertion looks at a wrong one the run ends as "asserted", where
the code reads outside of an array (an empty place used as an index, the list of
live blocks that grew while a loop over it runs) it may end as "faulted", which
is a deadlock. `Sink` adds `opt_sink`, a block per step, and the end of `opt()`.

### Values: `OpValues`, `Fold`, `Reassoc`, `Simplify`

`OpValues` says what the operations compute, on words of `WordBits` bits with
immediates of `ImmBits` bits (64 and 32 in the code). `Fold` has the rules of
`opt_fold` in the order of the code, each an operator on the state of the pass
that says what it rewrites and whether the pass goes on with the next rule; the
use counts are those of the last DCE, as in the code, and renames are applied
when a later operation is visited. `Reassoc` has those of `opt_reassoc`.
`Simplify` alternates them as `opt()` does, one operation per step. Procedures
are chains of blocks here: what the two passes know about control flow is which
operation dominates which. Each is a sequence of operations that have the operands
their opcodes ask for (`nInputs`), all computed before (`ProcsAssumption`); TLC
checks this of the procedures it is given.

### Registers and layout: `StackClasses`, `BlockAlloc`, `RegAlloc`, `Emit`

The allocator in three parts, run after `Dce` and `Livein` on what the front-end
wrote, as `compile()` does at level 0. `StackClasses`: `findSCC` puts values into
classes that share a stack slot, adds renames where a phi cannot have the class
of its value, and breaks critical edges. `BlockAlloc`: phis for everything that
is live into a block, then one block per step; within the block every decision
of `allocRegs` is an operator (`PlaceInput` for an operand, `findBest` for the
choice of a register, `Save`, `Clobber` for what an operation destroys, `Reload`
with `CanRemat`, `Define`). `RegAlloc`: the parallel moves at the ends of blocks
(`jumpShuffle`), the blocks added on edges, the moving of spills, the clean-up;
and a machine with registers and slots that runs the result. The final code of
the model, registers, slots and order of operations, agreed with what the
library makes of the same procedures, built with three and with four general
registers, for all procedures of `MCRegAlloc` and about a thousand others.

`Emit` goes on with `arch_emit`, one block per step: which registers are saved
(`usedRegs`, `savedRegs`), the padding that keeps the stack aligned
(`FrameOffset`), the order of blocks (`todo`, `codeDone`, `scheduleBlock`), the
jumps that are left out, turned around or looked through (`doJump`, `Swaps`,
`threadJump`), and the relocation of the others. Code is a sequence of items there
and the machine gets a stack: it starts as a caller leaves it, runs the code with
its pushes, pops and relative jumps, and stops when the caller's registers are not
restored or a call finds the stack unaligned.

The constant `Uninitialized` holds the values the immediate dominator of a new
block may have before anyone computes it, which the constructor of `impl::Block`
leaves open; `{0}` is the case in which it matches no block.

### Instructions: `X64Asm`, `X64Machine`, `X64Select`

`X64Asm` is the assembler. An instruction is a record of its fields (prefixes,
three-bit register fields and the bits that extend them, SIB byte, displacement,
immediate), so that what depends on the encoding is there: which bases need an
offset or a SIB byte, which byte registers need a prefix, which immediates fit.
Each instruction takes one unit of code, a constant as many as it has words of 32
bits; the pools of constants, what is shared in them, their alignment and the
relocation of their users are as in the code. Bytes are not counted: the length of
an instruction matters to nothing but displacements, which are counted in units.

`X64Select` has the switch of `emitOp`, a group of operations per operator, and
`regsIn`, `regsOut` and `regsLost`. A program is straight code whose operations
have registers already; `Assigned` admits those the allocator may choose. A step
emits one operation with the store of its result to a slot (`Spilled`), the last
one places the constants. `X64Machine` decodes the records and runs them, with a
stack pointer, memory, xmm registers and flags that are undefined after whatever
destroys them; it is external and has only what the code relies on. `CodeComputes`
runs the operations and the instructions side by side on every input. Programs in
which an operation gets a value of another type or a register destroyed by a
division mean nothing and are not compared.

### Graphs: `Dominators`, `MemTags`

`Dominators` is `rebuild_cfg` and `rebuild_dom` over abstract graphs (a block is
the labels it ends with), one block of a sweep per step; definitions by paths
are the reference. `MemTags` goes on with `rebuild_memtags`, as `opt_cse` does.
`Cfgs` enumerates graphs for the run.

## 3. What the runs show

| run | states | shows |
|---|---|---|
| `code_module` | 492,238 | the safety properties of the code module (`QueuesOnlyWhileLoaded`, which is only proved, apart), and that it implements `LinkSpec` |
| `hash_table` | 44,626 | the table is a map, probes and resizes end |
| `dce` | 151,504 | DCE ends and is correct on the programs of `MCScripts` |
| `graphs` | 391,181 | dominators and post-dominators are exact, equal memory tags mean equal memory |
| `opt` | 166,426 | DCE, CSE, hoisting, merging, loop inversion and sinking keep the meaning, add no work, end; procedures are well formed wherever live values are found, and live sets exact |
| `simplify` | 240,826 | folding and reassociation keep the meaning, end, leave nothing to fold |
| `regalloc` | 166,277 | the allocated code, and that code laid out with its frame and jumps, does what the procedure does; no assertion fails; both end |
| `select` | 78,131 | the instructions of 21,447 programs compute what their operations say |
| `cse_load`, `sink_load`, `fold_renamed`, `regalloc_phis` | | findings 1 to 4 |

Findings, each a run that TLC refutes. A program built with the library fails in
the same way in every case.

1. `cse_load`: a load hoisted out of a loop is moved past operations without side
   effects, and a jump is not one (`opt-cse.cpp:210`): it stays behind the jump of
   the block it goes to and is removed as dead code. `do w = [v]; while(v)` then
   returns something else, or `compile()` throws, at levels 1 and 2.
2. `sink_load`: a load is sunk past the store that follows it (`opt-sink.cpp:68`):
   `x = [v]; [v] = v; return v ? x : v` gives the new value of the cell at levels
   1 and 2.
3. `fold_renamed`: a sum is rewritten in place although it has got a second user,
   because renaming does not count uses (`opt-fold.cpp:707`). With
   `y = -(a + 1)`, `(-y << n) * y` is wrong at levels 1 and 2.
4. `regalloc_phis`: two phis of a block come in in one register
   (`opt-ra.cpp:393`).

More that TLC refutes, each with the configuration of a passing run in which the
procedures are others and one property is left. The procedures are at the end of
the MC modules, as the passing runs leave them out.

* `Dce.cfg` with `Scripts <- DeadMergeScripts`, `DefsDominateUses`: jump threading
  goes around a merge block whose phi is still used, when a phi of the next block
  was replaced by it in the previous round (`opt-dce.cpp:110`). It takes a merge
  block with dead code, followed by a label. `compile()` fails with an internal
  error.
* `Dce.cfg` with `Scripts <- SelfLoopScripts`, `DceTerminates`: `if(x) for(;;);`
  makes threading loop for ever (`opt-dce.cpp:65`); `compile()` does not come back.
* `Sink.cfg` with `Scripts <- EdgeHoistScripts`, `NotRefused`: when an operation is
  hoisted to an edge that had to be broken, the jump of the new block has no
  position yet, and an assertion that it has fails (`opt-cse.cpp:224`). `compile()`
  of a `while` whose body computes something that does not change ends in an
  internal error, at levels 1 and 2.
* `Sink.cfg` with `Scripts <- PhiSlotScripts`, `OptSameMeaning`: a value known on
  some edges becomes a phi, which the block does not count among its own and whose
  index stays 0 (`opt-cse.cpp:359`); dead code elimination takes it for the first
  phi of the block.
* `Sink.cfg` with `Scripts <- LoopBreakScripts`, `OptSane`:
  `while(v) { if(w) break; w = v + w; }`. Loop inversion gives the exit phis with
  values from the head of the loop and from its copy, as it is immediately dominated
  by the head; but its predecessors are others (`opt-jump.cpp:146`). An assertion of
  `sanity()` fails.
* `Simplify.cfg` with `Procs <- DivideProcs`, `MeaningKept`: division and remainder
  of unsigned numbers by a constant power of two take the shift from `imm32`, which
  lies over the wrong half of the constant (`opt-fold.cpp:632`): 100 / 4 is 25 at
  level 0 and 100 at levels 1 and 2.
* `Simplify.cfg` with `Procs <- ZeroTestProcs`, `OperandKept`: a comparison with zero
  is fused into the jump on it, and the jump then becomes `jz` or `jnz` and loses
  what it tests (`opt-fold.cpp:324`). `jz` on `ieq(x, lci(0))` makes `compile()` read
  outside of the operations and crash at levels 1 and 2.
* `Simplify.cfg` with `Procs <- StackProcs`, `MeaningKept`: the rule for `0 - a` tests
  the wrong operand for zero (`opt-fold.cpp:164`), and reads the numbers of its
  inputs: `C - a` becomes `-a` for any constant `C` if `a` is an operation on the
  stack block, which is value 0, and the stack block. `5 - s / s` is 4 at level 0
  and -1 at levels 1 and 2.
* `RegAlloc.cfg` with `Scripts <- IfScripts`, `Uninitialized = {0, 1}`, `AllocSane`:
  at level 0 `breakEdge` looks at dominators that have never been computed
  (`bjit.h:527`); an `if` without `else` ends in a segmentation fault, depending on
  what was in memory before.
* `RegAlloc.cfg` with `Scripts <- LoadScripts`, `ArgReg = 3`,
  `CallerSaved = {1, 2, 3}`, `AllocKeepsMeaning`: a load is done again after a store
  instead of being kept (`opt-ra.cpp:759` leaves the loop before it counts the store).
* `Select.cfg` with `Programs <- NumberTests`: the condition of a floating-point
  comparison whose result is a value is looked up at the distance from `jmp` instead
  of from the first comparison (`arch-x64-emit.cpp:431`): another condition, or an
  assertion. With `Programs <- StackIndex`: `iadd` takes the stack pointer as its
  second operand too (`arch-x64-ops.cpp:131`); as the index of LEA that number means
  none.
* `CodeModule.cfg`, `LoadSurvivesSystemErrors`: `module.cpp:53` tests the result of
  `mmap` for null, but failure is `MAP_FAILED`; `load()` goes on to copy to it.

### Bounds

* `MaxProcs = 2`, `MaxPending = 2`: a caller and a callee, calls to itself and
  forward, a second procedure that was compiled before or after loading, two
  requests whose order matters (redirect there and back). `MinSizes = {0, 30}`:
  a block exactly as large as its code, which refuses to grow, and one with room.
* `MaxSlots = 16`: two doublings from the initial table; four keys, three of which
  start at the same slot and two of which share every probe. Nested resizes
  happen when `rehash(true)` shrinks a table too far.
* `dce`: eight control flow shapes (if, if in if, else-if, loop, loop in loop, loop
  with two exits, early return, join before a label), each with 48 fillings of
  three places: nothing, copies and swaps of variables (which are what phis and
  threading are about), a trapping operation, memory, a call. Both values of
  `unsafeOpt`. Procedures run on the arguments 0 to 2 for at most `Fuel = 12`
  blocks (a multiple of it after a pass that adds blocks); runs that have not
  ended by then are not compared. Left out, because the pass is wrong with them:
  dead code in a merge block that jumps to a label, empty infinite loops, and
  conditional jumps whose labels are the same from the start.
* `opt`: five shapes (if/else, while, loop in loop, a return inside a loop, do
  while) with 24 fillings, loads and stores among them, and 54 procedures that
  compute the same on several ways and again where these meet, which are what
  pairs and phis of partial redundancies are made of; both levels. Of the 332
  starts 16 end in the assertion at `opt-cse.cpp:224`, the others in the end of `opt()`.
  Left out: a `break` out of a loop, a load followed by a store in a block that
  branches, a load that does not change in a do-while loop, and two phis with one
  index.
* `graphs`: all graphs of up to four blocks and 350 of five. Five are needed for
  an edge back to a block that a sweep got wrong, which takes a third sweep. Four
  have nested and crossing loops, merges of merges, and loops without exit. Every
  placement of side effects.
* `simplify`: eleven thousand procedures of two to six operations, in families that
  reach every rule of `Fold` but `JumpOnZero`, every rule of `Reassoc`, and their
  combinations: operations on the result of another, sums of sums, tests, jumps that
  are fused with the test and jumps whose test is used otherwise, divisions,
  addresses, floating point. A rule of `Reassoc` that several opcodes share is not
  reached with all of them: `JoinB` is with `isub` and `ddiv` inside, as for one
  associative operation the rules before it leave it nothing. Words of 8 bits and
  immediates of 4, so that constants do and do not fit an immediate, and sums and
  shifts overflow. Arguments at the edges of the range. Left out: what the findings
  are about (unsigned division by constant powers of two; sums that get a second
  user by renaming; a constant other than zero, less what is computed from the stack
  block alone; jumps on a comparison with constant zero for (in)equality, unless it
  has become another test by then); shifts by a negative constant; the division of
  the least number by -1; NaN and signed zeros.
* `regalloc`: three general registers and three variables: with one more value
  something has to go to memory. The third register has to be saved, a call
  destroys the others; the argument comes in in the first, which the result leaves
  in; division takes the first two. Frames have an even and an odd number of words.
  324 procedures with an if, loops, loops in loops and a break, in which variables
  are turned around, swapped or duplicated where control meets. Left out: the
  procedures of the findings; a load after which something is stored.
* `select`: words of 16 bits, and 8, 6 and 4 bits for what has 32, 16 and 8 in the
  code, so that immediates and offsets at the edge of each form are a handful.
  Every operation alone with general registers of each kind of encoding (rax; the
  fixed ones rcx and rdx; rbp and r13, r12, which are special as a base; rsi, whose
  byte needs a prefix) in all combinations, and xmm registers below and above 8;
  stores and loads of all widths through all kinds of addresses; three constants
  of any size in a row; values spilled and loaded back. Two inputs: small numbers
  with equal ones and zero, and large ones. Left out: comparisons of floats as
  values and the stack pointer as an index (see above); jumps on unsigned or
  single-precision comparisons, for which `regsIn` has no entry, and floating-point
  loads from the sum of two registers, whose addresses it wants in xmm registers;
  `lcf`, whose test for zero is inverted (`arch-x64-emit.cpp:946`), and bit casts,
  which are assembled in the wrong direction (line 1092); NaN.

Deadlock is checked except in the runs of `CodeModule`, where the process may
end ("asserted", "faulted") and the bounds may leave nothing to do.

### Fairness

The compiler is one thread that never waits: weak fairness of its own next step
says only that the program is not stopped. `FairSpec` of `Dce` and `TagsSpec`
write it as WF. `OptSpec`, `EmitSpec` and `Spec` of `Simplify` write it without
ENABLED, as "done again and again, or a step again and again": the same thing as
long as there is no deadlock, which their runs check, and much cheaper, as
ENABLED would evaluate a whole pass a second time. The hash table is fair in
`reinsert`, the loop of `resize()`, and not in the operations of its client.
`CodeModule` has no liveness properties and no fairness: its client need not do
anything.

## 4. What is proved

TLAPS checks these for all values of the constants that satisfy the named
assumptions next to the constants: well-formed programs and graphs, finite sets
of blocks, natural bounds, hash functions to natural numbers, no jump to the
entry of a procedure (there is no label for it), scripts of front-end calls with
the arguments that signatures ask for, procedures whose operations have the
operands their opcodes ask for. Each invariant was checked by
TLC before it was proved. Two theorems have a hypothesis. `LiveValuesFound` assumes
`LiveinReady`, a conjunct of `OptSane`, which a run checks. `OperandsAndUses` assumes
that one rule of `opt_fold`, which is wrong for the jumps that it is written for
(`LosesOperand`, see under the findings), is never applied; the procedures of the run `simplify`
do not reach it.

| Module | Theorem | It states |
|---|---|---|
| `CodeModuleProofs` | several, below | `LinkedCalls`, `LoadedImage`, `BlockHoldsCode`, `QueuesOnlyWhileLoaded`, `ClientSeesExecutable`, `ExecutableNotWritten`, `StubsCoherent`, type correctness |
| | `ImplementsLinkSpec` | `Refines`: the module implements `LinkSpec` |
| | `RequestsDecideTargets` | `CallsFollowRequests`: a call gets another target when a request names it, and only then |
| `HashTableProofs` | `EveryItemIsFound`, `ProbesEnd`, `TableIsMap` | `StoredIsFound`, `ProbeSucceeds`, `ImplementsMap` |
| `DominatorsProofs` | `SizesTellChange`, `SolvesEquations`, `NoSolutionLost` | `SweepShrinks`, `DomSolved`, and that the solution is the largest |
| | `DominatorsFound`, `DominatorsAreATree`, `ImmediatePostDominators` | `DomCorrect`, `IdomOrdersDom`, `PdomCorrect`: the result against definitions by paths |
| `MemTagsProofs` | `TagsNameMemory`, `SharedTagAtDominator` | `SameTagSameMemory`, `CommonTagAtDominator` |
| `LiveinProofs` | `LiveValuesFound` | `LiveinCorrect`, in every execution of `opt()` that has `LiveinReady` |
| `DceProofs` | `UsesAreCounted` | `UseCountsExact`: exact use counts, for every procedure the emitters make |
| `SimplifyProofs` | `OperandsAndUses` | `SimplifySane`: operands and use counts in folding and reassociation, for every procedure, unless a jump has lost its operand |

### Induction without operators: `SetInduction`

The induction theorems of the library take a predicate as a parameter, which the
provers cannot instantiate. `SetInduction` states what the proofs need with sets
instead: a set of numbers that is not empty has a least one (`LeastNumber`, from
the strict subsets of a finite set being well-founded); a set that has 0 and with
each number the next has all of them (`SetOfAllNumbers`); a recursion whose step is
given as a function has a solution (`RecursionExists`); its values have the type
that each step keeps (`RecursionTyped`), and what each step keeps the last value
has (`RecursionKeeps`). Queues folded patch by
patch, blocks reached edge by edge and powers of two are such recursions. Subsets of
a finite set that only grow are complete after as many steps as it has elements
(`GrowingStops`), and stay within what the steps do not leave (`GrowingStays`).

### Code module: `CodeModuleProofs`

`LinkedCalls` alone is not inductive. A near patch moves a
call by the difference of two offsets, so both ends must be procedures when it is
applied (`PatchesLinkable`, which holds at the start of `patch()` and while it
runs); relocations change while nothing is loaded and during `unload()`, so no
loaded field may be left then (`ImageNeedsBlock`); new code must not collide with
the fields of old code (`Layout`, `StubsInside`). `IInv` is their conjunction with
`TypeOK` and `LoadedImage`, one lemma per action. `StubsCoherent` needs more:
stubs that have no copy in memory yet may have patches waiting, and `patch()`
copies them before it applies those, so `StubInv` asks of every stub that the last
patch waiting for it sets the address it has in `bytes`; that a queue keeps this
when a patch joins or leaves it are lemmas of their own.

`LinkSpec` is implemented step by step (`NextLinks`). The program's target of a
call is its relocation after the queue of patches, a fold: lemmas say what the fold
does when a patch joins the queue (`AppliedAppend`), leaves it (`AppliedTail`), or
when code is added behind all of them (`AppliedExtends`). So the request of a patch
is the step that changes the program, and its application later changes what runs
and nothing of the program. `LinkInv`, that offsets are distinct, makes the
procedure that a displacement reaches unique.

`BlockHoldsCode` says what is written and where: sizes (`SizesFit`), stubs with the
patches that `patch()` has not come to yet (`StubsFit`), and that what is written
to is a block of `mmap` (`Mapped`). The last has an exception, and the theorem
states it: `load()` of code after a failed `mmap` writes to `MAP_FAILED`, and the
process is over. `CallsFollowRequests` needs, besides the lemmas on folds, that a
request waits with a range that ends in the code of its time (`RequestsInside`):
a field that is compiled later is in none of them (`CompiledAsAsked`).

### Hash table: `HashTableProofs`

`HashInv` is `LoadInv` (keys are unique, no free slot is met on the way from the
hash of an item to the item, and the table is not crowded by `nUsed`, which is never
less than the slots in use, so that one is always spare) with `TodoInv` (the items waiting in
nested resizes are no keys of the table nor of each other). `remove()` leaves a
mark, so the slots on the way to other items stay taken, and `insert()` reuses a
mark only after it has looked for the key.
A probe adds a triangular number times an odd step; in a table whose size is a
power of two no two probes of one round meet (`ProbeInjective`: the product of an
odd number and the difference of two triangular numbers), so a round meets every
slot (`ProbeSurjective`), in particular a spare one. The state function `Contents`,
stored and waiting items, then is a map: each step is one of `ItemMap` or none.

### Dominators: `DominatorsProofs`

The invariant `Above` says a set never falls
below what a step would make of it, so a step can only shrink it (the operator
that intersects is monotone), so equal size means equal set (`SameSize`, from the
cardinality of finite sets); `Swept` says that in a sweep that has changed nothing
the blocks already visited are solved, which at the end of the sweep is all of
them. Hence the sets are the largest solution of the equations of dominance.

That this is dominance by paths takes an induction on paths, done once: the blocks
reached are the least set that no edge leaves (`ReachClosed`, `ReachLeast`), and all
that follows is inclusions between such sets. `DomChain`, that the dominators of a
block are ordered, makes the one with one dominator less the closest
(`ImmediateFacts`), which is how the code finds it; `PdomChain` does the same for
post-dominators of blocks that reach an exit, the others being left with the
initial set. `GraphInv` ties `live`, `comeFrom`, `pdom` and `idom` to the graph through
the three phases.

### Memory tags: `MemTagsProofs`

`TagsInv` has, of the iteration, that the tag of a side effect is met only in
blocks discovered after its own (`EffectsBefore`), so that a tag out of a block is
that of its last side effect or the one that came in and never one mistaken for the
other; and that a round which has changed nothing has left merged tags behind it
(`TagsSwept`). In the solution a tag comes in from every point before one that has
it, except where it is made (`TagComesIn`), so the point where it is made dominates
all that have it (`TagMadeBefore`). A path from one load to another that loses the
tag and finds it again has been there; but paths from the entry get there without
the first load, which is then not on every path to the second.
`CommonTagAtDominator` adds that closest common dominators exist (`ClosestExists`).

### Live values: `LiveinProofs`

A value is live into the blocks of the least set that has its uses and, with a
block, its sources, but for the block that computes it (`LiveIntoIsLeast`).
Counting uses backwards through a block finds the values that it asks for, `Flow`:
those it uses or that are live into its targets, computed elsewhere (`FoundIsFlow`).
That takes counters which are zero at the start, and definitions that come before
uses: else the count, which starts again at a definition, would be lost or left
over. The invariant `LiveinInv` says, between blocks, that the counters are zero
(`Cleared`), that each set is below its `Flow` and has live values only (`Sound`),
and that in a round which has changed nothing the blocks already done have all of
their `Flow` (`Settled`); sets can only grow, so one of equal size is the same. In
the end the sets solve the equations, and are therefore above the least solution;
they never were above it.

The theorem is about the specification of all of `opt()`, in which `liveinBlock` is
one action of many. Its hypothesis `[]LiveinReady` is that the other passes leave a
procedure with the part of `sanity()` that this one relies on. That they do is only
model-checked, and not so for all procedures: with `DeadMergeScripts`, the first case
under the findings, a use is left without its definition and `LiveinReady` fails too.

### Use counts: `DceProofs`

The pass counts uses again in every round, and the counts it leaves are those of
the last one, which has changed nothing. `UseCountsExact` asks that they are then
the uses that the procedure has, by operations and by alternatives of phis. Three
things could make them wrong, and `DceInv` has a part for each.

* Only the operations of blocks that were live before a round are set to zero. So no
  block may come back to life: `LiveInv` says that live blocks are listed once and,
  at the end of a round, closed under jumps. What the round finds live is then
  among them.
* The walk counts a block when it comes to it, and threads jumps meanwhile, after
  it has counted the inputs of the one it threads. `WalkCounts` says that in a round
  that has changed nothing so far the counts are the uses by the operations that the
  walk has passed, those of some set of blocks being all that was set to zero.
* Alternatives count only for phis that will not be renamed, and are not counted
  again when the others are. In a round that changes nothing there are none of
  these: a phi with another name has no uses after `rename`, so `sweep` would have
  removed it, which is progress (`PhisStay`). `PhaseInv` carries this through the
  phases block by block: what is counted (`CountedTo`), that no alternative is left
  for a removed phi (`Cleaned`), that nothing uses a renamed one (`Unrenamed`), and
  that what stays is used or has effects (`Needed`).

All of it needs the shape of the procedure (`ProcOk`: operations know their block
and have as many inputs as their opcode asks for, labels are blocks, nothing that
uses a value stands before a phi, alternatives are for phis of their block). The
emitters establish this, with one more invariant while they run (`FrontInv`), one
lemma per emitter (`BuildKeeps`), and every step of the pass keeps it (`NextKeeps`,
one lemma per action). What the recursive functions of a step do to sequences are lemmas too:
`KeepElements`, `SweptFacts`, `PatchedElements`. `CountsExact` then adds the uses
block by block, where the property counts them in one set (`SameNumber`).

The theorem is about `Dce`, the pass on what the front-end makes. Of the later rounds
within `opt()` the runs of `Sink` and the next theorem speak.

### Operands and uses: `SimplifyProofs`

About forty rules rewrite operations in place, and a wrong one would show in an
operand that is computed after its use or no longer computed at all, or in a use
that is not counted: reassociation rewrites an operand because nUse says nobody
else has it. `SimplifySane` excludes both at the end of every round. It is not
inductive, for two reasons.

* Within a round of `opt_fold` an operation can be a nop that later ones still use:
  it was renamed, and they get the new name when they are visited. `FoldOk` says
  that what the pass has visited has operands that are computed (`ComputedTo`) and
  the rest will have, once renamed (`RenamedAfter`); a new name may be renamed
  itself in a later round, which the order of the renames takes care of. At the end of a round
  nothing is left to rename (`RoundEnds`).
* `opt_fold` does not keep the counts up: they are exact only as long as it has
  changed nothing since the last clean-up (`FoldInv`), and it gives way to
  reassociation only then, or after one more clean-up. What that clean-up leaves is
  exact by `PruneCleans`: going backwards, it removes only what nothing that stays
  uses, and counts what stays (`Visited`).

Each rule has its lemma. `After` is what a rule of `opt_fold` leaves: the part above,
and no change of any uses without progress, for some rules swap operands and report
none; a new operand must be one that the operation
may use (`Ready`). `Keeps` is what a rule of `opt_reassoc` leaves: everything, as
reassociation counts the uses it changes. The rules move operands between an
operation and its first or second operand: the uses of the two together stay, or are
counted anew (`Cancel`), and an operand that is rewritten in place has no other user
(`SoleUseOnce`, from the exact counts). What the rewritten operand gets must be
computed before it. Most rules ask `firstOpDominates`. Those that exchange operands of
two sums or move a constant outwards do not: they rely on the second operand not being
computed after the first, as `Reorder` has left it (`InOrder`), and on no rule in
between undoing that (`KeepsOrder`).

The hypothesis `[]~LosesOperand` is there because "simplify jieqI/jineI into jz/jnz
when possible" (`opt-fold.cpp:321`) overwrites the operand of the comparison,
`in[0] = noVal`, and leaves a jump on nothing. The theorem says that it is the only
rule of the two passes that can do harm of this kind.

### Only model-checked

* Liveness: `ResizeTerminates`, `TagsTerminate`, `DceTerminates`, `OptTerminates`,
  `SimplifyTerminates`, `EmitTerminates`. They need fairness and `ENABLED`, which the
  provers do not have.
* What the passes over procedures (`Dce`, `LoopOpt`, `Cse`, `Sink`, `Simplify`,
  `RegAlloc`, `Emit`) and the instructions of `X64Select` keep: `SameMeaning` and its
  like compare what two programs compute, executions defined by recursion over
  steps.
* `DefsDominateUses` and `PhisCoverEdges` of `Dce` compare no executions, but speak of
  paths, which threading changes; the first fails for some procedures (see the first
  case under the findings), and a theorem would have to say for which it holds.
* `OptSane`, `LiveinReady` and the like are properties of `opt()`:
  they rest on every pass before keeping the procedure well formed, and so on
  invariants of all of these passes.

## 5. What is not modelled, and why

* Windows calls of `load()` and `patch()`: the same protocol with other calls.
* arm64: a second back end behind the same interface; the range of its
  relocation fields is a hazard without a property yet.
* Exceptions of `Proc::compile` (`too_many_ops`): the README tells clients not to
  use the module afterwards.
* Types of values and the passing of arguments to calls, in the passes and the
  allocator, which treats floating-point registers like the others: a value of
  either type in one set of registers is what the model has. Loads and stores have
  one width there. `X64Select` has types and widths, but no calls.
* `opt_fold` and `opt_reassoc` within the loop of `opt()`: they alternate with each
  other in `Simplify`, the other passes in `Sink`.
* Of x64: arguments and calls but for their relocation, `lnp`, the saving of xmm
  registers, Windows, and the operations named under `select` above. The lengths
  of instructions.
* The example front-end: see the plan.
* Debug output, tests, build files.

## 6. Plan

In this order, the most important behaviour first.

1. Calls on x64: arguments in registers (`ipass`, `dpass`), `lnp`, saved xmm
   registers; ranges of the arm64 fields.
2. `Lexer`, `Parser`: tokens and precedence; how scopes and loops of the example
   front-end use `env`.

Theorems worth proving next: that the shape of procedures which `DceProofs` shows
for the front-end and dead code elimination (`ProcOk`) is kept by the other passes, the first
part of `OptSane`; that a shuffle of registers is a parallel assignment.
