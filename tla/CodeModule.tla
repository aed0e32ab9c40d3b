----------------------------- MODULE CodeModule -----------------------------
(***************************************************************************)
(* bjit::Module (src/src/bjit.h, src/src/module.cpp): procedures and stubs *)
(* are compiled into one byte vector, loaded into executable memory, and   *)
(* patched there while the module stays loaded.                            *)
(*                                                                         *)
(* Abstractions.  The byte vector is its size, the place of every near-    *)
(* call field (DOMAIN relocs: code offsets are unique, so the vector of    *)
(* relocations is a function from code offset to procedure index) and the  *)
(* address each stub holds.  A near-call field in "bytes" is the constant  *)
(* -4-offset the emitter writes; only the copy in executable memory is     *)
(* ever relocated.  Displacements are integers: the code computes modulo   *)
(* 2^32, which adds up to the same call target for any code below 2^31     *)
(* bytes.  Procedure indices are 1-based here, 0-based in the code.        *)
(***************************************************************************)
EXTENDS Integers, Sequences

CONSTANTS
    Programs,      \* what a Proc may call: sequences of procedure indices
    Addresses,     \* addresses of external code a stub may jump to
    Blocks,        \* what mmap may return
    MinSizes,      \* values the client passes as mmapSizeMin
    SystemErrors,  \* system calls that may fail, a subset of {"mmap","mprotect"}
    MaxProcs,      \* bound: number of procedures and stubs
    MaxPending,    \* bound: length of each queue of pending patches
    NoBlock,       \* the null exec_mem
    MapFailed      \* the value mmap returns when it fails, not null either

ASSUME ProgramsAssumption == Programs \subseteq Seq(Nat \ {0})
ASSUME MinSizesAssumption == MinSizes \subseteq Nat
ASSUME BlocksAssumption ==
    NoBlock \notin Blocks /\ MapFailed \notin Blocks /\ MapFailed # NoBlock
ASSUME BoundsAssumption == MaxProcs \in Nat /\ MaxPending \in Nat

VARIABLES
    offsets,      \* start of each procedure in bytes
    size,         \* bytes.size()
    relocs,       \* code offset of a near-call field -> procedure it targets
    stubs,        \* index of a stub -> address in its copy in bytes
    stubPatches,  \* queue of [proc, addr], waiting for patch()
    nearPatches,  \* queue of [old, new, lo, hi], waiting for patch()
    exec_mem,     \* the loaded block, NoBlock or MapFailed
    mmapSize, loadSize,
    perm,         \* protection of exec_mem: "none", "rw" or "rx"
    field,        \* loaded near-call fields: code offset -> displacement
    stubField,    \* loaded stubs: index -> address
    pc            \* "client", inside "patch" or "unload", or stopped for
                  \* good: "asserted" or "faulted"

codeVars == <<offsets, size, relocs, stubs>>
queueVars == <<stubPatches, nearPatches>>
memVars == <<exec_mem, mmapSize, loadSize, perm, field, stubField>>
vars == <<codeVars, queueVars, memVars, pc>>

-----------------------------------------------------------------------------
(* Layout of the code the x64 emitter produces.                            *)

FieldBytes == 4                    \* disp32 of a near call
CallBytes == 1 + FieldBytes        \* E8 disp32
RetBytes == 1
StubBytes == 12                    \* MOVABS RAX, imm64; JMP RAX

ProcSize(prog) == CallBytes * Len(prog) + RetBytes

(* The code offset of the i-th near-call field of a procedure at start.    *)
FieldAt(start, i) == start + CallBytes * (i - 1) + 1

ProcFields(start, prog) == { FieldAt(start, i) : i \in 1..Len(prog) }

(* The displacement the emitter leaves in the field: a64.emit32(-4-size).  *)
EmittedField(s) == -FieldBytes - s

(* Mutant of PatchNearField: the field is overwritten.                     *)
PatchNearFieldSets(value, delta) == delta

(* arch_patchNear: the field is incremented, never overwritten.            *)
PatchNearField(value, delta) == value + delta

(* Where the processor continues when it executes the call: the address    *)
(* after the field plus the displacement.                                  *)
CallTarget(s) == s + FieldBytes + field[s]

-----------------------------------------------------------------------------
isLoaded == exec_mem # NoBlock

Procs == 1..Len(offsets)

(* Offsets of procedure p, as a range of the byte vector (patchCallsIn).   *)
RangeStart(p) == offsets[p]
RangeEnd(p) == IF p + 1 \in Procs THEN offsets[p + 1] ELSE size

(* Mutant of InRange: the end of the range is not looked at.               *)
InRangeFrom(s, p) == p.lo <= s

InRange(s, p) == p.lo <= s /\ s < p.hi

(* procIndex of every relocation after one near patch.                     *)
Retarget(r, p) ==
    [s \in DOMAIN r |-> IF InRange(s, p) /\ r[s] = p.old THEN p.new ELSE r[s]]

(* Relocating the freshly copied fields of the sites S.                    *)
Relocated(S) ==
    [s \in S |-> PatchNearField(EmittedField(s), offsets[relocs[s]])]

(* The client obligation of load() and patch(), asserted or relied on:     *)
(* every index is that of a procedure by the time code is linked.          *)
TargetsValid(S) == \A s \in S : relocs[s] \in Procs

Init ==
    /\ offsets = << >> /\ size = 0
    /\ relocs = [s \in {} |-> 0] /\ stubs = [p \in {} |-> 0]
    /\ stubPatches = << >> /\ nearPatches = << >>
    /\ exec_mem = NoBlock /\ mmapSize = 0 /\ loadSize = 0
    /\ perm = "none"
    /\ field = [s \in {} |-> 0] /\ stubField = [p \in {} |-> 0]
    /\ pc = "client"

-----------------------------------------------------------------------------
(* Adding code.                                                            *)

compile(prog) ==
    /\ pc = "client" /\ Len(offsets) < MaxProcs
    /\ offsets' = Append(offsets, size)
    /\ size' = size + ProcSize(prog)
    /\ relocs' = [s \in DOMAIN relocs \cup ProcFields(size, prog) |->
                    IF s \in DOMAIN relocs THEN relocs[s]
                    ELSE prog[CHOOSE i \in 1..Len(prog) : FieldAt(size, i) = s]]
    /\ UNCHANGED <<stubs, queueVars, memVars, pc>>

(* Mutant of compileStub: the stub gets no entry in offsets.               *)
compileStubUnindexed(addr) ==
    /\ pc = "client" /\ Len(offsets) < MaxProcs
    /\ size' = size + StubBytes
    /\ stubs' = [p \in DOMAIN stubs \cup {Len(offsets) + 1} |->
                    IF p \in DOMAIN stubs THEN stubs[p] ELSE addr]
    /\ UNCHANGED <<offsets, relocs, queueVars, memVars, pc>>

compileStub(addr) ==
    /\ pc = "client" /\ Len(offsets) < MaxProcs
    /\ offsets' = Append(offsets, size)
    /\ size' = size + StubBytes
    /\ stubs' = [p \in DOMAIN stubs \cup {Len(offsets) + 1} |->
                    IF p \in DOMAIN stubs THEN stubs[p] ELSE addr]
    /\ UNCHANGED <<relocs, queueVars, memVars, pc>>

-----------------------------------------------------------------------------
(* Requesting changes to code already compiled.                            *)

patchStub(p, addr) ==
    /\ pc = "client" /\ p \in DOMAIN stubs
    /\ stubs' = [stubs EXCEPT ![p] = addr]
    /\ IF isLoaded
       THEN /\ Len(stubPatches) < MaxPending
            /\ stubPatches' = Append(stubPatches, [proc |-> p, addr |-> addr])
       ELSE UNCHANGED stubPatches
    /\ UNCHANGED <<offsets, size, relocs, nearPatches, memVars, pc>>

(* The code common to patchCalls and patchCallsIn.                         *)
RequestNear(p) ==
    /\ IF isLoaded
       THEN /\ Len(nearPatches) < MaxPending
            /\ nearPatches' = Append(nearPatches, p)
            /\ UNCHANGED relocs
       ELSE /\ relocs' = Retarget(relocs, p)
            /\ UNCHANGED nearPatches
    /\ UNCHANGED <<offsets, size, stubs, stubPatches, memVars, pc>>

patchCalls(old, new) ==
    /\ pc = "client"
    /\ RequestNear([old |-> old, new |-> new, lo |-> 0, hi |-> size])

patchCallsIn(inProc, old, new) ==
    /\ pc = "client" /\ inProc \in Procs
    /\ RequestNear([old |-> old, new |-> new,
                    lo |-> RangeStart(inProc), hi |-> RangeEnd(inProc)])

-----------------------------------------------------------------------------
(* Loading.                                                                *)

Linkable == pc = "client" /\ ~isLoaded /\ TargetsValid(DOMAIN relocs)

(* Mutant of Map: the whole block counts as loaded.                        *)
MapLoadsBlock(minSize) ==
    /\ mmapSize' = IF minSize < size THEN size ELSE minSize
    /\ loadSize' = mmapSize'

Map(minSize) ==
    /\ mmapSize' = IF minSize < size THEN size ELSE minSize
    /\ loadSize' = size

(* mmap refuses an empty block.                                            *)
load(minSize, block) ==
    /\ Linkable
    /\ Map(minSize) /\ mmapSize' > 0
    /\ exec_mem' = block
    /\ perm' = "rx"
    /\ field' = Relocated(DOMAIN relocs)
    /\ stubField' = stubs
    /\ UNCHANGED <<codeVars, queueVars, pc>>

(* mprotect fails after the copy: load() calls unload() and returns 0.     *)
loadProtectFails(minSize, block) ==
    /\ Linkable /\ "mprotect" \in SystemErrors
    /\ Map(minSize) /\ mmapSize' > 0
    /\ exec_mem' = block
    /\ pc' = "unload"
    /\ UNCHANGED <<codeVars, queueVars, perm, field, stubField>>

(* mmap fails: it returns MAP_FAILED, which is not null, so the check of   *)
(* module.cpp:53 lets load() go on and copy the code to that address.      *)
(* With no code to copy it reaches mprotect, which refuses the address,    *)
(* and unload().                                                           *)
loadMapFails(minSize) ==
    /\ Linkable
    /\ Map(minSize)
    /\ "mmap" \in SystemErrors \/ mmapSize' = 0
    /\ exec_mem' = MapFailed
    /\ pc' = IF size > 0 THEN "faulted" ELSE "unload"
    /\ UNCHANGED <<codeVars, queueVars, perm, field, stubField>>

-----------------------------------------------------------------------------
(* patch(): the loaded block is made writable, new code is copied and      *)
(* linked, the stub patches and then the near patches are applied one by   *)
(* one, and the block is made executable again.  Nothing else runs until   *)
(* the call returns.                                                       *)

(* Mutant of PatchFits: the block is not asked for its size.               *)
PatchFitsAlways == TRUE

PatchFits == size <= mmapSize

NewFields == { s \in DOMAIN relocs : s >= loadSize }

(* Mutant of patchRefused: the copy is made before the sizes are compared. *)
patchRefusedLate ==
    /\ pc = "client" /\ isLoaded /\ ~PatchFits
    /\ stubField' = [p \in DOMAIN stubField |-> stubs[p]]
    /\ UNCHANGED <<codeVars, queueVars, exec_mem, mmapSize, loadSize, perm,
                   field, pc>>

(* patch() returns false: it comes back before touching anything.          *)
patchRefused ==
    /\ pc = "client" /\ isLoaded /\ ~PatchFits
    /\ UNCHANGED vars

(* The indices of the pending patches are used unchecked (module.cpp:145): *)
(* the client must have compiled those procedures before it calls patch(). *)
PatchesValid ==
    \A i \in 1..Len(nearPatches) :
        nearPatches[i].old \in Procs /\ nearPatches[i].new \in Procs

patchBegin ==
    /\ pc = "client" /\ isLoaded /\ PatchFits
    /\ TargetsValid(NewFields) /\ PatchesValid
    /\ perm' = "rw"
    /\ field' = [s \in DOMAIN relocs |->
                    IF s < loadSize THEN field[s] ELSE Relocated(NewFields)[s]]
    /\ stubField' = [p \in DOMAIN stubs |->
                    IF offsets[p] < loadSize THEN stubField[p] ELSE stubs[p]]
    /\ loadSize' = size
    /\ pc' = "patch"
    /\ UNCHANGED <<codeVars, queueVars, exec_mem, mmapSize>>

patchNextStub ==
    /\ pc = "patch" /\ stubPatches # << >>
    /\ LET p == Head(stubPatches)
       IN  stubField' = [stubField EXCEPT ![p.proc] = p.addr]
    /\ stubPatches' = Tail(stubPatches)
    /\ UNCHANGED <<codeVars, nearPatches, exec_mem, mmapSize, loadSize, perm,
                   field, pc>>

patchNextNear ==
    /\ pc = "patch" /\ stubPatches = << >> /\ nearPatches # << >>
    /\ LET p == Head(nearPatches)
           delta == offsets[p.new] - offsets[p.old]
       IN  /\ relocs' = Retarget(relocs, p)
           /\ field' = [s \in DOMAIN field |->
                IF InRange(s, p) /\ relocs[s] = p.old
                THEN PatchNearField(field[s], delta) ELSE field[s]]
    /\ nearPatches' = Tail(nearPatches)
    /\ UNCHANGED <<offsets, size, stubs, stubPatches, exec_mem, mmapSize,
                   loadSize, perm, stubField, pc>>

PatchesDone == pc = "patch" /\ stubPatches = << >> /\ nearPatches = << >>

(* Mutant of patchEnd: the block stays writable.                           *)
patchEndWritable ==
    /\ PatchesDone
    /\ pc' = "client"
    /\ UNCHANGED <<codeVars, queueVars, memVars>>

patchEnd ==
    /\ PatchesDone
    /\ perm' = "rx"
    /\ pc' = "client"
    /\ UNCHANGED <<codeVars, queueVars, exec_mem, mmapSize, loadSize, field,
                   stubField>>

-----------------------------------------------------------------------------
(* unload(): the block is unmapped, the pending near patches are moved to  *)
(* the relocations one by one, and the state of the load is reset.         *)

unloadBegin ==
    /\ pc = "client" /\ isLoaded
    /\ perm' = "none"
    /\ field' = [s \in {} |-> 0] /\ stubField' = [p \in {} |-> 0]
    /\ pc' = "unload"
    /\ UNCHANGED <<codeVars, queueVars, exec_mem, mmapSize, loadSize>>

(* Mutant of unloadNextNear: the pending patch is forgotten.               *)
unloadNextNearForgets ==
    /\ pc = "unload" /\ nearPatches # << >>
    /\ nearPatches' = Tail(nearPatches)
    /\ UNCHANGED <<codeVars, stubPatches, memVars, pc>>

unloadNextNear ==
    /\ pc = "unload" /\ nearPatches # << >>
    /\ relocs' = Retarget(relocs, Head(nearPatches))
    /\ nearPatches' = Tail(nearPatches)
    /\ UNCHANGED <<offsets, size, stubs, stubPatches, memVars, pc>>

(* Mutant of unloadEnd: the queue of stub patches is not cleared.          *)
unloadEndKeepsQueue ==
    /\ pc = "unload" /\ nearPatches = << >>
    /\ exec_mem' = NoBlock /\ mmapSize' = 0 /\ loadSize' = 0
    /\ pc' = "client"
    /\ UNCHANGED <<codeVars, queueVars, perm, field, stubField>>

unloadEnd ==
    /\ pc = "unload" /\ nearPatches = << >>
    /\ stubPatches' = << >>
    /\ exec_mem' = NoBlock /\ mmapSize' = 0 /\ loadSize' = 0
    /\ pc' = "client"
    /\ UNCHANGED <<codeVars, nearPatches, perm, field, stubField>>

-----------------------------------------------------------------------------
(* BJIT_ASSERT ends the process, or throws and leaves a Module that must   *)
(* not be used again: a call to a procedure that does not exist is found   *)
(* while linking, or an mprotect of patch() fails.                         *)
assertFails ==
    /\ \/ pc = "client" /\ ~isLoaded /\ ~TargetsValid(DOMAIN relocs)
       \/ pc = "client" /\ isLoaded /\ PatchFits /\ ~TargetsValid(NewFields)
       \/ pc = "client" /\ isLoaded /\ PatchFits /\ "mprotect" \in SystemErrors
       \/ PatchesDone /\ "mprotect" \in SystemErrors
    /\ pc' = "asserted"
    /\ UNCHANGED <<codeVars, queueVars, memVars>>

Indices == 1..MaxProcs

Next ==
    \/ \E prog \in Programs : compile(prog)
    \/ \E addr \in Addresses : compileStub(addr)
    \/ \E p \in Indices, addr \in Addresses : patchStub(p, addr)
    \/ \E old, new \in Indices : patchCalls(old, new)
    \/ \E inProc, old, new \in Indices : patchCallsIn(inProc, old, new)
    \/ \E minSize \in MinSizes, block \in Blocks :
            load(minSize, block) \/ loadProtectFails(minSize, block)
    \/ \E minSize \in MinSizes : loadMapFails(minSize)
    \/ patchRefused \/ patchBegin \/ patchNextStub \/ patchNextNear \/ patchEnd
    \/ unloadBegin \/ unloadNextNear \/ unloadEnd
    \/ assertFails

Spec == Init /\ [][Next]_vars

-----------------------------------------------------------------------------
(* Properties.                                                             *)

NearPatch == [old : Nat \ {0}, new : Nat \ {0}, lo : Nat, hi : Nat]

(* Every variable has its type, and the two copies of a stub and of a call *)
(* exist exactly where the code says they do.                              *)
TypeOK ==
    /\ offsets \in Seq(Nat) /\ size \in Nat
    /\ DOMAIN relocs \subseteq Nat /\ relocs \in [DOMAIN relocs -> Nat \ {0}]
    /\ DOMAIN stubs \subseteq Procs /\ stubs \in [DOMAIN stubs -> Addresses]
    /\ stubPatches \in Seq([proc : DOMAIN stubs, addr : Addresses])
    /\ nearPatches \in Seq(NearPatch)
    /\ exec_mem \in Blocks \cup {NoBlock, MapFailed}
    /\ mmapSize \in Nat /\ loadSize \in Nat
    /\ perm \in {"none", "rw", "rx"}
    /\ DOMAIN field \subseteq DOMAIN relocs /\ field \in [DOMAIN field -> Int]
    /\ DOMAIN stubField \subseteq DOMAIN stubs
    /\ stubField \in [DOMAIN stubField -> Addresses]
    /\ pc \in {"client", "patch", "unload", "asserted", "faulted"}

(* Every call in executable memory lands on the first byte of the          *)
(* procedure its relocation names, whatever sequence of loads, increments  *)
(* of the displacement by patch(), refusals and reloads led there.         *)
LinkedCalls ==
    \A s \in DOMAIN field :
        relocs[s] \in Procs /\ CallTarget(s) = offsets[relocs[s]]

(* All code whose copy was made is in memory: every relocation and every   *)
(* stub below loadSize has its loaded copy, nothing else has one.          *)
LoadedImage ==
    pc \in {"client", "patch"} =>
        /\ DOMAIN field = { s \in DOMAIN relocs : s < loadSize }
        /\ DOMAIN stubField = { p \in DOMAIN stubs : offsets[p] < loadSize }

(* What load() and patch() write lies inside the block that mmap returned: *)
(* the copy of the code, every near-call field, every stub, and the stubs  *)
(* whose patches patch() has yet to apply.  The exception is load() after  *)
(* a failed mmap (module.cpp:53), which copies whatever code there is to   *)
(* the address MAP_FAILED and does not survive it.                         *)
BlockHoldsCode ==
    /\ isLoaded => loadSize <= mmapSize /\ loadSize <= size
    /\ \A s \in DOMAIN field : s + FieldBytes <= loadSize
    /\ \A p \in DOMAIN stubField : offsets[p] + StubBytes <= loadSize
    /\ pc = "patch" =>
        \A i \in 1..Len(stubPatches) : stubPatches[i].proc \in DOMAIN stubField
    /\ DOMAIN field # {} \/ DOMAIN stubField # {} \/ pc = "patch" => exec_mem \in Blocks
    /\ pc = "faulted" <=> exec_mem = MapFailed /\ loadSize > 0

(* The loaded copy of a stub differs from the one in bytes only while a    *)
(* patch of it is pending, and the last pending patch makes them equal.    *)
StubsCoherent ==
    isLoaded /\ pc \in {"client", "patch"} =>
        \A p \in DOMAIN stubField :
            LET pending == { i \in 1..Len(stubPatches) : stubPatches[i].proc = p }
            IN  /\ pending = {} => stubField[p] = stubs[p]
                /\ \A i \in pending :
                        (\A j \in pending : j <= i) => stubPatches[i].addr = stubs[p]

(* A request made while nothing is loaded is never left waiting: the       *)
(* queues hold patches of loaded code only (module.cpp:205 drops them).    *)
QueuesOnlyWhileLoaded ==
    ~isLoaded => stubPatches = << >> /\ nearPatches = << >>

(* Whenever the client runs, loaded code is executable and not writable;   *)
(* patch() never returns with the block still writable.                    *)
ClientSeesExecutable ==
    pc = "client" => perm = IF isLoaded THEN "rx" ELSE "none"

(* Code that stays executable is not modified: all patches to the image    *)
(* happen between the two mprotect calls of patch().                       *)
ExecutableNotWritten ==
    [][perm = "rx" /\ perm' = "rx" => UNCHANGED <<field, stubField>>]_vars

(* bjit.h:718: load() "returns zero on failure (system error ...)".        *)
LoadSurvivesSystemErrors == pc # "faulted"
=============================================================================
