-------------------------- MODULE CodeModuleProofs --------------------------
(***************************************************************************)
(* For any programs, addresses, block sizes, system errors and bounds:     *)
(* bjit::Module keeps its types, every call in executable memory lands on  *)
(* the procedure its relocation names, and the module implements LinkSpec. *)
(***************************************************************************)
EXTENDS CodeModuleRefinement, SetInduction, TLAPS

(* Near-call fields lie inside the code, and what is loaded is a prefix.   *)
Layout ==
    /\ \A s \in DOMAIN relocs : s + FieldBytes <= size
    /\ pc \in {"client", "patch"} => loadSize <= size

(* No loaded copy of a call or stub survives the block it was in.          *)
NoImage == DOMAIN field = {} /\ DOMAIN stubField = {}

ImageNeedsBlock ==
    /\ pc \in {"unload", "faulted"} => NoImage
    /\ pc = "client" /\ ~isLoaded => NoImage /\ loadSize = 0
    /\ pc = "patch" => isLoaded

(* Every stub lies inside the code, to its last byte.                      *)
StubsInside == \A p \in DOMAIN stubs : offsets[p] + StubBytes <= size

(* What patch() asserted or relied on at its start still holds.            *)
PatchesLinkable == pc = "patch" => PatchesValid

(* The inductive invariant.  LinkedCalls alone is not inductive: a near    *)
(* patch keeps a call on a procedure only if both ends of the patch are    *)
(* procedures, and relocations change in unload() and while nothing is     *)
(* loaded, which is harmless only because no loaded field is left.         *)
IInv ==
    /\ TypeOK /\ Layout /\ ImageNeedsBlock /\ PatchesLinkable
    /\ StubsInside /\ LoadedImage /\ LinkedCalls

-----------------------------------------------------------------------------
(* Facts about the operators.                                              *)

(* Redirecting calls keeps every relocation and names procedures only.     *)
LEMMA RetargetType ==
    ASSUME NEW r, DOMAIN r \subseteq Nat, r \in [DOMAIN r -> Nat \ {0}],
           NEW p \in NearPatch
    PROVE  /\ DOMAIN Retarget(r, p) = DOMAIN r
           /\ Retarget(r, p) \in [DOMAIN r -> Nat \ {0}]
BY DEF Retarget, NearPatch

(* The fields of new code lie between the old end of the code and the new. *)
LEMMA ProcFieldsRange ==
    ASSUME NEW start \in Nat, NEW prog \in Seq(Nat \ {0}),
           NEW s \in ProcFields(start, prog)
    PROVE  /\ s \in Nat
           /\ start < s /\ s + FieldBytes <= start + ProcSize(prog)
<1>1. PICK i \in 1..Len(prog) : s = start + CallBytes * (i - 1) + 1
  BY DEF ProcFields, FieldAt
<1> QED
  BY <1>1 DEF CallBytes, FieldBytes, RetBytes, ProcSize

(* What compile() gives a new field: the index in the program of its call. *)
LEMMA CompiledTarget ==
    ASSUME NEW start \in Nat, NEW prog \in Seq(Nat \ {0}),
           NEW s \in ProcFields(start, prog)
    PROVE  prog[CHOOSE i \in 1..Len(prog) : FieldAt(start, i) = s] \in Nat \ {0}
<1>1. \E i \in 1..Len(prog) : FieldAt(start, i) = s
  BY DEF ProcFields
<1>2. (CHOOSE i \in 1..Len(prog) : FieldAt(start, i) = s) \in 1..Len(prog)
  BY <1>1
<1> QED
  BY <1>2

(* A queue keeps its type when stubs are added.                            *)
LEMMA SeqMonotone ==
    ASSUME NEW S, NEW T, S \subseteq T, NEW q \in Seq(S)
    PROVE  q \in Seq(T)
OBVIOUS

-----------------------------------------------------------------------------
(* One lemma per group of actions: each keeps the inductive invariant.     *)

USE DEF isLoaded, Procs, CallTarget, NoImage

LEMMA StubsBeforeEnd == IInv => \A p \in DOMAIN stubs : offsets[p] < size
<1> SUFFICES ASSUME IInv, NEW p \in DOMAIN stubs
             PROVE  offsets[p] < size
  OBVIOUS
<1>1. offsets[p] \in Nat /\ size \in Nat
  BY DEF IInv, TypeOK
<1>2. offsets[p] + StubBytes <= size
  BY DEF IInv, StubsInside
<1> QED
  BY <1>1, <1>2 DEF StubBytes

(* Nothing is loaded and nothing is compiled at the start.                 *)
LEMMA InitIInv == Init => IInv
BY BlocksAssumption
   DEF Init, IInv, TypeOK, Layout, ImageNeedsBlock, PatchesLinkable,
       StubsInside, LoadedImage, LinkedCalls

(* New code lies behind everything loaded and behind every other site.     *)
LEMMA CompileIInv ==
    ASSUME IInv, NEW prog \in Programs, compile(prog)
    PROVE  IInv'
<1> DEFINE new == ProcFields(size, prog)
<1>1. prog \in Seq(Nat \ {0}) /\ size \in Nat
  BY ProgramsAssumption DEF IInv, TypeOK
<1>2. \A s \in new : s \in Nat /\ size < s /\ s + FieldBytes <= size'
  BY <1>1, ProcFieldsRange DEF compile
<1>3. size <= size' /\ size' \in Nat
  BY <1>1 DEF compile, ProcSize, CallBytes, FieldBytes, RetBytes
<1>4. /\ DOMAIN relocs' = DOMAIN relocs \cup new
      /\ \A s \in DOMAIN relocs : relocs'[s] = relocs[s]
  BY DEF compile
<1>5. relocs' \in [DOMAIN relocs' -> Nat \ {0}]
  <2>1. \A s \in new :
            prog[CHOOSE i \in 1..Len(prog) : FieldAt(size, i) = s] \in Nat \ {0}
    BY <1>1, CompiledTarget
  <2> QED
    BY <2>1, <1>4 DEF compile, IInv, TypeOK
<1>6. /\ Procs \subseteq Procs'
      /\ \A p \in Procs : offsets'[p] = offsets[p]
      /\ offsets' \in Seq(Nat)
  BY <1>1 DEF compile, IInv, TypeOK
<1>7. UNCHANGED <<stubs, queueVars, memVars, pc>>
  BY DEF compile
<1>8. TypeOK'
  BY <1>2, <1>3, <1>4, <1>5, <1>6, <1>7
     DEF IInv, TypeOK, queueVars, memVars
<1>9. Layout'
  BY <1>2, <1>3, <1>4, <1>7 DEF IInv, TypeOK, Layout, memVars, FieldBytes
<1>10. LoadedImage'
  <2>1. ASSUME pc \in {"client", "patch"}
        PROVE  \A s \in new : ~(s < loadSize)
    BY <2>1, <1>1, <1>2 DEF IInv, TypeOK, Layout
  <2>2. DOMAIN stubs \subseteq Procs
    BY DEF IInv, TypeOK
  <2> QED
    BY <2>1, <2>2, <1>4, <1>6, <1>7 DEF IInv, LoadedImage, memVars
<1>11. LinkedCalls'
  BY <1>4, <1>6, <1>7 DEF IInv, TypeOK, LinkedCalls, memVars
<1>12. ImageNeedsBlock' /\ PatchesLinkable'
  BY <1>7 DEF IInv, ImageNeedsBlock, PatchesLinkable, memVars, compile
<1>13. StubsInside'
  <2>1. \A p \in DOMAIN stubs : p \in Procs /\ offsets[p] \in Nat
    BY DEF IInv, TypeOK
  <2>2. \A p \in DOMAIN stubs : offsets[p] + StubBytes <= size'
    BY <2>1, <1>1, <1>3 DEF IInv, StubsInside, StubBytes
  <2> QED
    BY <2>1, <2>2, <1>6, <1>7 DEF StubsInside
<1> QED
  BY <1>8, <1>9, <1>10, <1>11, <1>12, <1>13 DEF IInv

LEMMA CompileStubIInv ==
    ASSUME IInv, NEW addr \in Addresses, compileStub(addr)
    PROVE  IInv'
<1> DEFINE new == Len(offsets) + 1
<1>1. size' = size + 12 /\ size \in Nat /\ size' \in Nat
  BY DEF compileStub, StubBytes, IInv, TypeOK
<1>2. UNCHANGED <<relocs, queueVars, memVars, pc>> /\ pc = "client"
  BY DEF compileStub
<1>3. /\ Procs' = Procs \cup {new} /\ new \notin Procs
      /\ \A p \in Procs : offsets'[p] = offsets[p]
      /\ offsets'[new] = size
      /\ offsets' \in Seq(Nat)
  BY <1>1 DEF compileStub, IInv, TypeOK
<1>4. /\ DOMAIN stubs' = DOMAIN stubs \cup {new}
      /\ stubs' \in [DOMAIN stubs' -> Addresses]
  BY DEF compileStub, IInv, TypeOK
<1>5. stubPatches' \in Seq([proc : DOMAIN stubs', addr : Addresses])
  <2>1. [proc : DOMAIN stubs, addr : Addresses]
            \subseteq [proc : DOMAIN stubs', addr : Addresses]
    BY <1>4
  <2> QED
    BY <2>1, <1>2, SeqMonotone DEF queueVars, IInv, TypeOK
<1>6. TypeOK'
  BY <1>1, <1>2, <1>3, <1>4, <1>5 DEF queueVars, memVars, IInv, TypeOK
<1>7. Layout' /\ ImageNeedsBlock' /\ PatchesLinkable'
  BY <1>1, <1>2
     DEF memVars, FieldBytes, IInv, TypeOK, Layout, ImageNeedsBlock,
         PatchesLinkable
<1>8. LoadedImage'
  <2>1. ~(offsets'[new] < loadSize)
    BY <1>1, <1>2, <1>3 DEF IInv, TypeOK, Layout
  <2>2. { p \in DOMAIN stubs' : offsets'[p] < loadSize }
            = { p \in DOMAIN stubs : offsets[p] < loadSize }
    BY <2>1, <1>3, <1>4 DEF IInv, TypeOK
  <2> QED
    BY <2>2, <1>2 DEF memVars, IInv, LoadedImage
<1>9. LinkedCalls'
  BY <1>2, <1>3 DEF memVars, IInv, TypeOK, LinkedCalls
<1>10. StubsInside'
  <2>1. \A p \in DOMAIN stubs : p \in Procs /\ offsets[p] \in Nat
    BY DEF IInv, TypeOK
  <2>2. \A p \in DOMAIN stubs : offsets[p] + StubBytes <= size'
    BY <2>1, <1>1 DEF IInv, StubsInside, StubBytes
  <2> QED
    BY <2>1, <2>2, <1>1, <1>3, <1>4 DEF StubsInside, StubBytes
<1> QED
  BY <1>6, <1>7, <1>8, <1>9, <1>10 DEF IInv

LEMMA PatchStubIInv ==
    ASSUME IInv, NEW p \in Indices, NEW addr \in Addresses, patchStub(p, addr)
    PROVE  IInv'
<1>1. UNCHANGED <<offsets, size, relocs, nearPatches, memVars, pc>>
  BY DEF patchStub
<1>2. DOMAIN stubs' = DOMAIN stubs /\ stubs' \in [DOMAIN stubs -> Addresses]
  BY DEF patchStub, IInv, TypeOK
<1>3. stubPatches' \in Seq([proc : DOMAIN stubs, addr : Addresses])
  <2> DEFINE Patch == [proc : DOMAIN stubs, addr : Addresses]
  <2>1. [proc |-> p, addr |-> addr] \in Patch
    BY DEF patchStub
  <2>2. stubPatches \in Seq(Patch)
    BY DEF IInv, TypeOK
  <2> HIDE DEF Patch
  <2>3. stubPatches' \in Seq(Patch)
    BY <2>1, <2>2 DEF patchStub
  <2> QED
    BY <2>3 DEF Patch
<1> QED
  BY <1>1, <1>2, <1>3
     DEF memVars, PatchesValid, IInv, TypeOK, Layout, ImageNeedsBlock,
         PatchesLinkable, StubsInside, LoadedImage, LinkedCalls

(* A near patch that is asked for, queued or applied at once.              *)
LEMMA RequestNearIInv ==
    ASSUME IInv, pc = "client", NEW p \in NearPatch, RequestNear(p)
    PROVE  IInv'
<1>1. UNCHANGED <<offsets, size, stubs, stubPatches, memVars, pc>>
  BY DEF RequestNear
<1>2. CASE isLoaded
  <2>1. nearPatches \in Seq(NearPatch)
    BY DEF IInv, TypeOK
  <2>2. nearPatches' = Append(nearPatches, p) /\ UNCHANGED relocs
    BY <1>2 DEF RequestNear
  <2>3. nearPatches' \in Seq(NearPatch)
    BY <2>1, <2>2
  <2> QED
    BY <2>2, <2>3, <1>1
       DEF memVars, IInv, TypeOK, Layout, ImageNeedsBlock, PatchesLinkable,
           StubsInside, LoadedImage, LinkedCalls
<1>3. CASE ~isLoaded
  <2>1. /\ DOMAIN relocs' = DOMAIN relocs
        /\ relocs' \in [DOMAIN relocs' -> Nat \ {0}]
    BY <1>3, RetargetType DEF RequestNear, IInv, TypeOK
  <2>2. DOMAIN field = {} /\ UNCHANGED nearPatches
    BY <1>3 DEF RequestNear, IInv, ImageNeedsBlock
  <2> QED
    BY <2>1, <2>2, <1>1
       DEF memVars, IInv, TypeOK, Layout, ImageNeedsBlock, PatchesLinkable,
           StubsInside, LoadedImage, LinkedCalls
<1> QED
  BY <1>2, <1>3

LEMMA PatchCallsIInv ==
    ASSUME IInv, NEW old \in Indices, NEW new \in Indices, patchCalls(old, new)
    PROVE  IInv'
<1>1. [old |-> old, new |-> new, lo |-> 0, hi |-> size] \in NearPatch
  BY BoundsAssumption DEF NearPatch, Indices, IInv, TypeOK
<1> QED
  BY <1>1, RequestNearIInv DEF patchCalls

LEMMA PatchCallsInIInv ==
    ASSUME IInv, NEW inProc \in Indices, NEW old \in Indices,
           NEW new \in Indices, patchCallsIn(inProc, old, new)
    PROVE  IInv'
<1>1. RangeStart(inProc) \in Nat /\ RangeEnd(inProc) \in Nat
  BY DEF RangeStart, RangeEnd, patchCallsIn, IInv, TypeOK
<1>2. [old |-> old, new |-> new, lo |-> RangeStart(inProc),
       hi |-> RangeEnd(inProc)] \in NearPatch
  BY <1>1, BoundsAssumption DEF NearPatch, Indices
<1> QED
  BY <1>2, RequestNearIInv DEF patchCallsIn

(* The value of a field the code at its site was just copied to.           *)
LEMMA RelocatedTarget ==
    ASSUME IInv, NEW S \in SUBSET DOMAIN relocs, TargetsValid(S)
    PROVE  /\ DOMAIN Relocated(S) = S
           /\ Relocated(S) \in [S -> Int]
           /\ \A s \in S : s + FieldBytes + Relocated(S)[s] = offsets[relocs[s]]
<1>1. \A s \in S : s \in Nat /\ offsets[relocs[s]] \in Nat
  BY DEF TargetsValid, IInv, TypeOK
<1> QED
  BY <1>1 DEF Relocated, PatchNearField, EmittedField, FieldBytes

LEMMA MapSizes ==
    ASSUME IInv, NEW minSize \in MinSizes, Map(minSize)
    PROVE  mmapSize' \in Nat /\ loadSize' = size /\ size \in Nat
BY MinSizesAssumption DEF Map, IInv, TypeOK

LEMMA LoadIInv ==
    ASSUME IInv, NEW minSize \in MinSizes, NEW block \in Blocks,
           load(minSize, block)
    PROVE  IInv'
<1>1. mmapSize' \in Nat /\ loadSize' = size /\ size \in Nat
  BY MapSizes DEF load
<1>2. /\ UNCHANGED <<codeVars, queueVars, pc>> /\ pc = "client"
      /\ field' = Relocated(DOMAIN relocs) /\ stubField' = stubs
      /\ TargetsValid(DOMAIN relocs)
  BY DEF load, Linkable
<1>3. /\ DOMAIN field' = DOMAIN relocs /\ field' \in [DOMAIN relocs -> Int]
      /\ \A s \in DOMAIN relocs : s + FieldBytes + field'[s] = offsets[relocs[s]]
  BY <1>2, RelocatedTarget
<1>4. exec_mem' \in Blocks /\ isLoaded' /\ perm' = "rx"
  BY BlocksAssumption DEF load
<1>5. TypeOK'
  BY <1>1, <1>2, <1>3, <1>4 DEF IInv, TypeOK, codeVars, queueVars
<1>6. Layout' /\ ImageNeedsBlock' /\ PatchesLinkable'
  BY <1>1, <1>2, <1>4
     DEF IInv, Layout, ImageNeedsBlock, PatchesLinkable, codeVars
<1>7. LoadedImage'
  <2>1. \A s \in DOMAIN relocs : s < size
    BY <1>1 DEF IInv, TypeOK, Layout, FieldBytes
  <2>2. \A p \in DOMAIN stubs : offsets[p] < size
    BY StubsBeforeEnd
  <2> QED
    BY <2>1, <2>2, <1>1, <1>2, <1>3 DEF LoadedImage, codeVars
<1>8. LinkedCalls'
  BY <1>2, <1>3 DEF LinkedCalls, TargetsValid, codeVars
<1> QED
  BY <1>2, <1>5, <1>6, <1>7, <1>8 DEF IInv, StubsInside, codeVars

LEMMA LoadFailsIInv ==
    ASSUME IInv, NEW minSize \in MinSizes,
           \/ loadMapFails(minSize)
           \/ \E block \in Blocks : loadProtectFails(minSize, block)
    PROVE  IInv'
<1>1. mmapSize' \in Nat /\ loadSize' = size /\ size \in Nat
  BY MapSizes DEF loadMapFails, loadProtectFails
<1>2. /\ UNCHANGED <<codeVars, queueVars, perm, field, stubField>>
      /\ pc = "client" /\ ~isLoaded
      /\ pc' \in {"faulted", "unload"} /\ exec_mem' \in Blocks \cup {MapFailed}
  BY DEF loadMapFails, loadProtectFails, Linkable
<1>3. NoImage
  BY <1>2 DEF IInv, ImageNeedsBlock
<1> QED
  BY <1>1, <1>2, <1>3
     DEF IInv, TypeOK, Layout, ImageNeedsBlock, PatchesLinkable, LoadedImage,
         LinkedCalls, StubsInside, codeVars, queueVars

-----------------------------------------------------------------------------
(* patch().                                                                *)

LEMMA PatchBeginIInv ==
    ASSUME IInv, patchBegin
    PROVE  IInv'
<1>1. /\ UNCHANGED <<codeVars, queueVars, exec_mem, mmapSize>>
      /\ pc = "client" /\ pc' = "patch" /\ isLoaded
      /\ loadSize' = size /\ perm' = "rw"
      /\ TargetsValid(NewFields) /\ PatchesValid
  BY DEF patchBegin
<1>2. size \in Nat /\ loadSize \in Nat /\ DOMAIN relocs \subseteq Nat
  BY DEF IInv, TypeOK
<1>3. /\ DOMAIN field = { s \in DOMAIN relocs : s < loadSize }
      /\ DOMAIN stubField = { p \in DOMAIN stubs : offsets[p] < loadSize }
  BY <1>1 DEF IInv, LoadedImage
<1>4. /\ \A s \in DOMAIN relocs : s \in DOMAIN field \/ s \in NewFields
      /\ \A s \in DOMAIN field : s < loadSize
      /\ \A s \in NewFields : ~(s < loadSize)
      /\ NewFields \subseteq DOMAIN relocs
  BY <1>2, <1>3 DEF NewFields
<1>5. /\ Relocated(NewFields) \in [NewFields -> Int]
      /\ \A s \in NewFields :
            s + FieldBytes + Relocated(NewFields)[s] = offsets[relocs[s]]
  BY <1>1, <1>4, RelocatedTarget
<1>6. /\ DOMAIN field' = DOMAIN relocs
      /\ \A s \in DOMAIN field : field'[s] = field[s]
      /\ \A s \in NewFields : field'[s] = Relocated(NewFields)[s]
  BY <1>4 DEF patchBegin, IInv, TypeOK
<1>7. field' \in [DOMAIN field' -> Int]
  <2>1. field' = [s \in DOMAIN relocs |-> field'[s]]
    BY DEF patchBegin
  <2>2. \A s \in DOMAIN relocs : field'[s] \in Int
    BY <1>4, <1>5, <1>6 DEF IInv, TypeOK
  <2> QED
    BY <2>1, <2>2, <1>6
<1>8. DOMAIN stubField' = DOMAIN stubs /\ stubField' \in [DOMAIN stubs -> Addresses]
  BY <1>3 DEF patchBegin, IInv, TypeOK
<1>9. TypeOK'
  BY <1>1, <1>2, <1>6, <1>7, <1>8 DEF IInv, TypeOK, codeVars, queueVars
<1>10. Layout' /\ ImageNeedsBlock' /\ PatchesLinkable' /\ StubsInside'
  BY <1>1, <1>2
     DEF IInv, Layout, ImageNeedsBlock, PatchesLinkable, PatchesValid,
         StubsInside, codeVars, queueVars
<1>11. LoadedImage'
  <2>1. \A s \in DOMAIN relocs : s < size
    BY <1>2 DEF IInv, Layout, FieldBytes
  <2>2. \A p \in DOMAIN stubs : offsets[p] < size
    BY StubsBeforeEnd
  <2> QED
    BY <2>1, <2>2, <1>1, <1>6, <1>8 DEF LoadedImage, codeVars
<1>12. LinkedCalls'
  <2>1. \A s \in DOMAIN field :
            relocs[s] \in Procs /\ s + FieldBytes + field[s] = offsets[relocs[s]]
    BY DEF IInv, LinkedCalls
  <2>2. \A s \in NewFields : relocs[s] \in Procs
    BY <1>1 DEF TargetsValid
  <2> QED
    BY <2>1, <2>2, <1>1, <1>4, <1>5, <1>6 DEF LinkedCalls, codeVars
<1> QED
  BY <1>9, <1>10, <1>11, <1>12 DEF IInv

LEMMA PatchNextStubIInv ==
    ASSUME IInv, patchNextStub
    PROVE  IInv'
<1> DEFINE Patch == [proc : DOMAIN stubs, addr : Addresses]
<1>1. stubPatches \in Seq(Patch) /\ stubPatches # << >>
  BY DEF patchNextStub, IInv, TypeOK
<1>2. Head(stubPatches) \in Patch /\ Tail(stubPatches) \in Seq(Patch)
  <2> HIDE DEF Patch
  <2> QED
    BY <1>1
<1>3. DOMAIN stubField' = DOMAIN stubField
      /\ stubField' \in [DOMAIN stubField -> Addresses]
  BY <1>2 DEF patchNextStub, IInv, TypeOK
<1> QED
  BY <1>2, <1>3
     DEF patchNextStub, IInv, TypeOK, Layout, ImageNeedsBlock, PatchesLinkable,
         PatchesValid, LoadedImage, LinkedCalls, StubsInside, codeVars

(* A retargeted call moves by as much as its target.                       *)
LEMMA PatchNextNearIInv ==
    ASSUME IInv, patchNextNear
    PROVE  IInv'
<1> DEFINE p == Head(nearPatches)
           delta == offsets[p.new] - offsets[p.old]
           moved(s) == InRange(s, p) /\ relocs[s] = p.old
<1>1. nearPatches \in Seq(NearPatch) /\ nearPatches # << >>
  BY DEF patchNextNear, IInv, TypeOK
<1>2. p \in NearPatch /\ nearPatches' \in Seq(NearPatch)
  BY <1>1 DEF patchNextNear
<1>3. p.old \in Procs /\ p.new \in Procs
  BY <1>1 DEF patchNextNear, IInv, PatchesLinkable, PatchesValid
<1>4. offsets[p.old] \in Nat /\ offsets[p.new] \in Nat
  <2> HIDE DEF p
  <2>1. offsets \in Seq(Nat)
    BY DEF IInv, TypeOK
  <2> QED
    BY <2>1, <1>3
<1>5. /\ DOMAIN relocs' = DOMAIN relocs
      /\ relocs' \in [DOMAIN relocs' -> Nat \ {0}]
  BY <1>2, RetargetType DEF patchNextNear, IInv, TypeOK
<1>6. UNCHANGED <<offsets, size, stubs, stubPatches, exec_mem, mmapSize,
                  loadSize, perm, stubField, pc>> /\ pc = "patch"
  BY DEF patchNextNear
<1>7. \A s \in DOMAIN relocs :
            relocs'[s] = IF moved(s) THEN p.new ELSE relocs[s]
  BY DEF patchNextNear, Retarget
<1>8. /\ DOMAIN field' = DOMAIN field
      /\ \A s \in DOMAIN field :
            field'[s] = IF moved(s) THEN field[s] + delta ELSE field[s]
  BY DEF patchNextNear, PatchNearField
<1>9. field' \in [DOMAIN field -> Int]
  <2>1. field' = [s \in DOMAIN field |-> field'[s]]
    BY DEF patchNextNear
  <2>2. \A s \in DOMAIN field : field[s] \in Int
    BY DEF IInv, TypeOK
  <2>3. delta \in Int
    BY <1>4
  <2> HIDE DEF p, delta, moved
  <2>4. \A s \in DOMAIN field : field'[s] \in Int
    BY <2>2, <2>3, <1>8
  <2> QED
    BY <2>1, <2>4
<1>10. TypeOK'
  BY <1>2, <1>5, <1>6, <1>8, <1>9 DEF IInv, TypeOK
<1>11. Layout' /\ ImageNeedsBlock' /\ LoadedImage' /\ StubsInside'
  BY <1>5, <1>6, <1>8 DEF IInv, Layout, ImageNeedsBlock, LoadedImage, StubsInside
<1>12. PatchesLinkable'
  <2>1. \A i \in 1..Len(nearPatches') :
            i + 1 \in 1..Len(nearPatches) /\ nearPatches'[i] = nearPatches[i + 1]
    BY <1>1 DEF patchNextNear
  <2> QED
    BY <2>1, <1>6 DEF IInv, PatchesLinkable, PatchesValid
<1>13. LinkedCalls'
  <2> SUFFICES ASSUME NEW s \in DOMAIN field
               PROVE  relocs'[s] \in Procs
                      /\ s + FieldBytes + field'[s] = offsets[relocs'[s]]
    BY <1>6, <1>8 DEF LinkedCalls
  <2>1. /\ relocs[s] \in Procs /\ s + FieldBytes + field[s] = offsets[relocs[s]]
        /\ s \in Nat /\ field[s] \in Int /\ s \in DOMAIN relocs
    BY DEF IInv, TypeOK, LinkedCalls
  <2>2. CASE moved(s)
    <3>1. relocs'[s] = p.new /\ relocs[s] = p.old
      BY <2>1, <2>2, <1>7
    <3>2. field'[s] = field[s] + (offsets[p.new] - offsets[p.old])
      BY <2>2, <1>8
    <3> HIDE DEF p
    <3> QED
      BY <2>1, <3>1, <3>2, <1>3, <1>4 DEF FieldBytes
  <2>3. CASE ~moved(s)
    BY <2>1, <2>3, <1>7, <1>8
  <2> QED
    BY <2>2, <2>3
<1> QED
  BY <1>10, <1>11, <1>12, <1>13 DEF IInv

(* unload() and the steps that change nothing but where the program is.    *)
LEMMA UnloadIInv ==
    ASSUME IInv, unloadBegin \/ unloadEnd \/ patchEnd \/ patchRefused \/ assertFails
    PROVE  IInv'
<1>1. CASE unloadBegin
  BY <1>1
     DEF unloadBegin, IInv, TypeOK, Layout, ImageNeedsBlock, PatchesLinkable,
         LoadedImage, LinkedCalls, StubsInside, codeVars, queueVars
<1>2. CASE unloadEnd
  <2>1. NoImage /\ size \in Nat /\ \A s \in DOMAIN relocs : s \in Nat
    BY <1>2 DEF unloadEnd, IInv, ImageNeedsBlock, TypeOK
  <2>2. << >> \in Seq([proc : DOMAIN stubs, addr : Addresses])
    OBVIOUS
  <2>3. TypeOK' /\ Layout' /\ ImageNeedsBlock' /\ PatchesLinkable' /\ LinkedCalls'
    BY <1>2, <2>1, <2>2
       DEF unloadEnd, IInv, TypeOK, Layout, ImageNeedsBlock, PatchesLinkable,
           LinkedCalls, codeVars
  <2>4. LoadedImage' /\ StubsInside'
    <3>1. \A p \in DOMAIN stubs : offsets[p] \in Nat
      BY DEF IInv, TypeOK
    <3>2. /\ { s \in DOMAIN relocs : s < 0 } = {}
          /\ { p \in DOMAIN stubs : offsets[p] < 0 } = {}
      BY <3>1, <2>1
    <3> QED
      BY <1>2, <2>1, <3>2 DEF unloadEnd, IInv, LoadedImage, StubsInside, codeVars
  <2> QED
    BY <2>3, <2>4 DEF IInv
<1>3. CASE patchEnd
  BY <1>3
     DEF patchEnd, PatchesDone, IInv, TypeOK, Layout, ImageNeedsBlock,
         PatchesLinkable, LoadedImage, LinkedCalls, StubsInside, codeVars,
         queueVars
<1>4. CASE patchRefused
  BY <1>4
     DEF patchRefused, vars, IInv, TypeOK, Layout, ImageNeedsBlock,
         PatchesLinkable, PatchesValid, LoadedImage, LinkedCalls, StubsInside,
         codeVars, queueVars, memVars
<1>5. CASE assertFails
  BY <1>5
     DEF assertFails, IInv, TypeOK, Layout, ImageNeedsBlock, PatchesLinkable,
         LoadedImage, LinkedCalls, StubsInside, codeVars, queueVars, memVars
<1> QED
  BY <1>1, <1>2, <1>3, <1>4, <1>5

LEMMA UnloadNextNearIInv ==
    ASSUME IInv, unloadNextNear
    PROVE  IInv'
<1>1. nearPatches \in Seq(NearPatch) /\ nearPatches # << >>
  BY DEF unloadNextNear, IInv, TypeOK
<1>2. Head(nearPatches) \in NearPatch /\ nearPatches' \in Seq(NearPatch)
  BY <1>1 DEF unloadNextNear
<1>3. /\ DOMAIN relocs' = DOMAIN relocs
      /\ relocs' \in [DOMAIN relocs' -> Nat \ {0}]
  BY <1>2, RetargetType DEF unloadNextNear, IInv, TypeOK
<1>4. NoImage /\ pc = "unload"
  BY DEF unloadNextNear, IInv, ImageNeedsBlock
<1> QED
  BY <1>2, <1>3, <1>4
     DEF unloadNextNear, IInv, TypeOK, Layout, ImageNeedsBlock, PatchesLinkable,
         LoadedImage, LinkedCalls, StubsInside, memVars

LEMMA StutterIInv ==
    ASSUME IInv, UNCHANGED vars
    PROVE  IInv'
BY DEF vars, codeVars, queueVars, memVars, IInv, TypeOK, Layout, ImageNeedsBlock,
       PatchesLinkable, PatchesValid, LoadedImage, LinkedCalls, StubsInside

LEMMA NextIInv == IInv /\ [Next]_vars => IInv'
<1> SUFFICES ASSUME IInv, [Next]_vars
             PROVE  IInv'
  OBVIOUS
<1>1. CASE UNCHANGED vars
  BY <1>1, StutterIInv
<1>2. CASE \E prog \in Programs : compile(prog)
  BY <1>2, CompileIInv
<1>3. CASE \E addr \in Addresses : compileStub(addr)
  BY <1>3, CompileStubIInv
<1>4. CASE \E p \in Indices, addr \in Addresses : patchStub(p, addr)
  BY <1>4, PatchStubIInv
<1>5. CASE \E old, new \in Indices : patchCalls(old, new)
  BY <1>5, PatchCallsIInv
<1>6. CASE \E inProc, old, new \in Indices : patchCallsIn(inProc, old, new)
  BY <1>6, PatchCallsInIInv
<1>7. CASE \E minSize \in MinSizes, block \in Blocks :
                load(minSize, block) \/ loadProtectFails(minSize, block)
  BY <1>7, LoadIInv, LoadFailsIInv
<1>8. CASE \E minSize \in MinSizes : loadMapFails(minSize)
  BY <1>8, LoadFailsIInv
<1>9. CASE patchBegin
  BY <1>9, PatchBeginIInv
<1>10. CASE patchNextStub
  BY <1>10, PatchNextStubIInv
<1>11. CASE patchNextNear
  BY <1>11, PatchNextNearIInv
<1>12. CASE unloadBegin \/ unloadEnd \/ patchEnd \/ patchRefused \/ assertFails
  BY <1>12, UnloadIInv
<1>13. CASE unloadNextNear
  BY <1>13, UnloadNextNearIInv
<1> QED
  BY <1>1, <1>2, <1>3, <1>4, <1>5, <1>6, <1>7, <1>8, <1>9, <1>10, <1>11, <1>12,
     <1>13 DEF Next

THEOREM Inductive == Spec => []IInv
BY InitIInv, NextIInv, PTL DEF Spec

-----------------------------------------------------------------------------
(* The theorems.                                                           *)

(* Type correctness of bjit::Module for every client and bound.            *)
THEOREM TypeCorrect == Spec => []TypeOK
<1>1. IInv => TypeOK
  BY DEF IInv
<1> QED
  BY <1>1, Inductive, PTL

(* Whatever is compiled, patched, loaded and reloaded in whatever order,   *)
(* with whatever failures of the system, every near call in executable     *)
(* memory lands on the first byte of the procedure its relocation names.   *)
THEOREM CallsStayLinked == Spec => []LinkedCalls
<1>1. IInv => LinkedCalls
  BY DEF IInv
<1> QED
  BY <1>1, Inductive, PTL

(* Between calls of the client, and all through patch(), the loaded calls  *)
(* and stubs are those of the code below loadSize, no more and no fewer.   *)
THEOREM ImageIsLoaded == Spec => []LoadedImage
<1>1. IInv => LoadedImage
  BY DEF IInv
<1> QED
  BY <1>1, Inductive, PTL

-----------------------------------------------------------------------------
(* The block: what it holds, how it is protected, what waits for it.       *)

(* Who may find the block in which protection.                             *)
Protection ==
    /\ ClientSeesExecutable
    /\ pc = "patch" => perm = "rw"
    /\ pc \in {"unload", "faulted"} => perm = "none"

(* What is copied, and the fields patched in it, end inside the block.     *)
SizesFit ==
    isLoaded => /\ loadSize <= mmapSize /\ loadSize <= size
                /\ \A s \in DOMAIN field : s + FieldBytes <= loadSize

StubsFit ==
    /\ \A p \in DOMAIN stubField : offsets[p] + StubBytes <= loadSize
    /\ pc = "patch" =>
        \A i \in 1..Len(stubPatches) : stubPatches[i].proc \in DOMAIN stubField

(* What load() and patch() leave to the client is in a block of mmap.      *)
Mapped ==
    /\ pc \in {"client", "patch"} /\ isLoaded => exec_mem \in Blocks
    /\ DOMAIN field # {} \/ DOMAIN stubField # {} => exec_mem \in Blocks
    /\ pc = "faulted" <=> exec_mem = MapFailed /\ loadSize > 0

BlockInv == SizesFit /\ StubsFit /\ Mapped /\ QueuesOnlyWhileLoaded /\ Protection

(* The five operations that only add code or ask for changes.              *)
ClientEdit ==
    \/ \E prog \in Programs : compile(prog)
    \/ \E addr \in Addresses : compileStub(addr)
    \/ \E p \in Indices, addr \in Addresses : patchStub(p, addr)
    \/ \E old, new \in Indices : patchCalls(old, new)
    \/ \E inProc, old, new \in Indices : patchCallsIn(inProc, old, new)

LEMMA ClientEditLeavesBlock ==
    ASSUME IInv, ClientEdit
    PROVE  /\ UNCHANGED <<memVars, pc>> /\ pc = "client"
           /\ size' \in Nat /\ size <= size'
           /\ ~isLoaded => UNCHANGED queueVars
<1>1. CASE \E prog \in Programs : compile(prog)
  <2>1. PICK prog \in Programs : compile(prog)
    BY <1>1
  <2>2. Len(prog) \in Nat /\ size \in Nat
    BY ProgramsAssumption DEF IInv, TypeOK
  <2> QED
    BY <2>1, <2>2 DEF compile, ProcSize, CallBytes, FieldBytes, RetBytes
<1>2. CASE \E addr \in Addresses : compileStub(addr)
  BY <1>2 DEF compileStub, StubBytes, IInv, TypeOK
<1>3. CASE \E p \in Indices, addr \in Addresses : patchStub(p, addr)
  BY <1>3 DEF patchStub, queueVars, IInv, TypeOK
<1>4. CASE \E old, new \in Indices : patchCalls(old, new)
  BY <1>4 DEF patchCalls, RequestNear, queueVars, IInv, TypeOK
<1>5. CASE \E inProc, old, new \in Indices : patchCallsIn(inProc, old, new)
  BY <1>5 DEF patchCallsIn, RequestNear, queueVars, IInv, TypeOK
<1> QED
  BY <1>1, <1>2, <1>3, <1>4, <1>5 DEF ClientEdit

LEMMA InitBlockInv == Init => BlockInv
BY BlocksAssumption
   DEF Init, BlockInv, SizesFit, StubsFit, Mapped, QueuesOnlyWhileLoaded, Protection,
       ClientSeesExecutable

LEMMA NextSizesFit ==
    IInv /\ BlockInv /\ [Next]_vars
        => (SizesFit /\ QueuesOnlyWhileLoaded /\ Protection)'
<1> SUFFICES ASSUME IInv, BlockInv, [Next]_vars
             PROVE  (SizesFit /\ QueuesOnlyWhileLoaded /\ Protection)'
  OBVIOUS
<1> USE DEF BlockInv, SizesFit, QueuesOnlyWhileLoaded, Protection,
            ClientSeesExecutable
<1>1. /\ size \in Nat /\ loadSize \in Nat /\ mmapSize \in Nat
      /\ \A s \in DOMAIN relocs : s \in Nat /\ s + FieldBytes <= size
      /\ DOMAIN field \subseteq DOMAIN relocs
  BY DEF IInv, TypeOK, Layout
<1>2. CASE ClientEdit
  BY <1>1, <1>2, ClientEditLeavesBlock DEF memVars, queueVars
<1>3. CASE \E minSize \in MinSizes, block \in Blocks : load(minSize, block)
  <2>1. PICK minSize \in MinSizes, block \in Blocks : load(minSize, block)
    BY <1>3
  <2>2. /\ loadSize' = size /\ mmapSize' >= size /\ UNCHANGED size
        /\ DOMAIN field' = DOMAIN relocs /\ isLoaded' /\ perm' = "rx"
        /\ pc' = "client"
    BY <2>1, <1>1, MinSizesAssumption, BlocksAssumption
       DEF load, Linkable, Map, codeVars, Relocated
  <2> QED
    BY <1>1, <2>2
<1>4. CASE \/ \E minSize \in MinSizes : loadMapFails(minSize)
           \/ \E minSize \in MinSizes, block \in Blocks :
                    loadProtectFails(minSize, block)
  <2>1. PICK minSize \in MinSizes :
            \/ loadMapFails(minSize)
            \/ \E block \in Blocks : loadProtectFails(minSize, block)
    BY <1>4
  <2>2. /\ loadSize' = size /\ mmapSize' >= size /\ UNCHANGED <<size, field, perm>>
        /\ isLoaded' /\ pc = "client" /\ ~isLoaded /\ pc' \in {"unload", "faulted"}
    BY <2>1, <1>1, MinSizesAssumption, BlocksAssumption
       DEF loadMapFails, loadProtectFails, Linkable, Map, codeVars
  <2>3. NoImage
    BY <2>2 DEF IInv, ImageNeedsBlock
  <2> QED
    BY <1>1, <2>2, <2>3
<1>5. CASE patchBegin
  <2>1. /\ loadSize' = size /\ size <= mmapSize /\ UNCHANGED <<size, mmapSize>>
        /\ DOMAIN field' = DOMAIN relocs /\ isLoaded' /\ pc' = "patch"
        /\ perm' = "rw"
    BY <1>5 DEF patchBegin, PatchFits, codeVars
  <2> QED
    BY <1>1, <2>1
<1>6. CASE patchNextStub \/ patchNextNear \/ patchEnd
  <2>1. isLoaded
    BY <1>6 DEF patchNextStub, patchNextNear, patchEnd, PatchesDone, IInv,
                ImageNeedsBlock
  <2> QED
    BY <1>6, <2>1 DEF patchNextStub, patchNextNear, patchEnd, PatchesDone,
                      codeVars, queueVars
<1>7. CASE unloadBegin \/ unloadNextNear \/ unloadEnd
  BY <1>7 DEF unloadBegin, unloadNextNear, unloadEnd, codeVars, queueVars, memVars
<1>8. CASE patchRefused \/ assertFails \/ UNCHANGED vars
  BY <1>8 DEF patchRefused, assertFails, vars, codeVars, queueVars, memVars
<1> QED
  BY <1>2, <1>3, <1>4, <1>5, <1>6, <1>7, <1>8 DEF Next, ClientEdit

(* A stub keeps its place, and patch() applies patches of loaded stubs.    *)
LEMMA NextStubsFit == IInv /\ BlockInv /\ [Next]_vars => StubsFit'
<1> SUFFICES ASSUME IInv, BlockInv, [Next]_vars
             PROVE  StubsFit'
  OBVIOUS
<1>1. /\ offsets \in Seq(Nat) /\ DOMAIN stubField \subseteq DOMAIN stubs
      /\ DOMAIN stubs \subseteq Procs
      /\ stubPatches \in Seq([proc : DOMAIN stubs, addr : Addresses])
      /\ \A p \in DOMAIN stubs : offsets[p] + StubBytes <= size
  BY DEF IInv, TypeOK, StubsInside
<1>2. /\ \A p \in DOMAIN stubField : offsets[p] + StubBytes <= loadSize
      /\ pc = "patch" =>
            \A i \in 1..Len(stubPatches) : stubPatches[i].proc \in DOMAIN stubField
  BY DEF BlockInv, StubsFit
<1>3. CASE ClientEdit
  <2>1. UNCHANGED <<memVars, pc>> /\ pc = "client"
    BY <1>3, ClientEditLeavesBlock
  <2>2. \A p \in Procs : offsets'[p] = offsets[p]
    <3>1. offsets' = offsets \/ offsets' = Append(offsets, size)
      BY <1>3 DEF ClientEdit, compile, compileStub, patchStub, patchCalls,
                  patchCallsIn, RequestNear
    <3>2. offsets \in Seq(Nat) /\ size \in Nat
      BY DEF IInv, TypeOK
    <3>3. CASE offsets' = offsets
      BY <3>3
    <3>4. CASE offsets' = Append(offsets, size)
      BY <3>2, <3>4
    <3> QED
      BY <3>1, <3>3, <3>4
  <2> QED
    BY <1>1, <1>2, <2>1, <2>2 DEF memVars, StubsFit
<1>4. CASE \/ \E minSize \in MinSizes, block \in Blocks : load(minSize, block)
           \/ patchBegin
  <2>1. /\ UNCHANGED <<offsets, size, stubs, stubPatches>> /\ loadSize' = size
        /\ DOMAIN stubField' = DOMAIN stubs
    BY <1>4 DEF load, Map, patchBegin, codeVars, queueVars
  <2> DEFINE Patch == [proc : DOMAIN stubs, addr : Addresses]
  <2>2. \A i \in 1..Len(stubPatches) : stubPatches[i] \in Patch
    <3>1. stubPatches \in Seq(Patch)
      BY <1>1
    <3> HIDE DEF Patch
    <3> QED
      BY <3>1
  <2>3. \A i \in 1..Len(stubPatches) : stubPatches[i].proc \in DOMAIN stubs
    BY <2>2
  <2> HIDE DEF Patch
  <2> QED
    BY <1>1, <2>1, <2>3 DEF StubsFit
<1>5. CASE \/ \E minSize \in MinSizes : loadMapFails(minSize)
           \/ \E minSize \in MinSizes, block \in Blocks :
                    loadProtectFails(minSize, block)
  <2>1. UNCHANGED stubField /\ pc = "client" /\ ~isLoaded /\ pc' # "patch"
    BY <1>5 DEF loadMapFails, loadProtectFails, Linkable
  <2>2. DOMAIN stubField = {}
    BY <2>1 DEF IInv, ImageNeedsBlock
  <2> QED
    BY <2>1, <2>2 DEF StubsFit
<1>6. CASE patchNextStub
  <2>1. /\ UNCHANGED <<offsets, loadSize, pc>> /\ pc = "patch"
        /\ DOMAIN stubField' = DOMAIN stubField
        /\ stubPatches # << >> /\ stubPatches' = Tail(stubPatches)
    BY <1>6 DEF patchNextStub, codeVars
  <2>2. \A i \in 1..Len(stubPatches') :
            i + 1 \in 1..Len(stubPatches) /\ stubPatches'[i] = stubPatches[i + 1]
    BY <1>1, <2>1
  <2> QED
    BY <1>2, <2>1, <2>2 DEF StubsFit
<1>7. CASE patchNextNear \/ patchEnd
  BY <1>2, <1>7 DEF patchNextNear, patchEnd, PatchesDone, codeVars, queueVars, StubsFit
<1>8. CASE unloadBegin
  BY <1>8 DEF unloadBegin, StubsFit
<1>9. CASE unloadNextNear \/ unloadEnd
  <2>1. UNCHANGED stubField /\ pc = "unload" /\ pc' # "patch"
    BY <1>9 DEF unloadNextNear, unloadEnd, memVars
  <2>2. DOMAIN stubField = {}
    BY <2>1 DEF IInv, ImageNeedsBlock
  <2> QED
    BY <2>1, <2>2 DEF StubsFit
<1>10. CASE patchRefused \/ assertFails \/ UNCHANGED vars
  <2>1. UNCHANGED <<offsets, loadSize, stubField, stubPatches>>
        /\ (pc' = "patch" => pc = "patch")
    BY <1>10 DEF patchRefused, assertFails, vars, codeVars, queueVars, memVars
  <2> QED
    BY <1>2, <2>1 DEF StubsFit
<1> QED
  BY <1>3, <1>4, <1>5, <1>6, <1>7, <1>8, <1>9, <1>10 DEF Next, ClientEdit

(* Only the failed mmap leaves an address that is no block's, and with     *)
(* code to copy load() does not come back from there.                      *)
LEMMA NextMapped == IInv /\ BlockInv /\ [Next]_vars => Mapped'
<1> SUFFICES ASSUME IInv, BlockInv, [Next]_vars
             PROVE  Mapped'
  OBVIOUS
<1> USE BlocksAssumption DEF Mapped
<1>1. Mapped /\ size \in Nat /\ (pc \in {"unload", "faulted"} => NoImage)
      /\ (pc = "client" /\ ~isLoaded => NoImage)
  BY DEF BlockInv, IInv, TypeOK, ImageNeedsBlock
<1>2. CASE ClientEdit
  BY <1>1, <1>2, ClientEditLeavesBlock DEF memVars
<1>3. CASE \/ \E minSize \in MinSizes, block \in Blocks :
                    load(minSize, block) \/ loadProtectFails(minSize, block)
  <2>1. /\ exec_mem' \in Blocks /\ pc' \in {"client", "unload"}
    BY <1>3 DEF load, loadProtectFails, Linkable
  <2> QED
    BY <2>1
<1>4. CASE \E minSize \in MinSizes : loadMapFails(minSize)
  <2>1. /\ exec_mem' = MapFailed /\ loadSize' = size /\ UNCHANGED <<field, stubField>>
        /\ pc = "client" /\ ~isLoaded
        /\ pc' = IF size > 0 THEN "faulted" ELSE "unload"
    BY <1>4 DEF loadMapFails, Linkable, Map
  <2> QED
    BY <1>1, <2>1
<1>5. CASE patchBegin
  <2>1. UNCHANGED exec_mem /\ exec_mem \in Blocks /\ pc' = "patch"
    BY <1>1, <1>5 DEF patchBegin
  <2> QED
    BY <2>1
<1>6. CASE patchNextStub \/ patchNextNear \/ patchEnd
  <2>1. UNCHANGED exec_mem /\ pc = "patch" /\ pc' \in {"client", "patch"}
    BY <1>6 DEF patchNextStub, patchNextNear, patchEnd, PatchesDone
  <2>2. exec_mem \in Blocks
    BY <1>1, <2>1 DEF IInv, ImageNeedsBlock
  <2> QED
    BY <2>1, <2>2
<1>7. CASE unloadBegin \/ unloadNextNear \/ unloadEnd
  BY <1>1, <1>7 DEF unloadBegin, unloadNextNear, unloadEnd, memVars
<1>8. CASE patchRefused \/ assertFails \/ UNCHANGED vars
  <2>1. UNCHANGED memVars
        /\ \/ UNCHANGED pc
           \/ pc' = "asserted" /\ pc \in {"client", "patch"}
    BY <1>8 DEF patchRefused, assertFails, PatchesDone, vars
  <2> QED
    BY <1>1, <2>1 DEF memVars
<1> QED
  BY <1>2, <1>3, <1>4, <1>5, <1>6, <1>7, <1>8 DEF Next, ClientEdit

LEMMA NextBlockInv == IInv /\ BlockInv /\ [Next]_vars => BlockInv'
BY NextSizesFit, NextStubsFit, NextMapped DEF BlockInv

(* All that load() and patch() copy or patch, and all that patch() has yet *)
(* to patch, lies inside the block mmap returned; the one exception is a   *)
(* load() of code after a failed mmap, which the process does not survive. *)
THEOREM CodeFitsBlock == Spec => []BlockHoldsCode
<1>1. IInv /\ BlockInv => BlockHoldsCode
  BY BlocksAssumption
     DEF BlockInv, SizesFit, StubsFit, Mapped, BlockHoldsCode, IInv, ImageNeedsBlock
<1> QED
  BY <1>1, Inductive, InitIInv, NextIInv, InitBlockInv, NextBlockInv, PTL DEF Spec

(* No patch of a block outlives it: unload() leaves nothing pending.       *)
THEOREM NoStalePatches == Spec => []QueuesOnlyWhileLoaded
<1>1. BlockInv => QueuesOnlyWhileLoaded
  BY DEF BlockInv
<1> QED
  BY <1>1, Inductive, InitIInv, NextIInv, InitBlockInv, NextBlockInv, PTL DEF Spec

(* Every return of load(), patch() and unload() to the client leaves the   *)
(* block executable and not writable, or unmapped.                         *)
THEOREM ClientFindsExecutable == Spec => []ClientSeesExecutable
<1>1. BlockInv => ClientSeesExecutable
  BY DEF BlockInv, Protection
<1> QED
  BY <1>1, Inductive, InitIInv, NextIInv, InitBlockInv, NextBlockInv, PTL DEF Spec

(* No step writes to a block that is executable before and after it.       *)
THEOREM NoWriteToExecutable == Spec => ExecutableNotWritten
<1>1. ASSUME IInv, BlockInv, [Next]_vars, perm = "rx", perm' = "rx"
      PROVE  UNCHANGED <<field, stubField>>
  <2> USE DEF BlockInv, Protection, ClientSeesExecutable
  <2>1. CASE ClientEdit
    BY <1>1, <2>1, ClientEditLeavesBlock DEF memVars
  <2>2. CASE \/ \E minSize \in MinSizes, block \in Blocks :
                    load(minSize, block) \/ loadProtectFails(minSize, block)
             \/ \E minSize \in MinSizes : loadMapFails(minSize)
    BY <2>2, <1>1 DEF load, loadProtectFails, loadMapFails, Linkable
  <2>3. CASE patchBegin \/ patchNextStub \/ patchNextNear \/ patchEnd
    BY <2>3, <1>1 DEF patchBegin, patchNextStub, patchNextNear, patchEnd
  <2>4. CASE unloadBegin \/ unloadNextNear \/ unloadEnd
    BY <2>4, <1>1 DEF unloadBegin, unloadNextNear, unloadEnd, memVars
  <2>5. CASE patchRefused \/ assertFails \/ UNCHANGED vars
    BY <2>5 DEF patchRefused, assertFails, vars, memVars
  <2> QED
    BY <1>1, <2>1, <2>2, <2>3, <2>4, <2>5 DEF Next, ClientEdit
<1>2. ASSUME IInv, BlockInv, [Next]_vars
      PROVE  [perm = "rx" /\ perm' = "rx" => UNCHANGED <<field, stubField>>]_vars
  BY <1>1, <1>2
<1> QED
  BY <1>2, Inductive, InitIInv, NextIInv, InitBlockInv, NextBlockInv, PTL
     DEF Spec, ExecutableNotWritten

-----------------------------------------------------------------------------
(* The two copies of a stub.                                               *)

Idle(queue, p) == \A i \in 1..Len(queue) : queue[i].proc # p

LastSets(queue, p, addr) ==
    \A i \in 1..Len(queue) :
        /\ queue[i].proc = p
        /\ \A j \in 1..Len(queue) : queue[j].proc = p => j <= i
        => queue[i].addr = addr

(* StubsCoherent is not inductive: the last of the patches that wait must  *)
(* be right for stubs, too, that have not been copied when it is asked     *)
(* for, because patch() copies them before it applies the patches.         *)
StubInv ==
    /\ \A p \in DOMAIN stubs : LastSets(stubPatches, p, stubs[p])
    /\ isLoaded /\ pc \in {"client", "patch"} =>
            \A p \in DOMAIN stubField :
                Idle(stubPatches, p) => stubField[p] = stubs[p]

(* A patch that joins the queue becomes the last one of its stub.          *)
LEMMA AppendedPatch ==
    ASSUME NEW S, NEW queue \in Seq(S), NEW new \in S, NEW p, NEW addr
    PROVE  /\ new.proc = p => /\ LastSets(Append(queue, new), p, new.addr)
                              /\ ~Idle(Append(queue, new), p)
           /\ new.proc # p => /\ LastSets(queue, p, addr)
                                    => LastSets(Append(queue, new), p, addr)
                              /\ Idle(Append(queue, new), p) => Idle(queue, p)
<1> DEFINE q == Append(queue, new)
<1>1. /\ Len(queue) \in Nat /\ Len(q) = Len(queue) + 1 /\ q[Len(q)] = new
      /\ \A i \in 1..Len(queue) : q[i] = queue[i] /\ i \in 1..Len(q)
      /\ \A i \in 1..Len(q) : i \in 1..Len(queue) \/ i = Len(q)
      /\ Len(q) \in 1..Len(q)
  OBVIOUS
<1> HIDE DEF q
<1>2. ASSUME new.proc = p
      PROVE  LastSets(q, p, new.addr) /\ ~Idle(q, p)
  BY <1>1, <1>2 DEF LastSets, Idle
<1>3. ASSUME new.proc # p
      PROVE  /\ LastSets(queue, p, addr) => LastSets(q, p, addr)
             /\ Idle(q, p) => Idle(queue, p)
  BY <1>1, <1>3 DEF LastSets, Idle
<1> QED
  BY <1>2, <1>3 DEF q

(* The first patch leaves the queue: unless it was the last of its stub,   *)
(* the last one stays the last one.                                        *)
LEMMA RemovedPatch ==
    ASSUME NEW S, NEW queue \in Seq(S), queue # << >>, NEW p, NEW addr
    PROVE  /\ LastSets(queue, p, addr) => LastSets(Tail(queue), p, addr)
           /\ Idle(Tail(queue), p) /\ Head(queue).proc = p
                /\ LastSets(queue, p, addr) => Head(queue).addr = addr
           /\ Idle(Tail(queue), p) /\ Head(queue).proc # p => Idle(queue, p)
<1> DEFINE t == Tail(queue)
<1>1. /\ Len(queue) \in Nat /\ Len(t) = Len(queue) - 1
      /\ 1 \in 1..Len(queue) /\ queue[1] = Head(queue)
      /\ \A i \in 1..Len(t) : t[i] = queue[i + 1] /\ i + 1 \in 1..Len(queue)
  OBVIOUS
<1>2. \A i \in 1..Len(queue) :
            i = 1 \/ (i - 1 \in 1..Len(t) /\ queue[i] = t[i - 1])
  BY <1>1
<1> HIDE DEF t
<1>3. ASSUME LastSets(queue, p, addr)
      PROVE  LastSets(t, p, addr)
  <2> SUFFICES ASSUME NEW i \in 1..Len(t), t[i].proc = p,
                      \A j \in 1..Len(t) : t[j].proc = p => j <= i
               PROVE  t[i].addr = addr
    BY DEF LastSets
  <2>1. \A j \in 1..Len(queue) : queue[j].proc = p => j <= i + 1
    BY <1>1, <1>2
  <2> QED
    BY <2>1, <1>1, <1>3 DEF LastSets
<1>4. ASSUME Idle(t, p), Head(queue).proc = p, LastSets(queue, p, addr)
      PROVE  Head(queue).addr = addr
  <2>1. \A j \in 1..Len(queue) : queue[j].proc = p => j <= 1
    BY <1>2, <1>4 DEF Idle
  <2> QED
    BY <2>1, <1>1, <1>4 DEF LastSets
<1>5. ASSUME Idle(t, p), Head(queue).proc # p
      PROVE  Idle(queue, p)
  BY <1>1, <1>2, <1>5 DEF Idle
<1> QED
  BY <1>3, <1>4, <1>5 DEF t

LEMMA InitStubInv == Init => StubInv
BY DEF Init, StubInv, LastSets

(* patchStub() changes the copy in bytes, and asks for the other if there  *)
(* may be one.                                                             *)
LEMMA PatchStubStubInv ==
    ASSUME IInv, BlockInv, StubInv,
           NEW q \in Indices, NEW addr \in Addresses, patchStub(q, addr)
    PROVE  StubInv'
<1> DEFINE new == [proc |-> q, addr |-> addr]
<1>1. /\ UNCHANGED <<exec_mem, stubField, pc>> /\ q \in DOMAIN stubs
      /\ DOMAIN stubs' = DOMAIN stubs /\ stubs'[q] = addr
      /\ \A p \in DOMAIN stubs : p # q => stubs'[p] = stubs[p]
      /\ DOMAIN stubField \subseteq DOMAIN stubs
  BY DEF patchStub, memVars, IInv, TypeOK
<1>2. CASE ~isLoaded
  <2>1. stubPatches' = << >>
    BY <1>2 DEF patchStub, BlockInv, QueuesOnlyWhileLoaded
  <2> QED
    BY <2>1, <1>1, <1>2 DEF StubInv, LastSets
<1>3. CASE isLoaded
  <2> DEFINE Patch == [proc : DOMAIN stubs, addr : Addresses]
  <2>1. stubPatches \in Seq(Patch) /\ new \in Patch
    BY <1>1 DEF IInv, TypeOK
  <2>2. stubPatches' = Append(stubPatches, new)
    BY <1>3 DEF patchStub
  <2>3. new.proc = q /\ new.addr = addr
    OBVIOUS
  <2> HIDE DEF Patch, new
  <2>4. LastSets(stubPatches', q, addr) /\ ~Idle(stubPatches', q)
    BY <2>1, <2>2, <2>3, AppendedPatch
  <2>5. ASSUME NEW p \in DOMAIN stubs, p # q
        PROVE  /\ LastSets(stubPatches', p, stubs[p])
               /\ Idle(stubPatches', p) => Idle(stubPatches, p)
    BY <2>1, <2>2, <2>3, <2>5, AppendedPatch DEF StubInv
  <2> QED
    BY <2>4, <2>5, <1>1 DEF StubInv
<1> QED
  BY <1>2, <1>3

LEMMA PatchNextStubStubInv ==
    ASSUME IInv, StubInv, patchNextStub
    PROVE  StubInv'
<1> DEFINE h == Head(stubPatches)
           Patch == [proc : DOMAIN stubs, addr : Addresses]
<1>1. stubPatches \in Seq(Patch) /\ stubPatches # << >>
  BY DEF patchNextStub, IInv, TypeOK
<1>2. /\ stubPatches' = Tail(stubPatches) /\ UNCHANGED <<stubs, exec_mem, pc>>
      /\ pc = "patch" /\ stubField' = [stubField EXCEPT ![h.proc] = h.addr]
  BY DEF patchNextStub, codeVars
<1> HIDE DEF Patch, h
<1>3. /\ isLoaded /\ DOMAIN stubField \subseteq DOMAIN stubs
      /\ stubField \in [DOMAIN stubField -> Addresses]
  BY <1>2 DEF IInv, TypeOK, ImageNeedsBlock
<1>4. /\ DOMAIN stubField' = DOMAIN stubField
      /\ \A p \in DOMAIN stubField :
            stubField'[p] = IF p = h.proc THEN h.addr ELSE stubField[p]
  BY <1>2, <1>3
<1>5. \A p \in DOMAIN stubs : LastSets(stubPatches, p, stubs[p])
  BY DEF StubInv
<1>6. \A p \in DOMAIN stubs :
        /\ LastSets(stubPatches', p, stubs[p])
        /\ Idle(stubPatches', p) /\ h.proc = p => h.addr = stubs[p]
        /\ Idle(stubPatches', p) /\ h.proc # p => Idle(stubPatches, p)
  BY <1>1, <1>2, <1>5, RemovedPatch DEF h
<1>7. \A p \in DOMAIN stubField : Idle(stubPatches', p) => stubField'[p] = stubs[p]
  BY <1>2, <1>6, <1>3, <1>4 DEF StubInv
<1> QED
  BY <1>2, <1>6, <1>7, <1>4 DEF StubInv

(* A stub that is new has no patch waiting and no copy in memory.          *)
LEMMA CompileStubStubInv ==
    ASSUME IInv, StubInv, NEW addr \in Addresses, compileStub(addr)
    PROVE  StubInv'
<1> DEFINE new == Len(offsets) + 1
<1>1. /\ UNCHANGED <<stubPatches, exec_mem, stubField, pc>>
      /\ DOMAIN stubs' = DOMAIN stubs \cup {new} /\ new \notin DOMAIN stubs
      /\ \A p \in DOMAIN stubs : stubs'[p] = stubs[p]
      /\ DOMAIN stubField \subseteq DOMAIN stubs
  BY DEF compileStub, queueVars, memVars, IInv, TypeOK
<1>2. \A i \in 1..Len(stubPatches) : stubPatches[i].proc \in DOMAIN stubs
  <2> DEFINE Patch == [proc : DOMAIN stubs, addr : Addresses]
  <2>1. stubPatches \in Seq(Patch)
    BY DEF IInv, TypeOK
  <2> HIDE DEF Patch
  <2>2. \A i \in 1..Len(stubPatches) : stubPatches[i] \in Patch
    BY <2>1
  <2> QED
    BY <2>2 DEF Patch
<1> QED
  BY <1>1, <1>2 DEF StubInv, LastSets

LEMMA NextStubInv == IInv /\ BlockInv /\ StubInv /\ [Next]_vars => StubInv'
<1> SUFFICES ASSUME IInv, BlockInv, StubInv, [Next]_vars
             PROVE  StubInv'
  OBVIOUS
<1>1. CASE \/ \E prog \in Programs : compile(prog)
           \/ \E old, new \in Indices : patchCalls(old, new)
           \/ \E inProc, old, new \in Indices : patchCallsIn(inProc, old, new)
           \/ patchNextNear \/ patchEnd
  <2>1. UNCHANGED <<stubs, stubPatches, stubField, exec_mem>>
        /\ pc \in {"client", "patch"}
    BY <1>1 DEF compile, patchCalls, patchCallsIn, RequestNear, patchNextNear,
                patchEnd, PatchesDone, codeVars, queueVars, memVars
  <2> QED
    BY <2>1, <1>1 DEF StubInv
<1>2. CASE \E addr \in Addresses : compileStub(addr)
  BY <1>2, CompileStubStubInv
<1>3. CASE \E p \in Indices, addr \in Addresses : patchStub(p, addr)
  BY <1>3, PatchStubStubInv
<1>4. CASE \E minSize \in MinSizes, block \in Blocks : load(minSize, block)
  <2>1. UNCHANGED <<stubs, stubPatches>> /\ stubField' = stubs
    BY <1>4 DEF load, codeVars, queueVars
  <2> QED
    BY <2>1 DEF StubInv
<1>5. CASE \/ \E minSize \in MinSizes, block \in Blocks : loadProtectFails(minSize, block)
           \/ \E minSize \in MinSizes : loadMapFails(minSize)
           \/ unloadBegin \/ unloadNextNear \/ assertFails
  <2>1. UNCHANGED <<stubs, stubPatches>> /\ pc' \notin {"client", "patch"}
    BY <1>5 DEF loadProtectFails, loadMapFails, unloadBegin, unloadNextNear,
                assertFails, codeVars, queueVars
  <2> QED
    BY <2>1 DEF StubInv
<1>6. CASE patchBegin
  <2>1. /\ UNCHANGED <<stubs, stubPatches, exec_mem>>
        /\ isLoaded /\ pc = "client" /\ DOMAIN stubField' = DOMAIN stubs
        /\ \A p \in DOMAIN stubs : stubField'[p] =
                IF offsets[p] < loadSize THEN stubField[p] ELSE stubs[p]
    BY <1>6 DEF patchBegin, codeVars, queueVars
  <2>2. \A p \in DOMAIN stubs : offsets[p] < loadSize => p \in DOMAIN stubField
    BY <2>1 DEF IInv, LoadedImage
  <2> QED
    BY <2>1, <2>2 DEF StubInv
<1>7. CASE patchNextStub
  BY <1>7, PatchNextStubStubInv
<1>8. CASE unloadEnd
  BY <1>8, BlocksAssumption DEF unloadEnd, codeVars, StubInv, LastSets
<1>9. CASE patchRefused \/ UNCHANGED vars
  BY <1>9 DEF patchRefused, vars, codeVars, queueVars, memVars, StubInv
<1> QED
  BY <1>1, <1>2, <1>3, <1>4, <1>5, <1>6, <1>7, <1>8, <1>9 DEF Next

(* A loaded stub is the stub in bytes, but for patches that wait: it jumps *)
(* where the client sent it last as soon as they have been applied,        *)
(* whether it was compiled before loading or after.                        *)
THEOREM StubsAgree == Spec => []StubsCoherent
<1>1. IInv /\ StubInv => StubsCoherent
  <2> SUFFICES ASSUME IInv, StubInv, isLoaded, pc \in {"client", "patch"},
                      NEW p \in DOMAIN stubField
               PROVE  /\ Idle(stubPatches, p) => stubField[p] = stubs[p]
                      /\ LastSets(stubPatches, p, stubs[p])
    BY DEF StubsCoherent, LastSets, Idle
  <2> QED
    BY DEF StubInv, IInv, TypeOK
<1> QED
  BY <1>1, Inductive, InitIInv, NextIInv, InitBlockInv, NextBlockInv,
     InitStubInv, NextStubInv, PTL DEF Spec

-----------------------------------------------------------------------------
(* A queue of near patches, applied in order.                              *)

Relocations(r) == DOMAIN r \subseteq Nat /\ r \in [DOMAIN r -> Nat \ {0}]

(* f[n] is r after the first n patches of the queue.                       *)
Stages(f, r, queue) ==
    /\ f[0] = r
    /\ \A n \in 1..Len(queue) : f[n] = Retarget(f[n - 1], queue[n])

LEMMA AppliedStages ==
    ASSUME NEW r, Relocations(r), NEW queue \in Seq(NearPatch)
    PROVE  \E f \in [0..Len(queue) -> [DOMAIN r -> Nat \ {0}]] :
                Stages(f, r, queue) /\ Applied(r, queue) = f[Len(queue)]
<1> DEFINE N == Len(queue)
           D == [DOMAIN r -> Nat \ {0}]
           G == [n \in 1..N |-> [x \in D |-> Retarget(x, queue[n])]]
<1>1. N \in Nat
  OBVIOUS
<1>2. r \in D
  BY DEF Relocations
<1>3. ASSUME NEW x \in D, NEW n \in 1..N
      PROVE  Retarget(x, queue[n]) \in D
  <2>1. DOMAIN x = DOMAIN r /\ queue[n] \in NearPatch
    OBVIOUS
  <2> QED
    BY <2>1, RetargetType DEF Relocations
<1>4. G \in [1..N -> [D -> D]]
  BY <1>3
<1>5. PICK f \in [0..N -> D] : f[0] = r /\ \A n \in 1..N : f[n] = G[n][f[n - 1]]
  <2> HIDE DEF G, D, N
  <2>1. Recursive(D, r, N, G) # {}
    BY <1>1, <1>2, <1>4, RecursionExists
  <2> QED
    BY <2>1 DEF Recursive
<1>6. \A n \in 1..N : f[n - 1] \in D /\ G[n][f[n - 1]] = Retarget(f[n - 1], queue[n])
  BY <1>1, <1>5
<1>7. Stages(f, r, queue)
  BY <1>5, <1>6 DEF Stages
<1> DEFINE Is(g) == g = [n \in 0..Len(queue) |->
                            IF n = 0 THEN r ELSE Retarget(g[n - 1], queue[n])]
           after == CHOOSE g : Is(g)
<1>8. Is(f)
  BY <1>1, <1>5, <1>7 DEF Stages
<1>9. Is(after)
  <2> HIDE DEF Is
  <2> QED
    BY <1>8
<1>10. Applied(r, queue) = after[N]
  BY DEF Applied
<1>11. after[0] = r /\ \A n \in 1..N : after[n] = Retarget(after[n - 1], queue[n])
  <2> HIDE DEF after
  <2> QED
    BY <1>1, <1>9
<1> HIDE DEF after, Is
<1> DEFINE S == { n \in Nat : n <= N => after[n] = f[n] }
<1>12. 0 \in S
  BY <1>5, <1>11
<1>13. ASSUME NEW n \in Nat, n \in S, n + 1 <= N
       PROVE  after[n + 1] = f[n + 1]
  <2>1. n + 1 \in 1..N /\ (n + 1) - 1 = n /\ after[n] = f[n]
    BY <1>1, <1>13
  <2> QED
    BY <2>1, <1>7, <1>11 DEF Stages
<1>14. \A n \in Nat : n \in S
  <2>1. \A n \in Nat : n \in S => n + 1 \in S
    BY <1>13
  <2> HIDE DEF S
  <2> QED
    BY <1>12, <2>1, SetOfAllNumbers
<1> QED
  BY <1>1, <1>7, <1>10, <1>14

(* What the stages end in does not depend on how they are found.           *)
LEMMA AppliedIs ==
    ASSUME NEW r, Relocations(r), NEW queue \in Seq(NearPatch),
           NEW g, Stages(g, r, queue)
    PROVE  Applied(r, queue) = g[Len(queue)]
<1>1. PICK f \in [0..Len(queue) -> [DOMAIN r -> Nat \ {0}]] :
            Stages(f, r, queue) /\ Applied(r, queue) = f[Len(queue)]
  BY AppliedStages
<1> DEFINE S == { n \in Nat : n <= Len(queue) => g[n] = f[n] }
<1>2. Len(queue) \in Nat
  OBVIOUS
<1>3. 0 \in S
  BY <1>1 DEF Stages
<1>4. \A n \in Nat : n \in S => n + 1 \in S
  BY <1>1, <1>2 DEF Stages
<1>5. Len(queue) \in S
  <2> HIDE DEF S
  <2> QED
    BY <1>2, <1>3, <1>4, SetOfAllNumbers
<1> QED
  BY <1>1, <1>2, <1>5

LEMMA AppliedType ==
    ASSUME NEW r, Relocations(r), NEW queue \in Seq(NearPatch)
    PROVE  Applied(r, queue) \in [DOMAIN r -> Nat \ {0}]
<1>1. PICK f \in [0..Len(queue) -> [DOMAIN r -> Nat \ {0}]] :
            Applied(r, queue) = f[Len(queue)]
  BY AppliedStages
<1>2. Len(queue) \in 0..Len(queue)
  OBVIOUS
<1> QED
  BY <1>1, <1>2

LEMMA AppliedEmpty ==
    ASSUME NEW r, Relocations(r)
    PROVE  Applied(r, << >>) = r
<1>1. << >> \in Seq(NearPatch) /\ Len(<< >>) = 0
  OBVIOUS
<1>2. PICK f : Stages(f, r, << >>) /\ Applied(r, << >>) = f[Len(<< >>)]
  BY <1>1, AppliedStages
<1> QED
  BY <1>1, <1>2 DEF Stages

(* A patch that is added is applied after all the others.                  *)
LEMMA AppliedAppend ==
    ASSUME NEW r, Relocations(r), NEW queue \in Seq(NearPatch), NEW p \in NearPatch
    PROVE  Applied(r, Append(queue, p)) = Retarget(Applied(r, queue), p)
<1> DEFINE N == Len(queue)
           long == Append(queue, p)
<1>1. /\ N \in Nat /\ long \in Seq(NearPatch) /\ Len(long) = N + 1
      /\ long[N + 1] = p /\ \A n \in 1..N : long[n] = queue[n]
  OBVIOUS
<1>2. PICK f \in [0..N -> [DOMAIN r -> Nat \ {0}]] :
            Stages(f, r, queue) /\ Applied(r, queue) = f[N]
  BY AppliedStages
<1> DEFINE g == [n \in 0..(N + 1) |-> IF n = N + 1 THEN Retarget(f[N], p) ELSE f[n]]
<1>3. g[N + 1] = Retarget(f[N], p) /\ \A n \in 0..N : g[n] = f[n]
  BY <1>1
<1> HIDE DEF g, long
<1>4. Stages(g, r, long)
  <2>1. g[0] = r
    BY <1>1, <1>2, <1>3 DEF Stages
  <2>2. ASSUME NEW n \in 1..(N + 1)
        PROVE  g[n] = Retarget(g[n - 1], long[n])
    <3>1. CASE n = N + 1
      BY <3>1, <1>1, <1>3
    <3>2. CASE n \in 1..N
      BY <3>2, <1>1, <1>2, <1>3 DEF Stages
    <3> QED
      BY <3>1, <3>2, <1>1
  <2> QED
    BY <2>1, <2>2, <1>1 DEF Stages
<1>5. Applied(r, long) = g[N + 1]
  BY <1>1, <1>4, AppliedIs
<1> QED
  BY <1>2, <1>3, <1>5 DEF long

(* To apply the first patch of a queue and then the rest is to apply all.  *)
LEMMA AppliedTail ==
    ASSUME NEW r, Relocations(r), NEW queue \in Seq(NearPatch), queue # << >>
    PROVE  Applied(Retarget(r, Head(queue)), Tail(queue)) = Applied(r, queue)
<1> DEFINE N == Len(queue)
           rest == Tail(queue)
           first == Retarget(r, Head(queue))
<1>1. /\ N \in Nat \ {0} /\ rest \in Seq(NearPatch) /\ Len(rest) = N - 1
      /\ queue[1] = Head(queue) /\ Head(queue) \in NearPatch
      /\ \A n \in 1..(N - 1) : rest[n] = queue[n + 1]
  OBVIOUS
<1>2. PICK f \in [0..N -> [DOMAIN r -> Nat \ {0}]] :
            Stages(f, r, queue) /\ Applied(r, queue) = f[N]
  BY AppliedStages
<1>3. Relocations(first)
  BY <1>1, RetargetType DEF Relocations
<1> DEFINE g == [n \in 0..(N - 1) |-> f[n + 1]]
<1>4. \A n \in 0..(N - 1) : g[n] = f[n + 1]
  OBVIOUS
<1> HIDE DEF g, rest
<1>5. Stages(g, first, rest)
  <2>1. g[0] = first
    BY <1>1, <1>2, <1>4 DEF Stages
  <2>2. ASSUME NEW n \in 1..(N - 1)
        PROVE  g[n] = Retarget(g[n - 1], rest[n])
    <3>1. /\ n \in 0..(N - 1) /\ n - 1 \in 0..(N - 1) /\ n + 1 \in 1..N
          /\ (n + 1) - 1 = n /\ (n - 1) + 1 = n
      BY <1>1
    <3>2. g[n] = f[n + 1] /\ g[n - 1] = f[n]
      BY <1>4, <3>1
    <3>3. f[n + 1] = Retarget(f[n], queue[n + 1])
      BY <3>1, <1>2 DEF Stages
    <3> QED
      BY <3>2, <3>3, <1>1
  <2> QED
    BY <2>1, <2>2, <1>1 DEF Stages
<1> HIDE DEF first
<1>6. Applied(first, rest) = g[N - 1]
  BY <1>1, <1>3, <1>5, AppliedIs
<1> QED
  BY <1>1, <1>2, <1>4, <1>6 DEF first, rest

(* New sites do not change what becomes of the old ones.                   *)
LEMMA AppliedExtends ==
    ASSUME NEW r, Relocations(r), NEW q, Relocations(q),
           DOMAIN r \subseteq DOMAIN q, \A s \in DOMAIN r : q[s] = r[s],
           NEW queue \in Seq(NearPatch)
    PROVE  \A s \in DOMAIN r : Applied(q, queue)[s] = Applied(r, queue)[s]
<1>1. PICK f \in [0..Len(queue) -> [DOMAIN r -> Nat \ {0}]] :
            Stages(f, r, queue) /\ Applied(r, queue) = f[Len(queue)]
  BY AppliedStages
<1>2. PICK g \in [0..Len(queue) -> [DOMAIN q -> Nat \ {0}]] :
            Stages(g, q, queue) /\ Applied(q, queue) = g[Len(queue)]
  BY AppliedStages
<1> DEFINE Agree(n) == \A s \in DOMAIN r : g[n][s] = f[n][s]
           S == { n \in Nat : n <= Len(queue) => Agree(n) }
<1>3. Len(queue) \in Nat
  OBVIOUS
<1>4. 0 \in S
  BY <1>1, <1>2 DEF Stages
<1>5. ASSUME NEW n \in Nat, n \in S, n + 1 <= Len(queue)
      PROVE  Agree(n + 1)
  <2>1. /\ f[n + 1] = Retarget(f[n], queue[n + 1])
        /\ g[n + 1] = Retarget(g[n], queue[n + 1])
        /\ DOMAIN f[n] = DOMAIN r /\ DOMAIN g[n] = DOMAIN q /\ Agree(n)
    BY <1>1, <1>2, <1>3, <1>5 DEF Stages
  <2> QED
    BY <2>1 DEF Retarget
<1>6. Len(queue) \in S
  <2>1. ASSUME NEW n \in Nat, n \in S
        PROVE  n + 1 \in S
    <3> HIDE DEF Agree
    <3> QED
      BY <1>5, <2>1
  <2> HIDE DEF S
  <2> QED
    BY <1>3, <1>4, <2>1, SetOfAllNumbers
<1> QED
  BY <1>1, <1>2, <1>3, <1>6

-----------------------------------------------------------------------------
(* The layout of the code: procedures follow one another, and a call       *)
(* belongs to the procedure whose range its field is in.                   *)

USE DEF isLoaded, Procs, CallTarget, NoImage

LinkInv ==
    /\ Len(offsets) <= MaxProcs
    /\ \A p \in Procs : offsets[p] < size
    /\ \A p, q \in Procs : p < q => offsets[p] < offsets[q]
    /\ pc = "patch" => loadSize = size

AllInv == IInv /\ BlockInv /\ StubInv /\ LinkInv

(* The c[2]-th call of procedure c[1], if it has one, whatever is there.   *)
Located(c) ==
    c \in Procs \X (1..(size \div CallBytes)) /\ SiteOf(c) < RangeEnd(c[1])

LEMMA InitLinkInv == Init => LinkInv
BY BoundsAssumption DEF Init, LinkInv

LEMMA AppendedOffset ==
    ASSUME IInv, LinkInv, Len(offsets) < MaxProcs,
           offsets' = Append(offsets, size), size' \in Nat, size < size',
           UNCHANGED pc, pc = "client"
    PROVE  LinkInv'
<1>1. /\ offsets \in Seq(Nat) /\ size \in Nat /\ Len(offsets) \in Nat
      /\ Len(offsets') = Len(offsets) + 1
      /\ \A p \in Procs : offsets'[p] = offsets[p] /\ offsets[p] \in Nat
      /\ offsets'[Len(offsets) + 1] = size
  BY DEF IInv, TypeOK
<1>2. \A p \in Procs' : p \in Procs \/ p = Len(offsets) + 1
  BY <1>1
<1>3. \A p \in Procs' : offsets'[p] < size'
  BY <1>1, <1>2 DEF LinkInv
<1>4. \A p, q \in Procs' : p < q => offsets'[p] < offsets'[q]
  BY <1>1, <1>2 DEF LinkInv
<1>5. Len(offsets') <= MaxProcs
  BY <1>1, BoundsAssumption
<1> QED
  BY <1>3, <1>4, <1>5 DEF LinkInv

LEMMA NextLinkInv == IInv /\ BlockInv /\ LinkInv /\ [Next]_vars => LinkInv'
<1> SUFFICES ASSUME IInv, BlockInv, LinkInv, [Next]_vars
             PROVE  LinkInv'
  OBVIOUS
<1>1. CASE \E prog \in Programs : compile(prog)
  <2>1. PICK prog \in Programs : compile(prog)
    BY <1>1
  <2>2. size' \in Nat /\ size < size'
    BY <2>1, ProgramsAssumption
       DEF compile, ProcSize, CallBytes, FieldBytes, RetBytes, IInv, TypeOK
  <2> QED
    BY <2>1, <2>2, AppendedOffset DEF compile
<1>2. CASE \E addr \in Addresses : compileStub(addr)
  <2>1. PICK addr \in Addresses : compileStub(addr)
    BY <1>2
  <2>2. size' \in Nat /\ size < size'
    BY <2>1 DEF compileStub, StubBytes, IInv, TypeOK
  <2> QED
    BY <2>1, <2>2, AppendedOffset DEF compileStub
<1>3. CASE \/ \E p \in Indices, addr \in Addresses : patchStub(p, addr)
           \/ \E old, new \in Indices : patchCalls(old, new)
           \/ \E inProc, old, new \in Indices : patchCallsIn(inProc, old, new)
  BY <1>3 DEF patchStub, patchCalls, patchCallsIn, RequestNear, memVars, LinkInv
<1>4. CASE \/ \E minSize \in MinSizes, block \in Blocks :
                    load(minSize, block) \/ loadProtectFails(minSize, block)
           \/ \E minSize \in MinSizes : loadMapFails(minSize)
  BY <1>4 DEF load, loadProtectFails, loadMapFails, Linkable, codeVars, LinkInv
<1>5. CASE patchBegin
  BY <1>5 DEF patchBegin, codeVars, LinkInv
<1>6. CASE patchNextStub \/ patchNextNear \/ patchEnd
  BY <1>6 DEF patchNextStub, patchNextNear, patchEnd, codeVars, LinkInv
<1>7. CASE unloadBegin \/ unloadNextNear \/ unloadEnd
  BY <1>7 DEF unloadBegin, unloadNextNear, unloadEnd, codeVars, memVars, LinkInv
<1>8. CASE patchRefused \/ assertFails \/ UNCHANGED vars
  BY <1>8 DEF patchRefused, assertFails, vars, codeVars, memVars, LinkInv
<1> QED
  BY <1>1, <1>2, <1>3, <1>4, <1>5, <1>6, <1>7, <1>8 DEF Next

LEMMA Ranges ==
    ASSUME IInv, LinkInv, NEW p \in Procs
    PROVE  /\ offsets[p] \in Nat /\ RangeEnd(p) \in Nat
           /\ offsets[p] < RangeEnd(p) /\ RangeEnd(p) <= size
           /\ \A q \in Procs : p < q => RangeEnd(p) <= offsets[q]
<1>1. /\ offsets \in Seq(Nat) /\ size \in Nat /\ Len(offsets) \in Nat
      /\ \A q \in Procs : offsets[q] \in Nat
  BY DEF IInv, TypeOK
<1>2. CASE p + 1 \in Procs
  <2>1. RangeEnd(p) = offsets[p + 1]
    BY <1>2 DEF RangeEnd
  <2>2. \A q \in Procs : p < q => q = p + 1 \/ p + 1 < q
    BY <1>1
  <2> QED
    BY <1>1, <1>2, <2>1, <2>2 DEF LinkInv
<1>3. CASE p + 1 \notin Procs
  BY <1>1, <1>3 DEF RangeEnd, LinkInv
<1> QED
  BY <1>2, <1>3

(* The field of a call lies in the range of its procedure and of no other. *)
LEMMA SiteInRange ==
    ASSUME IInv, LinkInv, NEW c, Located(c)
    PROVE  /\ c[1] \in Procs /\ SiteOf(c) \in Nat /\ SiteOf(c) < size
           /\ \A p \in Procs :
                RangeStart(p) <= SiteOf(c) /\ SiteOf(c) < RangeEnd(p) <=> c[1] = p
<1>1. c[1] \in Procs /\ c[2] \in 1..(size \div CallBytes)
  BY DEF Located
<1>2. c[2] \in Nat \ {0}
  BY <1>1
<1>3. offsets[c[1]] \in Nat /\ RangeEnd(c[1]) <= size /\ RangeEnd(c[1]) \in Nat
  BY <1>1, Ranges
<1>4. SiteOf(c) \in Nat /\ offsets[c[1]] < SiteOf(c) /\ SiteOf(c) < RangeEnd(c[1])
  BY <1>2, <1>3 DEF Located, SiteOf, FieldAt, CallBytes, FieldBytes
<1>5. ASSUME NEW p \in Procs, RangeStart(p) <= SiteOf(c), SiteOf(c) < RangeEnd(p)
      PROVE  c[1] = p
  <2>1. offsets[p] \in Nat /\ RangeEnd(p) \in Nat /\ p \in Int /\ c[1] \in Int
    BY <1>1, <1>5, Ranges
  <2>2. CASE p < c[1]
    <3>1. RangeEnd(p) <= offsets[c[1]]
      BY <2>2, <1>1, Ranges
    <3> QED
      BY <3>1, <2>1, <1>3, <1>4, <1>5
  <2>3. CASE c[1] < p
    <3>1. RangeEnd(c[1]) <= offsets[p]
      BY <2>3, <1>1, Ranges
    <3> QED
      BY <3>1, <2>1, <1>3, <1>4, <1>5 DEF RangeStart
  <2> QED
    BY <2>1, <2>2, <2>3
<1>6. RangeStart(c[1]) <= SiteOf(c)
  BY <1>3, <1>4 DEF RangeStart
<1>7. size \in Nat
  BY DEF IInv, TypeOK
<1> QED
  BY <1>1, <1>3, <1>4, <1>5, <1>6, <1>7

LEMMA CallsLocated ==
    ASSUME NEW S, NEW c
    PROVE  c \in CallsIn(S) <=> Located(c) /\ SiteOf(c) \in S
BY DEF CallsIn, Located, SiteOf

(* A loaded call reaches the procedure of its relocation and no other.     *)
LEMMA ReachedIsTarget ==
    IInv /\ LinkInv => \A s \in DOMAIN field : Reached(s) = relocs[s]
<1> SUFFICES ASSUME IInv, LinkInv, NEW s \in DOMAIN field
             PROVE  Reached(s) = relocs[s]
  OBVIOUS
<1>1. relocs[s] \in Procs /\ s + FieldBytes + field[s] = offsets[relocs[s]]
  BY DEF IInv, LinkedCalls
<1>2. \A p, q \in Procs : offsets[p] = offsets[q] => p = q
  <2>1. \A p \in Procs : offsets[p] \in Nat /\ p \in Int
    BY DEF IInv, TypeOK
  <2> QED
    BY <2>1 DEF LinkInv
<1> QED
  BY <1>1, <1>2 DEF Reached

-----------------------------------------------------------------------------
(* What the client asked for, and what runs.                               *)

LEMMA RelocationsType == IInv => Relocations(relocs)
BY DEF IInv, TypeOK, Relocations

(* A request takes effect on the calls that exist, at once or in the queue.*)
LEMMA RequestNearApplies ==
    ASSUME IInv, BlockInv, NEW p \in NearPatch, RequestNear(p)
    PROVE  /\ Requested' = Retarget(Requested, p)
           /\ DOMAIN relocs' = DOMAIN relocs
<1>1. Relocations(relocs) /\ nearPatches \in Seq(NearPatch)
  BY RelocationsType DEF IInv, TypeOK
<1>2. CASE isLoaded
  BY <1>1, <1>2, AppliedAppend DEF RequestNear, Requested
<1>3. CASE ~isLoaded
  <2>1. nearPatches = << >> /\ nearPatches' = << >> /\ relocs' = Retarget(relocs, p)
    BY <1>3 DEF RequestNear, BlockInv, QueuesOnlyWhileLoaded
  <2>2. Relocations(relocs') /\ DOMAIN relocs' = DOMAIN relocs
    BY <1>1, <2>1, RetargetType DEF Relocations
  <2> QED
    BY <1>1, <2>1, <2>2, AppliedEmpty DEF Requested
<1> QED
  BY <1>2, <1>3

(* Requests taken from the queue are still requests.                       *)
LEMMA NextNearApplies ==
    ASSUME IInv, nearPatches # << >>, nearPatches' = Tail(nearPatches),
           relocs' = Retarget(relocs, Head(nearPatches))
    PROVE  Requested' = Requested /\ DOMAIN relocs' = DOMAIN relocs
<1>1. Relocations(relocs) /\ nearPatches \in Seq(NearPatch)
  BY RelocationsType DEF IInv, TypeOK
<1>2. Head(nearPatches) \in NearPatch
  BY <1>1
<1>3. DOMAIN relocs' = DOMAIN relocs
  BY <1>1, <1>2, RetargetType DEF Relocations
<1> QED
  BY <1>1, <1>3, AppliedTail DEF Requested

LEMMA CallsKept ==
    ASSUME UNCHANGED <<offsets, size>>, Requested' = Requested,
           DOMAIN relocs' = DOMAIN relocs
    PROVE  RequestedCalls' = RequestedCalls
BY DEF RequestedCalls, CallsIn, SiteOf, RangeEnd

LEMMA RunningKept ==
    ASSUME UNCHANGED <<offsets, size, field, stubField>>, Executable' = Executable
    PROVE  RunningCode' = RunningCode
BY DEF RunningCode, CallsIn, SiteOf, RangeEnd, Reached

LEMMA NothingRuns ==
    ASSUME ~Executable
    PROVE  RunningCode = Link!Nothing
BY DEF RunningCode, Link!Nothing

LEMMA NothingRunsNext ==
    ASSUME ~Executable'
    PROVE  RunningCode' = Link!Nothing
BY DEF RunningCode, Link!Nothing

(* The steps that are none for the client's program: what was asked for    *)
(* and what runs stay as they are.                                         *)
LEMMA NoLinkStep ==
    ASSUME UNCHANGED <<offsets, size, field, stubField, stubs>>,
           Requested' = Requested, DOMAIN relocs' = DOMAIN relocs,
           Executable' = Executable, (perm = "rw")' = (perm = "rw")
    PROVE  UNCHANGED <<RequestedCalls, stubs, RunningCode, LinkState>>
<1>1. RequestedCalls' = RequestedCalls
  BY CallsKept
<1>2. RunningCode' = RunningCode
  BY RunningKept
<1>3. LinkState' = LinkState
  BY DEF LinkState
<1> QED
  BY <1>1, <1>2, <1>3

-----------------------------------------------------------------------------
(* Adding code.                                                            *)

LEMMA Fifths ==
    ASSUME NEW a \in Nat, NEW b \in Nat, a <= b, NEW x \in Nat
    PROVE  /\ a \div 5 \in Nat /\ a \div 5 <= b \div 5
           /\ 5 * x <= a => x <= a \div 5
OBVIOUS

(* New code adds calls behind the old code and leaves every call where it  *)
(* was; none of the new ones lies in the old code.                         *)
LEMMA OldCallsStay ==
    ASSUME IInv, offsets' = Append(offsets, size), size' \in Nat, size < size',
           NEW c
    PROVE  /\ Located(c) => Located(c)' /\ SiteOf(c)' = SiteOf(c)
           /\ Located(c)' /\ SiteOf(c)' + FieldBytes <= size
                => Located(c) /\ SiteOf(c)' = SiteOf(c)
<1> DEFINE last == Len(offsets)
<1>1. /\ offsets \in Seq(Nat) /\ size \in Nat /\ last \in Nat
      /\ Len(offsets') = last + 1 /\ offsets'[last + 1] = size
      /\ \A p \in Procs : offsets'[p] = offsets[p] /\ offsets[p] \in Nat
  BY DEF IInv, TypeOK
<1>2. /\ Procs \subseteq Procs'
      /\ \A p \in Procs' : p \in Procs \/ p = last + 1
      /\ \A p \in Procs : p + 1 \in Procs' /\ (p + 1 \in Procs \/ p = last)
  BY <1>1
<1>3. \A p \in Procs : RangeEnd(p)' = RangeEnd(p)
  BY <1>1, <1>2 DEF RangeEnd
<1>4. /\ size \div 5 \in Nat /\ size' \div 5 \in Nat
      /\ size \div 5 <= size' \div 5
      /\ \A n \in Nat : 5 * n <= size => n <= size \div 5
  <2>1. size \in Nat /\ size' \in Nat /\ size <= size'
    BY <1>1
  <2>2. \A a, b, n \in Nat :
            a <= b => /\ a \div 5 \in Nat /\ a \div 5 <= b \div 5
                      /\ 5 * n <= a => n <= a \div 5
    BY Fifths
  <2>3. 0 \in Nat /\ size' <= size'
    BY <2>1
  <2> QED
    BY <2>1, <2>2, <2>3
<1>5. ASSUME Located(c)
      PROVE  Located(c)' /\ SiteOf(c)' = SiteOf(c)
  <2>1. c[1] \in Procs /\ c[2] \in 1..(size \div 5)
    BY <1>5 DEF Located, CallBytes, FieldBytes
  <2>2. c \in Procs' \X (1..(size' \div 5))
    BY <1>2, <1>4, <1>5 DEF Located, CallBytes, FieldBytes
  <2>3. SiteOf(c)' = SiteOf(c)
    BY <2>1, <1>1 DEF SiteOf
  <2> QED
    BY <2>1, <2>2, <2>3, <1>3, <1>5 DEF Located, CallBytes, FieldBytes
<1>6. ASSUME Located(c)', SiteOf(c)' + FieldBytes <= size
      PROVE  Located(c) /\ SiteOf(c)' = SiteOf(c)
  <2>1. c \in Procs' \X (1..(size' \div 5))
    BY <1>6 DEF Located, CallBytes, FieldBytes
  <2>2. c[2] \in Nat \ {0}
    BY <2>1, <1>4
  <2>3. SiteOf(c)' = offsets'[c[1]] + 5 * (c[2] - 1) + 1
    BY DEF SiteOf, FieldAt, CallBytes, FieldBytes
  <2>4. c[1] \in Procs
    <3>1. c[1] # last + 1
      BY <2>2, <2>3, <1>1, <1>6 DEF FieldBytes
    <3> QED
      BY <3>1, <2>1, <1>2
  <2>5. SiteOf(c)' = SiteOf(c)
    BY <2>4, <1>1 DEF SiteOf
  <2>6. 5 * c[2] <= size
    <3>1. offsets'[c[1]] \in Nat
      BY <2>4, <1>1
    <3>2. size \in Nat /\ SiteOf(c)' + 4 <= size
      BY <1>1, <1>6 DEF FieldBytes
    <3>3. \A a, n, z \in Nat : a + 5 * (n - 1) + 1 + 4 <= z => 5 * n <= z
      OBVIOUS
    <3> QED
      BY <2>2, <2>3, <3>1, <3>2, <3>3
  <2>7. c[2] \in 1..(size \div 5)
    BY <2>2, <2>6, <1>4
  <2>8. c \in Procs \X (1..(size \div 5))
    BY <2>1, <2>4, <2>7
  <2> QED
    BY <2>4, <2>5, <2>8, <1>3, <1>6 DEF Located, CallBytes, FieldBytes
<1> QED
  BY <1>5, <1>6

LEMMA ReachedIsTargetNext ==
    (IInv /\ LinkInv)' => (\A s \in DOMAIN field : Reached(s) = relocs[s])'
BY ReachedIsTarget, PTL

LEMMA AddsCode ==
    ASSUME IInv, LinkInv, (IInv /\ LinkInv)',
           offsets' = Append(offsets, size), size' \in Nat, size < size',
           UNCHANGED <<nearPatches, memVars, pc>>,
           DOMAIN relocs \subseteq DOMAIN relocs',
           \A s \in DOMAIN relocs : relocs'[s] = relocs[s],
           Link!Extends(stubs', stubs)
    PROVE  Link!AddCode
<1> USE DEF memVars
<1>1. \A s \in DOMAIN field : s \in DOMAIN relocs /\ s + FieldBytes <= size
  BY DEF IInv, TypeOK, Layout
<1>2. \A s \in DOMAIN relocs : Requested'[s] = Requested[s]
  <2>1. Relocations(relocs) /\ nearPatches \in Seq(NearPatch)
    BY RelocationsType DEF IInv, TypeOK
  <2>2. Relocations(relocs')
    BY DEF IInv, TypeOK, Relocations
  <2> QED
    BY <2>1, <2>2, AppliedExtends DEF Requested
<1>3. Link!Extends(RequestedCalls', RequestedCalls)
  <2>1. ASSUME NEW c \in CallsIn(DOMAIN relocs)
        PROVE  c \in CallsIn(DOMAIN relocs)' /\ SiteOf(c)' = SiteOf(c)
    <3>1. Located(c) /\ SiteOf(c) \in DOMAIN relocs
      BY CallsLocated
    <3>2. Located(c)' /\ SiteOf(c)' = SiteOf(c)
      BY <3>1, OldCallsStay
    <3> QED
      BY <3>1, <3>2 DEF CallsIn, Located, SiteOf
  <2>2. ASSUME NEW c \in CallsIn(DOMAIN relocs)
        PROVE  RequestedCalls'[c] = RequestedCalls[c]
    BY <2>1, <1>2, CallsLocated DEF RequestedCalls
  <2> QED
    BY <2>1, <2>2 DEF Link!Extends, RequestedCalls
<1>4. CallsIn(DOMAIN field)' = CallsIn(DOMAIN field)
  <2>1. ASSUME NEW c
        PROVE  c \in CallsIn(DOMAIN field)' <=> c \in CallsIn(DOMAIN field)
    <3>1. c \in CallsIn(DOMAIN field)' <=> Located(c)' /\ SiteOf(c)' \in DOMAIN field
      BY DEF CallsIn, Located, SiteOf
    <3>2. c \in CallsIn(DOMAIN field) <=> Located(c) /\ SiteOf(c) \in DOMAIN field
      BY CallsLocated
    <3>3. /\ Located(c) => Located(c)' /\ SiteOf(c)' = SiteOf(c)
          /\ Located(c)' /\ SiteOf(c)' + FieldBytes <= size
                => Located(c) /\ SiteOf(c)' = SiteOf(c)
      BY OldCallsStay
    <3> QED
      BY <3>1, <3>2, <3>3, <1>1
  <2> HIDE DEF CallsIn
  <2> QED
    BY <2>1
<1>5. \A c \in CallsIn(DOMAIN field) : Reached(SiteOf(c))' = Reached(SiteOf(c))
  <2> SUFFICES ASSUME NEW c \in CallsIn(DOMAIN field)
               PROVE  Reached(SiteOf(c))' = Reached(SiteOf(c))
    OBVIOUS
  <2>1. SiteOf(c) \in DOMAIN field /\ SiteOf(c)' = SiteOf(c)
    BY CallsLocated, OldCallsStay
  <2>2. Reached(SiteOf(c)) = relocs[SiteOf(c)]
    BY <2>1, ReachedIsTarget
  <2>3. Reached(SiteOf(c))' = relocs'[SiteOf(c)]
    <3> DEFINE s == SiteOf(c)
    <3>1. s' = s /\ s \in DOMAIN field'
      BY <2>1
    <3> HIDE DEF s
    <3>2. Reached(s)' = relocs'[s]
      BY <3>1, ReachedIsTargetNext DEF Reached
    <3> QED
      BY <3>2 DEF s
  <2> QED
    BY <2>1, <2>2, <2>3, <1>1
<1>6. RunningCode' = RunningCode
  BY <1>4, <1>5 DEF RunningCode, Executable
<1>7. LinkState' = LinkState
  BY DEF LinkState, Executable
<1> QED
  BY <1>3, <1>6, <1>7 DEF Link!AddCode

LEMMA CompileLinks ==
    ASSUME IInv, LinkInv, (IInv /\ LinkInv)', NEW prog \in Programs, compile(prog)
    PROVE  Link!AddCode
<1>1. size' \in Nat /\ size < size'
  BY ProgramsAssumption
     DEF compile, ProcSize, CallBytes, FieldBytes, RetBytes, IInv, TypeOK
<1>2. /\ DOMAIN relocs \subseteq DOMAIN relocs'
      /\ \A s \in DOMAIN relocs : relocs'[s] = relocs[s]
  BY DEF compile
<1>3. Link!Extends(stubs', stubs)
  BY DEF compile, Link!Extends
<1> QED
  BY <1>1, <1>2, <1>3, AddsCode DEF compile, queueVars

LEMMA CompileStubLinks ==
    ASSUME IInv, LinkInv, (IInv /\ LinkInv)', NEW addr \in Addresses,
           compileStub(addr)
    PROVE  Link!AddCode
<1>1. size' \in Nat /\ size < size'
  BY DEF compileStub, StubBytes, IInv, TypeOK
<1>2. Link!Extends(stubs', stubs)
  BY DEF compileStub, Link!Extends
<1> QED
  BY <1>1, <1>2, AddsCode DEF compileStub, queueVars

-----------------------------------------------------------------------------
(* Requesting changes.                                                     *)

LEMMA PatchStubLinks ==
    ASSUME NEW p \in Indices, NEW addr \in Addresses, patchStub(p, addr)
    PROVE  Link!RedirectStub(p, addr)
<1>1. /\ UNCHANGED <<offsets, size, relocs, nearPatches, memVars, pc>>
      /\ p \in DOMAIN stubs /\ stubs' = [stubs EXCEPT ![p] = addr]
  BY DEF patchStub
<1>2. Requested' = Requested /\ Executable' = Executable
  BY <1>1 DEF Requested, Applied, Executable, memVars
<1>3. RequestedCalls' = RequestedCalls /\ RunningCode' = RunningCode
  BY <1>1, <1>2, CallsKept, RunningKept DEF memVars
<1>4. LinkState' = LinkState
  BY <1>1, <1>2 DEF LinkState, memVars
<1> QED
  BY <1>1, <1>3, <1>4 DEF Link!RedirectStub

(* A near patch redirects the calls whose fields are in its range.         *)
LEMMA RequestNearLinks ==
    ASSUME IInv, BlockInv, NEW p \in NearPatch, RequestNear(p), NEW within,
           \A c \in CallsIn(DOMAIN relocs) : InRange(SiteOf(c), p) <=> c[1] \in within
    PROVE  Link!RedirectCalls(within, p.old, p.new)
<1>1. UNCHANGED <<offsets, size, stubs, memVars, pc>>
  BY DEF RequestNear
<1>2. Requested' = Retarget(Requested, p) /\ DOMAIN relocs' = DOMAIN relocs
  BY RequestNearApplies
<1>3. DOMAIN Requested = DOMAIN relocs
  BY RelocationsType, AppliedType DEF Requested, IInv, TypeOK
<1>4. CallsIn(DOMAIN relocs)' = CallsIn(DOMAIN relocs) /\ \A c : SiteOf(c)' = SiteOf(c)
  BY <1>1, <1>2 DEF CallsIn, SiteOf, RangeEnd
<1>5. ASSUME NEW c \in CallsIn(DOMAIN relocs)
      PROVE  Requested'[SiteOf(c)] =
                IF c[1] \in within /\ RequestedCalls[c] = p.old
                THEN p.new ELSE RequestedCalls[c]
  <2>1. SiteOf(c) \in DOMAIN relocs /\ RequestedCalls[c] = Requested[SiteOf(c)]
    BY CallsLocated DEF RequestedCalls
  <2> QED
    BY <2>1, <1>2, <1>3 DEF Retarget
<1>6. RequestedCalls' = [c \in CallsIn(DOMAIN relocs) |-> Requested'[SiteOf(c)]]
  BY <1>4 DEF RequestedCalls
<1>7. DOMAIN RequestedCalls = CallsIn(DOMAIN relocs)
  BY DEF RequestedCalls
<1>8. RequestedCalls' =
        [c \in DOMAIN RequestedCalls |->
            IF c[1] \in within /\ RequestedCalls[c] = p.old
            THEN p.new ELSE RequestedCalls[c]]
  BY <1>5, <1>6, <1>7
<1>9. RunningCode' = RunningCode /\ LinkState' = LinkState
  BY <1>1, RunningKept DEF memVars, Executable, LinkState
<1> QED
  BY <1>1, <1>8, <1>9 DEF Link!RedirectCalls

LEMMA PatchCallsLinks ==
    ASSUME IInv, BlockInv, LinkInv, NEW old \in Indices, NEW new \in Indices,
           patchCalls(old, new)
    PROVE  Link!RedirectCalls(Indices, old, new)
<1> DEFINE p == [old |-> old, new |-> new, lo |-> 0, hi |-> size]
<1>1. p \in NearPatch /\ p.old = old /\ p.new = new /\ p.lo = 0 /\ p.hi = size
  BY BoundsAssumption DEF NearPatch, Indices, IInv, TypeOK
<1>2. RequestNear(p)
  BY DEF patchCalls
<1>3. ASSUME NEW c \in CallsIn(DOMAIN relocs)
      PROVE  InRange(SiteOf(c), p) /\ c[1] \in Indices
  <2>1. c[1] \in Procs /\ SiteOf(c) \in Nat /\ SiteOf(c) < size
    BY CallsLocated, SiteInRange
  <2>2. Len(offsets) \in Nat /\ Len(offsets) <= MaxProcs
    BY DEF IInv, TypeOK, LinkInv
  <2> QED
    BY <2>1, <2>2, <1>1, BoundsAssumption DEF InRange, Indices
<1> HIDE DEF p
<1> QED
  BY <1>1, <1>2, <1>3, RequestNearLinks

LEMMA PatchCallsInLinks ==
    ASSUME IInv, BlockInv, LinkInv, NEW inProc \in Indices, NEW old \in Indices,
           NEW new \in Indices, patchCallsIn(inProc, old, new)
    PROVE  Link!RedirectCalls({inProc}, old, new)
<1> DEFINE p == [old |-> old, new |-> new,
                 lo |-> RangeStart(inProc), hi |-> RangeEnd(inProc)]
<1>1. /\ p.old = old /\ p.new = new
      /\ p.lo = RangeStart(inProc) /\ p.hi = RangeEnd(inProc)
  OBVIOUS
<1>2. RequestNear(p) /\ inProc \in Procs
  BY DEF patchCallsIn
<1>3. p \in NearPatch
  <2>1. RangeStart(inProc) \in Nat /\ RangeEnd(inProc) \in Nat
    BY <1>2, Ranges DEF RangeStart
  <2> QED
    BY <2>1, BoundsAssumption DEF NearPatch, Indices
<1>4. ASSUME NEW c \in CallsIn(DOMAIN relocs)
      PROVE  InRange(SiteOf(c), p) <=> c[1] \in {inProc}
  <2>1. RangeStart(inProc) <= SiteOf(c) /\ SiteOf(c) < RangeEnd(inProc)
            <=> c[1] = inProc
    BY <1>2, CallsLocated, SiteInRange
  <2> QED
    BY <2>1, <1>1 DEF InRange
<1> HIDE DEF p
<1> QED
  BY <1>1, <1>2, <1>3, <1>4, RequestNearLinks

-----------------------------------------------------------------------------
(* Loading, patching and unloading.                                        *)

(* With everything copied and nothing pending, what runs is the program    *)
(* the client asked for.                                                   *)
LEMMA AllLinked ==
    IInv /\ LinkInv =>
        (Executable /\ DOMAIN field = DOMAIN relocs /\ nearPatches = << >>
         /\ stubField = stubs
            => RunningCode = [calls |-> RequestedCalls, jumps |-> stubs])
<1> SUFFICES ASSUME IInv, LinkInv, Executable, DOMAIN field = DOMAIN relocs,
                    nearPatches = << >>, stubField = stubs
             PROVE  RunningCode = [calls |-> RequestedCalls, jumps |-> stubs]
  OBVIOUS
<1>1. Requested = relocs
  BY RelocationsType, AppliedEmpty DEF Requested
<1>2. \A c \in CallsIn(DOMAIN relocs) : Reached(SiteOf(c)) = Requested[SiteOf(c)]
  BY <1>1, CallsLocated, ReachedIsTarget
<1>3. RequestedCalls = [c \in CallsIn(DOMAIN field) |-> Reached(SiteOf(c))]
  BY <1>2 DEF RequestedCalls
<1> QED
  BY <1>3 DEF RunningCode

LEMMA AllLinkedNext ==
    (IInv /\ LinkInv)' =>
        (Executable /\ DOMAIN field = DOMAIN relocs /\ nearPatches = << >>
         /\ stubField = stubs
            => RunningCode = [calls |-> RequestedCalls, jumps |-> stubs])'
BY AllLinked, PTL

LEMMA Activates ==
    ASSUME (IInv /\ LinkInv)', UNCHANGED <<codeVars, nearPatches>>,
           ~Executable, Executable', nearPatches = << >>,
           DOMAIN field' = DOMAIN relocs, stubField' = stubs
    PROVE  Link!Activate
<1>1. RequestedCalls' = RequestedCalls
  BY CallsKept DEF codeVars, Requested, Applied
<1>2. RunningCode' = [calls |-> RequestedCalls', jumps |-> stubs']
  BY AllLinkedNext DEF codeVars
<1>3. LinkState \in {"unloaded", "updating"} /\ LinkState' = "running"
  BY DEF LinkState
<1> QED
  BY <1>1, <1>2, <1>3 DEF Link!Activate, codeVars

LEMMA LoadLinks ==
    ASSUME AllInv, (IInv /\ LinkInv)', NEW minSize \in MinSizes,
           NEW block \in Blocks, load(minSize, block)
    PROVE  Link!Activate
<1>1. /\ UNCHANGED <<codeVars, nearPatches, pc>> /\ pc = "client" /\ ~isLoaded
      /\ perm' = "rx" /\ DOMAIN field' = DOMAIN relocs /\ stubField' = stubs
  BY DEF load, Linkable, queueVars, Relocated
<1>2. nearPatches = << >> /\ perm = "none"
  BY <1>1 DEF AllInv, BlockInv, QueuesOnlyWhileLoaded, Protection,
              ClientSeesExecutable
<1> QED
  BY <1>1, <1>2, Activates DEF Executable

LEMMA PatchEndLinks ==
    ASSUME AllInv, (IInv /\ LinkInv)', patchEnd
    PROVE  Link!Activate
<1>1. /\ UNCHANGED <<codeVars, nearPatches, field, stubField>> /\ perm' = "rx"
      /\ pc = "patch" /\ pc' = "client" /\ stubPatches = << >> /\ nearPatches = << >>
  BY DEF patchEnd, PatchesDone, queueVars
<1>2. loadSize = size /\ isLoaded /\ size \in Nat /\ DOMAIN relocs \subseteq Nat
  BY <1>1 DEF AllInv, LinkInv, IInv, ImageNeedsBlock, TypeOK
<1>3. DOMAIN field = DOMAIN relocs
  <2>1. \A s \in DOMAIN relocs : s < size
    BY <1>2 DEF AllInv, IInv, Layout, FieldBytes
  <2> QED
    BY <2>1, <1>1, <1>2 DEF AllInv, IInv, LoadedImage
<1>4. stubField = stubs
  <2>1. DOMAIN stubField = DOMAIN stubs
    BY <1>1, <1>2, StubsBeforeEnd DEF AllInv, IInv, LoadedImage
  <2>2. \A p \in DOMAIN stubField : stubField[p] = stubs[p]
    BY <1>1, <1>2 DEF AllInv, StubInv, Idle
  <2>3. /\ stubs = [p \in DOMAIN stubs |-> stubs[p]]
        /\ stubField = [p \in DOMAIN stubField |-> stubField[p]]
    BY DEF AllInv, IInv, TypeOK
  <2> QED
    BY <2>1, <2>2, <2>3
<1> QED
  BY <1>1, <1>3, <1>4, Activates DEF Executable, codeVars

LEMMA SuspendLinks ==
    ASSUME AllInv, patchBegin \/ unloadBegin
    PROVE  Link!Suspend
<1>1. /\ UNCHANGED <<codeVars, nearPatches>> /\ pc = "client" /\ isLoaded
      /\ pc' = "patch" \/ perm' = "none"
  BY DEF patchBegin, unloadBegin, queueVars
<1>2. perm = "rx"
  BY <1>1 DEF AllInv, BlockInv, Protection, ClientSeesExecutable
<1>3. Executable /\ ~Executable'
  BY <1>1, <1>2 DEF Executable
<1>4. RequestedCalls' = RequestedCalls
  BY <1>1, CallsKept DEF codeVars, Requested, Applied
<1>5. LinkState = "running" /\ LinkState' \in {"updating", "unloaded"}
  BY <1>3 DEF LinkState
<1> QED
  BY <1>1, <1>3, <1>4, <1>5, NothingRunsNext DEF Link!Suspend, codeVars

(* The steps between: nothing is executable in the midst of patch() and    *)
(* unload(), and the loads that fail never make anything executable.       *)
LEMMA SilentLinks ==
    ASSUME AllInv,
           \/ \E minSize \in MinSizes, block \in Blocks : loadProtectFails(minSize, block)
           \/ \E minSize \in MinSizes : loadMapFails(minSize)
           \/ patchRefused \/ patchNextStub \/ patchNextNear
           \/ unloadNextNear \/ unloadEnd \/ assertFails \/ UNCHANGED vars
    PROVE  UNCHANGED <<RequestedCalls, stubs, RunningCode, LinkState>>
<1> USE DEF codeVars, memVars, queueVars
<1>1. CASE \/ \E minSize \in MinSizes, block \in Blocks : loadProtectFails(minSize, block)
           \/ \E minSize \in MinSizes : loadMapFails(minSize)
  <2>1. UNCHANGED <<codeVars, queueVars, perm, field, stubField>> /\ pc = "client"
        /\ pc' # "patch"
    BY <1>1 DEF loadProtectFails, loadMapFails, Linkable
  <2> QED
    BY <2>1, NoLinkStep DEF Requested, Applied, Executable
<1>2. CASE patchRefused \/ unloadEnd \/ UNCHANGED vars
  <2>1. /\ UNCHANGED <<codeVars, nearPatches, perm, field, stubField>>
        /\ pc = "patch" <=> pc' = "patch"
    BY <1>2 DEF patchRefused, unloadEnd, vars
  <2> QED
    BY <2>1, NoLinkStep DEF Requested, Applied, Executable
<1>3. CASE assertFails
  <2>1. UNCHANGED <<codeVars, queueVars, memVars>> /\ pc' = "asserted"
        /\ pc \in {"client", "patch"}
    BY <1>3 DEF assertFails, PatchesDone
  <2>2. pc = "patch" => perm = "rw"
    BY DEF AllInv, BlockInv, Protection
  <2> QED
    BY <2>1, <2>2, NoLinkStep DEF Requested, Applied, Executable
<1>4. CASE patchNextStub \/ patchNextNear
  <2>1. /\ UNCHANGED <<offsets, size, stubs, perm, pc>> /\ pc = "patch"
        /\ ~Executable /\ ~Executable'
    BY <1>4 DEF patchNextStub, patchNextNear, Executable
  <2>2. Requested' = Requested /\ DOMAIN relocs' = DOMAIN relocs
    <3>1. CASE patchNextStub
      <4>1. UNCHANGED <<relocs, nearPatches>>
        BY <3>1 DEF patchNextStub
      <4> QED
        BY <4>1 DEF Requested, Applied
    <3>2. CASE patchNextNear
      BY <3>2, NextNearApplies DEF patchNextNear, AllInv
    <3> QED
      BY <3>1, <3>2, <1>4
  <2>3. RequestedCalls' = RequestedCalls /\ RunningCode' = RunningCode
    BY <2>1, <2>2, CallsKept, NothingRuns, NothingRunsNext
  <2> QED
    BY <2>1, <2>3 DEF LinkState
<1>5. CASE unloadNextNear
  <2>1. UNCHANGED <<offsets, size, stubs, memVars, pc>>
    BY <1>5 DEF unloadNextNear
  <2>2. Requested' = Requested /\ DOMAIN relocs' = DOMAIN relocs
    BY <1>5, NextNearApplies DEF unloadNextNear, AllInv
  <2> QED
    BY <2>1, <2>2, NoLinkStep DEF Executable
<1> QED
  BY <1>1, <1>2, <1>3, <1>4, <1>5

-----------------------------------------------------------------------------
(* The theorems.                                                           *)

LEMMA AllInductive == Spec => []AllInv
BY InitIInv, NextIInv, InitBlockInv, NextBlockInv, InitStubInv, NextStubInv,
   InitLinkInv, NextLinkInv, PTL DEF Spec, AllInv

LEMMA InitLinks == Init => Link!LinkInit
<1> SUFFICES ASSUME Init
             PROVE  Link!LinkInit
  OBVIOUS
<1>1. RequestedCalls = [c \in {} |-> 0]
  <2>1. CallsIn(DOMAIN relocs) = {}
    BY DEF Init, CallsIn
  <2> QED
    BY <2>1 DEF RequestedCalls
<1>2. ~Executable /\ LinkState = "unloaded"
  BY DEF Init, Executable, LinkState
<1> QED
  BY <1>1, <1>2, NothingRuns DEF Init, Link!LinkInit, Link!Nothing

LEMMA NextLinks ==
    AllInv /\ (IInv /\ LinkInv)' /\ [Next]_vars
        => [Link!LinkNext]_<<RequestedCalls, stubs, RunningCode, LinkState>>
<1> SUFFICES ASSUME AllInv, (IInv /\ LinkInv)', [Next]_vars
             PROVE  \/ Link!LinkNext
                    \/ UNCHANGED <<RequestedCalls, stubs, RunningCode, LinkState>>
  OBVIOUS
<1>1. IInv /\ BlockInv /\ LinkInv
  BY DEF AllInv
<1>2. CASE \E prog \in Programs : compile(prog)
  BY <1>1, <1>2, CompileLinks DEF Link!LinkNext
<1>3. CASE \E addr \in Addresses : compileStub(addr)
  BY <1>1, <1>3, CompileStubLinks DEF Link!LinkNext
<1>4. CASE \E p \in Indices, addr \in Addresses : patchStub(p, addr)
  BY <1>4, PatchStubLinks DEF Link!LinkNext
<1>5. CASE \E old, new \in Indices : patchCalls(old, new)
  BY <1>1, <1>5, PatchCallsLinks DEF Link!LinkNext
<1>6. CASE \E inProc, old, new \in Indices : patchCallsIn(inProc, old, new)
  BY <1>1, <1>6, PatchCallsInLinks DEF Link!LinkNext
<1>7. CASE \E minSize \in MinSizes, block \in Blocks : load(minSize, block)
  BY <1>7, LoadLinks DEF Link!LinkNext
<1>8. CASE patchEnd
  BY <1>8, PatchEndLinks DEF Link!LinkNext
<1>9. CASE patchBegin \/ unloadBegin
  BY <1>9, SuspendLinks DEF Link!LinkNext
<1>10. CASE \/ \E minSize \in MinSizes, block \in Blocks : loadProtectFails(minSize, block)
            \/ \E minSize \in MinSizes : loadMapFails(minSize)
            \/ patchRefused \/ patchNextStub \/ patchNextNear
            \/ unloadNextNear \/ unloadEnd \/ assertFails \/ UNCHANGED vars
  BY <1>10, SilentLinks
<1> QED
  BY <1>2, <1>3, <1>4, <1>5, <1>6, <1>7, <1>8, <1>9, <1>10 DEF Next

(* bjit::Module does what it promises: the code that runs after load() or  *)
(* patch() is the program as the client last left it, with every call and  *)
(* every stub redirected by the requests made so far, in their order,      *)
(* whatever was pending and whatever was compiled or unloaded in between.  *)
THEOREM ImplementsLinkSpec == Spec => Refines
<1>1. AllInv => IInv /\ LinkInv
  BY DEF AllInv
<1> QED
  BY <1>1, AllInductive, InitLinks, NextLinks, PTL
     DEF Spec, Refines, Link!LinkSpec, Link!linkVars

-----------------------------------------------------------------------------
(* What the client asked for changes by its requests alone.                *)

(* Requests wait for calls that existed when they were made.               *)
RequestsInside == \A i \in 1..Len(nearPatches) : nearPatches[i].hi <= size

LEMMA QueuedRanges == IInv => \A i \in 1..Len(nearPatches) : nearPatches[i].hi \in Nat
<1> SUFFICES ASSUME IInv, NEW i \in 1..Len(nearPatches)
             PROVE  nearPatches[i].hi \in Nat
  OBVIOUS
<1>1. nearPatches \in Seq(NearPatch)
  BY DEF IInv, TypeOK
<1>2. nearPatches[i] \in NearPatch
  BY <1>1
<1> QED
  BY <1>2 DEF NearPatch

LEMMA InitRequestsInside == Init => RequestsInside
BY DEF Init, RequestsInside

LEMMA RequestNearInside ==
    ASSUME IInv, RequestsInside, NEW p \in NearPatch, RequestNear(p), p.hi <= size
    PROVE  RequestsInside'
<1>1. nearPatches \in Seq(NearPatch) /\ UNCHANGED size
  BY DEF IInv, TypeOK, RequestNear
<1>2. CASE nearPatches' = nearPatches
  BY <1>1, <1>2 DEF RequestsInside
<1>3. CASE nearPatches' = Append(nearPatches, p)
  <2>1. \A i \in 1..Len(nearPatches') :
            nearPatches'[i] = p \/ (i \in 1..Len(nearPatches) /\ nearPatches'[i] = nearPatches[i])
    BY <1>1, <1>3
  <2> QED
    BY <1>1, <2>1 DEF RequestsInside
<1> QED
  BY <1>2, <1>3 DEF RequestNear

LEMMA TailInside ==
    ASSUME IInv, RequestsInside, nearPatches # << >>, nearPatches' = Tail(nearPatches),
           UNCHANGED size
    PROVE  RequestsInside'
<1>1. nearPatches \in Seq(NearPatch)
  BY DEF IInv, TypeOK
<1>2. \A i \in 1..Len(nearPatches') :
            i + 1 \in 1..Len(nearPatches) /\ nearPatches'[i] = nearPatches[i + 1]
  BY <1>1
<1> QED
  BY <1>2 DEF RequestsInside

LEMMA NextRequestsInside ==
    IInv /\ LinkInv /\ RequestsInside /\ [Next]_vars => RequestsInside'
<1> SUFFICES ASSUME IInv, LinkInv, RequestsInside, [Next]_vars
             PROVE  RequestsInside'
  OBVIOUS
<1>1. nearPatches \in Seq(NearPatch) /\ size \in Nat
  BY DEF IInv, TypeOK
<1>2. CASE \/ \E prog \in Programs : compile(prog)
           \/ \E addr \in Addresses : compileStub(addr)
  <2>1. ClientEdit
    BY <1>2 DEF ClientEdit
  <2>2. UNCHANGED nearPatches /\ size <= size' /\ size' \in Nat
    BY <1>2, <2>1, ClientEditLeavesBlock DEF compile, compileStub, queueVars
  <2>3. \A i \in 1..Len(nearPatches) : nearPatches[i].hi \in Nat
    BY QueuedRanges
  <2> QED
    BY <1>1, <2>2, <2>3 DEF RequestsInside
<1>3. CASE \E old, new \in Indices : patchCalls(old, new)
  <2>1. PICK old, new \in Indices : patchCalls(old, new)
    BY <1>3
  <2>2. [old |-> old, new |-> new, lo |-> 0, hi |-> size] \in NearPatch
    BY <1>1, BoundsAssumption DEF NearPatch, Indices
  <2> QED
    BY <1>1, <2>1, <2>2, RequestNearInside DEF patchCalls
<1>4. CASE \E inProc, old, new \in Indices : patchCallsIn(inProc, old, new)
  <2>1. PICK inProc, old, new \in Indices : patchCallsIn(inProc, old, new)
    BY <1>4
  <2>2. RangeStart(inProc) \in Nat /\ RangeEnd(inProc) \in Nat /\ RangeEnd(inProc) <= size
    BY <2>1, Ranges DEF RangeStart, patchCallsIn
  <2>3. [old |-> old, new |-> new, lo |-> RangeStart(inProc), hi |-> RangeEnd(inProc)]
            \in NearPatch
    BY <2>2, BoundsAssumption DEF NearPatch, Indices
  <2> QED
    BY <2>1, <2>2, <2>3, RequestNearInside DEF patchCallsIn
<1>5. CASE patchNextNear \/ unloadNextNear
  BY <1>5, TailInside DEF patchNextNear, unloadNextNear
<1>6. CASE \/ \E p \in Indices, addr \in Addresses : patchStub(p, addr)
           \/ \E minSize \in MinSizes, block \in Blocks :
                    load(minSize, block) \/ loadProtectFails(minSize, block)
           \/ \E minSize \in MinSizes : loadMapFails(minSize)
           \/ patchRefused \/ patchBegin \/ patchNextStub \/ patchEnd
           \/ unloadBegin \/ unloadEnd \/ assertFails \/ UNCHANGED vars
  <2>1. UNCHANGED <<size, nearPatches>>
    BY <1>6 DEF patchStub, load, loadProtectFails, loadMapFails, patchRefused, patchBegin,
                patchNextStub, patchEnd, unloadBegin, unloadEnd, assertFails,
                vars, codeVars, queueVars
  <2> QED
    BY <2>1 DEF RequestsInside
<1> QED
  BY <1>2, <1>3, <1>4, <1>5, <1>6 DEF Next

(* A site that no patch of the queue has in its range keeps its target.    *)
LEMMA AppliedOutside ==
    ASSUME NEW r, Relocations(r), NEW queue \in Seq(NearPatch), NEW s \in DOMAIN r,
           \A i \in 1..Len(queue) : ~InRange(s, queue[i])
    PROVE  Applied(r, queue)[s] = r[s]
<1>1. PICK f \in [0..Len(queue) -> [DOMAIN r -> Nat \ {0}]] :
            Stages(f, r, queue) /\ Applied(r, queue) = f[Len(queue)]
  BY AppliedStages
<1> DEFINE Kept(n) == f[n][s] = r[s]
           S == { n \in Nat : n <= Len(queue) => Kept(n) }
<1>2. Len(queue) \in Nat
  OBVIOUS
<1>3. 0 \in S
  BY <1>1 DEF Stages
<1>4. ASSUME NEW n \in Nat, n \in S, n + 1 <= Len(queue)
      PROVE  Kept(n + 1)
  <2>1. n \in 0..Len(queue) /\ n + 1 \in 1..Len(queue) /\ Kept(n)
    BY <1>2, <1>4
  <2>2. f[n + 1] = Retarget(f[n], queue[n + 1])
    <3>1. f[n + 1] = Retarget(f[(n + 1) - 1], queue[n + 1])
      BY <1>1, <2>1 DEF Stages
    <3>2. (n + 1) - 1 = n
      OBVIOUS
    <3> QED
      BY <3>1, <3>2
  <2>3. DOMAIN f[n] = DOMAIN r
    BY <1>1, <2>1
  <2>4. ~InRange(s, queue[n + 1])
    BY <2>1
  <2> QED
    BY <2>1, <2>2, <2>3, <2>4 DEF Retarget
<1>5. Len(queue) \in S
  <2>1. ASSUME NEW n \in Nat, n \in S
        PROVE  n + 1 \in S
    <3> HIDE DEF Kept
    <3> QED
      BY <1>4, <2>1
  <2> HIDE DEF S
  <2> QED
    BY <1>2, <1>3, <2>1, SetOfAllNumbers
<1> QED
  BY <1>1, <1>2, <1>5

(* Code compiled while patches are pending is out of their reach.          *)
LEMMA CompiledAsAsked ==
    ASSUME IInv, RequestsInside, IInv', NEW prog \in Programs, compile(prog),
           NEW i \in 1..Len(prog)
    PROVE  Requested'[FieldAt(size, i)] = prog[i]
<1> DEFINE s == FieldAt(size, i)
<1>1. /\ prog \in Seq(Nat \ {0}) /\ size \in Nat
      /\ nearPatches \in Seq(NearPatch) /\ UNCHANGED nearPatches
      /\ \A x \in DOMAIN relocs : x \in Nat /\ x + FieldBytes <= size
  BY ProgramsAssumption DEF IInv, TypeOK, Layout, compile, queueVars
<1>2. s \in ProcFields(size, prog)
  BY DEF ProcFields
<1>3. s \in Nat /\ size < s
  BY <1>1, <1>2, ProcFieldsRange
<1>4. s \notin DOMAIN relocs
  BY <1>1, <1>3 DEF FieldBytes
<1>5. \A j, k \in 1..Len(prog) : FieldAt(size, j) = FieldAt(size, k) => j = k
  BY <1>1 DEF FieldAt, CallBytes, FieldBytes
<1>6. (CHOOSE j \in 1..Len(prog) : FieldAt(size, j) = s) = i
  BY <1>5
<1>7. s \in DOMAIN relocs' /\ relocs'[s] = prog[i]
  <2> HIDE DEF s
  <2> QED
    BY <1>2, <1>4, <1>6 DEF compile
<1>8. \A j \in 1..Len(nearPatches) : ~InRange(s, nearPatches[j])
  <2>1. \A j \in 1..Len(nearPatches) : nearPatches[j].hi \in Nat
    BY QueuedRanges
  <2> HIDE DEF s
  <2> QED
    BY <1>1, <1>3, <2>1 DEF RequestsInside, InRange
<1>9. Relocations(relocs')
  BY DEF IInv, TypeOK, Relocations
<1> HIDE DEF s
<1>10. Requested'[s] = relocs'[s]
  BY <1>1, <1>7, <1>8, <1>9, AppliedOutside DEF Requested
<1> QED
  BY <1>7, <1>10 DEF s

(* A near patch redirects the calls in its range that go to its old target.*)
LEMMA RequestRedirects ==
    ASSUME IInv, BlockInv, NEW p \in NearPatch, RequestNear(p),
           NEW c \in CallsIn(DOMAIN relocs)
    PROVE  Requested'[SiteOf(c)] =
                IF InRange(SiteOf(c), p) /\ Requested[SiteOf(c)] = p.old
                THEN p.new ELSE Requested[SiteOf(c)]
<1>1. Requested' = Retarget(Requested, p)
  BY RequestNearApplies
<1>2. DOMAIN Requested = DOMAIN relocs
  BY RelocationsType, AppliedType DEF Requested, IInv, TypeOK
<1> QED
  BY <1>1, <1>2, CallsLocated DEF Retarget

LEMMA PatchCallsRedirects ==
    ASSUME AllInv, NEW old \in Indices, NEW new \in Indices, patchCalls(old, new),
           NEW c \in CallsIn(DOMAIN relocs)
    PROVE  Requested'[SiteOf(c)] =
                IF Requested[SiteOf(c)] = old THEN new ELSE Requested[SiteOf(c)]
<1> DEFINE p == [old |-> old, new |-> new, lo |-> 0, hi |-> size]
<1>1. p \in NearPatch /\ p.old = old /\ p.new = new /\ p.lo = 0 /\ p.hi = size
  BY BoundsAssumption DEF NearPatch, Indices, AllInv, IInv, TypeOK
<1>2. RequestNear(p)
  BY DEF patchCalls
<1>3. SiteOf(c) \in Nat /\ SiteOf(c) < size
  BY CallsLocated, SiteInRange DEF AllInv
<1>4. InRange(SiteOf(c), p)
  BY <1>1, <1>3 DEF InRange
<1> HIDE DEF p
<1> QED
  BY <1>1, <1>2, <1>4, RequestRedirects DEF AllInv

LEMMA PatchCallsInRedirects ==
    ASSUME AllInv, NEW inProc \in Indices, NEW old \in Indices, NEW new \in Indices,
           patchCallsIn(inProc, old, new), NEW c \in CallsIn(DOMAIN relocs)
    PROVE  Requested'[SiteOf(c)] =
                IF c[1] = inProc
                THEN IF Requested[SiteOf(c)] = old THEN new ELSE Requested[SiteOf(c)]
                ELSE Requested[SiteOf(c)]
<1> DEFINE p == [old |-> old, new |-> new,
                 lo |-> RangeStart(inProc), hi |-> RangeEnd(inProc)]
<1>1. /\ p.old = old /\ p.new = new
      /\ p.lo = RangeStart(inProc) /\ p.hi = RangeEnd(inProc)
  OBVIOUS
<1>2. RequestNear(p) /\ inProc \in Procs
  BY DEF patchCallsIn
<1>3. p \in NearPatch
  <2>1. RangeStart(inProc) \in Nat /\ RangeEnd(inProc) \in Nat
    BY <1>2, Ranges DEF RangeStart, AllInv
  <2> QED
    BY <2>1, BoundsAssumption DEF NearPatch, Indices
<1>4. InRange(SiteOf(c), p) <=> c[1] = inProc
  <2>1. RangeStart(inProc) <= SiteOf(c) /\ SiteOf(c) < RangeEnd(inProc)
            <=> c[1] = inProc
    BY <1>2, CallsLocated, SiteInRange DEF AllInv
  <2> QED
    BY <2>1, <1>1 DEF InRange
<1> HIDE DEF p
<1> QED
  BY <1>1, <1>2, <1>3, <1>4, RequestRedirects DEF AllInv

(* All other steps leave the targets as they were asked for.               *)
LEMMA OthersRedirectNothing ==
    ASSUME AllInv, IInv', [Next]_vars,
           ~\E old, new \in Indices : patchCalls(old, new),
           ~\E inProc, old, new \in Indices : patchCallsIn(inProc, old, new),
           NEW c \in CallsIn(DOMAIN relocs)
    PROVE  Requested'[SiteOf(c)] = Requested[SiteOf(c)]
<1>1. /\ Relocations(relocs) /\ Relocations(relocs') /\ nearPatches \in Seq(NearPatch)
      /\ SiteOf(c) \in DOMAIN relocs
  BY RelocationsType, CallsLocated DEF AllInv, IInv, TypeOK, Relocations
<1>2. CASE \E prog \in Programs : compile(prog)
  <2>1. /\ DOMAIN relocs \subseteq DOMAIN relocs' /\ UNCHANGED nearPatches
        /\ \A s \in DOMAIN relocs : relocs'[s] = relocs[s]
    BY <1>2 DEF compile, queueVars
  <2> QED
    BY <1>1, <2>1, AppliedExtends DEF Requested
<1>3. CASE patchNextNear \/ unloadNextNear
  <2>1. Requested' = Requested
    BY <1>3, NextNearApplies DEF patchNextNear, unloadNextNear, AllInv
  <2> QED
    BY <2>1
<1>4. CASE \/ \E addr \in Addresses : compileStub(addr)
           \/ \E p \in Indices, addr \in Addresses : patchStub(p, addr)
           \/ \E minSize \in MinSizes, block \in Blocks :
                    load(minSize, block) \/ loadProtectFails(minSize, block)
           \/ \E minSize \in MinSizes : loadMapFails(minSize)
           \/ patchRefused \/ patchBegin \/ patchNextStub \/ patchEnd
           \/ unloadBegin \/ unloadEnd \/ assertFails \/ UNCHANGED vars
  <2>1. UNCHANGED <<relocs, nearPatches>>
    BY <1>4 DEF compileStub, patchStub, load, loadProtectFails, loadMapFails, patchRefused,
                patchBegin, patchNextStub, patchEnd, unloadBegin, unloadEnd, assertFails,
                vars, codeVars, queueVars
  <2> QED
    BY <2>1 DEF Requested, Applied
<1> QED
  BY <1>2, <1>3, <1>4 DEF Next

LEMMA StepFollowsRequests ==
    ASSUME AllInv, IInv', [Next]_vars, NEW c \in CallsIn(DOMAIN relocs),
           Requested'[SiteOf(c)] # Requested[SiteOf(c)]
    PROVE  Asks(c, Requested[SiteOf(c)], Requested'[SiteOf(c)])
<1>1. CASE \E old, new \in Indices : patchCalls(old, new)
  <2>1. PICK old \in Indices, new \in Indices : patchCalls(old, new)
    BY <1>1
  <2>2. Requested[SiteOf(c)] = old /\ Requested'[SiteOf(c)] = new
    BY <2>1, PatchCallsRedirects
  <2> QED
    BY <2>1, <2>2 DEF Asks
<1>2. CASE \E inProc, old, new \in Indices : patchCallsIn(inProc, old, new)
  <2>1. PICK inProc \in Indices, old \in Indices, new \in Indices :
            patchCallsIn(inProc, old, new)
    BY <1>2
  <2>2. c[1] = inProc /\ Requested[SiteOf(c)] = old /\ Requested'[SiteOf(c)] = new
    BY <2>1, PatchCallsInRedirects
  <2> QED
    BY <2>1, <2>2 DEF Asks
<1> QED
  BY <1>1, <1>2, OthersRedirectNothing

(* A call changes its target when a request names it and only then:        *)
(* patchCalls() takes all calls of the old target and no others,           *)
(* patchCallsIn() those of one procedure, and neither what load(), patch() *)
(* and unload() do with pending requests nor new code moves any; new code  *)
(* calls what it was compiled to call whatever requests are pending.       *)
THEOREM RequestsDecideTargets == Spec => CallsFollowRequests
<1> DEFINE Follows ==
        /\ \A c \in CallsIn(DOMAIN relocs) :
            LET before == Requested[SiteOf(c)]
                after  == Requested'[SiteOf(c)]
                Redirected(from, to) == IF before = from THEN to ELSE before
            IN  /\ after # before => Asks(c, before, after)
                /\ \A old, new \in Indices :
                    /\ patchCalls(old, new) => after = Redirected(old, new)
                    /\ \A p \in Indices : patchCallsIn(p, old, new) =>
                        after = IF c[1] = p THEN Redirected(old, new) ELSE before
        /\ \A prog \in Programs : compile(prog) =>
            \A i \in 1..Len(prog) : Requested'[FieldAt(size, i)] = prog[i]
<1>1. AllInv /\ RequestsInside /\ IInv' /\ [Next]_vars => [Follows]_vars
  <2> SUFFICES ASSUME AllInv, RequestsInside, IInv', [Next]_vars
               PROVE  Follows
    OBVIOUS
  <2>1. \A prog \in Programs : compile(prog) =>
            \A i \in 1..Len(prog) : Requested'[FieldAt(size, i)] = prog[i]
    BY CompiledAsAsked DEF AllInv
  <2> QED
    BY <2>1, StepFollowsRequests, PatchCallsRedirects, PatchCallsInRedirects
<1>2. AllInv => IInv /\ LinkInv
  BY DEF AllInv
<1> HIDE DEF Follows
<1>3. Spec => [][Follows]_vars
  BY <1>1, <1>2, AllInductive, InitRequestsInside, NextRequestsInside, PTL DEF Spec
<1> QED
  BY <1>3, PTL DEF CallsFollowRequests, Follows
=============================================================================
