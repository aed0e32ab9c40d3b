-------------------------------- MODULE Emit --------------------------------
(***************************************************************************)
(* The frame and the layout of the code that Proc::arch_emit writes        *)
(* (src/src/arch-x64-emit.cpp), after register allocation: which registers *)
(* of the caller are saved and where, how the stack is aligned, in which   *)
(* order blocks follow each other, where a jump is left out or turned      *)
(* around, and the relocation of those that stay.  What instruction an     *)
(* operation becomes is the subject of module X64Select.                   *)
(*                                                                         *)
(* Code is a sequence of items, one for an instruction or a few that       *)
(* belong together; distances are counted in items.                        *)
(***************************************************************************)
EXTENDS RegAlloc

VARIABLE em             \* what arch_emit keeps besides the procedure

emitVars == <<raVars, em>>

NoJump == 0

-----------------------------------------------------------------------------
(* The prologue.                                                           *)

(* calleeSaved of those findUsedRegs finds.                                *)
usedRegs ==
    LET code == UNION { ToSet(blocks[b].code) : b \in ToSet(live) }
    IN  (UNION { regsLost(ops[i].opcode) : i \in code })
        \cup { ra.res[i].reg : i \in { j \in code : hasOutput(ops[j].opcode) } }

savedRegs == SelectSeq([r \in General |-> r], LAMBDA r : r \in usedRegs \ CallerSaved)

(* Mutant of FrameOffset: the return address is forgotten.                 *)
FrameOffsetOdd ==
    LET frame == ((ops[1].imm + 15) \div 16) * 16
    IN  IF (Len(savedRegs) + ra.nSlots) % 2 = 1 THEN frame + 8 ELSE frame

(* Slots are above what the front-end has asked for, with padding where    *)
(* what was pushed, return address included, leaves the stack unaligned.   *)
FrameOffset ==
    LET frame == ((ops[1].imm + 15) \div 16) * 16
    IN  IF (Len(savedRegs) + ra.nSlots) % 2 = 0 THEN frame + 8 ELSE frame

FrameBytes == 8 * ra.nSlots + FrameOffset

Item(kind, x) == [kind |-> kind, x |-> x, rel |-> NoJump]

Adjust(kind) == IF FrameBytes = 0 THEN << >> ELSE <<Item(kind, FrameBytes)>>

Prologue == [n \in DOMAIN savedRegs |-> Item("push", savedRegs[n])] \o Adjust("sub")

Epilogue == Adjust("add") \o Reverse([n \in DOMAIN savedRegs |-> Item("pop", savedRegs[n])])

-----------------------------------------------------------------------------
(* Layout.  A record e is the procedure with the code so far, the blocks   *)
(* to do (the last one comes next), those that are done or in there, where *)
(* blocks begin and the jumps to relocate.                                 *)

(* What remains of a block when phis are looked through.                   *)
Opaque(e, label) ==
    SelectSeq(e.blocks[label].code,
              LAMBDA c : e.ops[c].opcode # "phi" \/ ra.res[c].spill)

OnlyJumps(e, label) == e.ops[Head(Opaque(e, label))].opcode = "jmp"

threadJump(e, label) ==
    LET after[n \in 0..Len(e.blocks)] ==
            IF n = 0 THEN label
            ELSE LET x == after[n - 1]
                 IN  IF OnlyJumps(e, x) THEN e.ops[Head(Opaque(e, x))].label[1] ELSE x
    IN  after[Len(e.blocks)]

Push(e, label) ==
    [e EXCEPT !.todo = Append(@, label), !.codeDone = @ \cup {label}]

(* A block that goes on to one nobody has scheduled takes that with it.    *)
scheduleBlock(e, label) ==
    LET u == Push(e, label)
        j == e.ops[Last(e.blocks[label].code)]
    IN  IF label \in e.codeDone THEN e
        ELSE IF j.opcode = "jmp" /\ j.label[1] \notin u.codeDone
        THEN Push([u EXCEPT !.todo = Append(Front(@), j.label[1]),
                            !.codeDone = @ \cup {j.label[1]}], label)
        ELSE u

Put(e, item) == [e EXCEPT !.code = Append(@, item)]

(* A jump to a block: its distance from the end of the jump is known when  *)
(* all blocks are placed.                                                  *)
Branch(e, kind, x, label) ==
    LET here == Len(e.code) + 1
    IN  [Put(e, [Item(kind, x) EXCEPT !.rel = -(here + 1)])
            EXCEPT !.relocations = Append(@, [codeOffset |-> here, blockIndex |-> label])]

doJump(e, label0) ==
    LET label == threadJump(e, label0)
    IN  IF e.todo # << >> /\ Last(e.todo) = label0 THEN e
        ELSE IF label \notin e.codeDone THEN Push(e, label)
        ELSE Branch(e, "jmp", noVal, label)

(* Which of its targets a branch falls through to.                         *)
Swaps(e, o) ==
    LET l0 == o.label[1]
        l1 == o.label[2]
        later == IF pdom[l1] = l0 THEN TRUE
                 ELSE IF pdom[l0] = l1 THEN FALSE
                 ELSE pdom[o.block] = l1
    IN  IF (l0 \in e.codeDone) # (l1 \in e.codeDone) THEN l1 \in e.codeDone ELSE later

SwapLabels(e, i) ==
    IF ~Swaps(e, e.ops[i]) THEN e
    ELSE [e EXCEPT !.ops[i] =
            [@ EXCEPT !.opcode = IF @ = "jz" THEN "jnz" ELSE "jz",
                      !.label = <<@[2], @[1]>>]]

emitBranch(e0, i) ==
    LET e == SwapLabels(e0, i)
        o == e.ops[i]
        label == threadJump(e, o.label[1])
    IN  doJump(Branch(scheduleBlock(e, label), o.opcode, i, label), o.label[2])

emitOp(e, i) ==
    LET o == e.ops[i]
    IN  CASE o.opcode \in CondJumps -> emitBranch(e, i)
          [] o.opcode = "jmp" -> doJump(e, o.label[1])
          [] o.opcode \in Exits ->
                [e EXCEPT !.code = @ \o Epilogue \o <<Item(o.opcode, i)>>]
          [] OTHER -> Put(e, Item("op", i))

emitCode(e0) ==
    LET bi == Last(e0.todo)
        e == [e0 EXCEPT !.todo = Front(@), !.blockOffsets[bi] = Len(e0.code) + 1]
    IN  FoldLeft(emitOp, e, e.blocks[bi].code)

(* Blocks that jump in a circle would be looked through for ever.          *)
Threads(e, label) == ~OnlyJumps(e, threadJump(e, label))

relocate(code, r, offsets) ==
    [code EXCEPT ![r.codeOffset].rel = @ + offsets[r.blockIndex]]

-----------------------------------------------------------------------------
(* arch_emit.                                                              *)

EmitInit ==
    /\ AllocInit
    /\ em = [code |-> << >>, todo |-> << >>, codeDone |-> {}, blockOffsets |-> << >>,
             relocations |-> << >>, frameOffset |-> 0, nSaved |-> 0]

Emission == [ops |-> ops, blocks |-> blocks] @@ em

Emits(e) == ops' = e.ops /\ em' = [f \in DOMAIN em |-> e[f]]

beginEmit ==
    /\ allocated
    /\ \E s \in {RebuildDom(Proc)} : idom' = s.idom /\ pdom' = s.pdom
    /\ Emits([Emission EXCEPT !.code = Prologue, !.todo = <<1>>, !.codeDone = {1},
                !.blockOffsets = [b \in DOMAIN blocks |-> 0],
                !.frameOffset = FrameOffset, !.nSaved = Len(savedRegs)])
    /\ pc' = "emit"
    /\ UNCHANGED <<Unbuilt, blocks, todo, live, nUse, tmp, progress, at,
                   livein, stage, scan, level, ra>>

emitBlock ==
    /\ pc = "emit" /\ em.todo # << >>
    /\ \A b \in Targets(ops, blocks, Last(em.todo)) : Threads(Emission, b)
    /\ Emits(emitCode(Emission))
    /\ UNCHANGED <<Unbuilt, blocks, todo, live, nUse, tmp, progress, at, pc, NotLoop, ra>>

endEmit ==
    /\ pc = "emit" /\ em.todo = << >>
    /\ em' = [em EXCEPT !.code =
                FoldLeft(LAMBDA c, r : relocate(c, r, em.blockOffsets), @, em.relocations)]
    /\ pc' = "emitted"
    /\ UNCHANGED <<Unbuilt, ops, blocks, todo, live, nUse, tmp, progress, at, NotLoop, ra>>

EmitStep == beginEmit \/ emitBlock \/ endEmit

emitted == pc = "emitted"

EmitTerminated == (emitted \/ ~ra.ok) /\ UNCHANGED emitVars

EmitNext == (AllocStep /\ UNCHANGED em) \/ EmitStep \/ EmitTerminated

EmitFairness ==
    []<>(emitted \/ ~ra.ok) \/ []<><<(AllocStep /\ UNCHANGED em) \/ EmitStep>>_emitVars

EmitSpec == EmitInit /\ [][EmitNext]_emitVars /\ EmitFairness

-----------------------------------------------------------------------------
(* The machine that runs the code.  Stack addresses are relative to the    *)
(* stack pointer at the entry, where the return address is; the ABI has    *)
(* it 8 bytes off a multiple of 16; at a call it has to be on one.         *)

ReturnAddress == "return address"
Callers(r) == <<"caller's", r>>
CalleeSaved == General \ CallerSaved

Deepest == 8 * (em.nSaved + ra.nSlots) + em.frameOffset + 8
Stack == { -8 * n : n \in 0..(Deepest \div 8) }

SlotAt(m, s) == m.rsp + em.frameOffset + 8 * (s - 1)

Called(arg) ==
    [Machine(arg) EXCEPT !.reg = [r \in Regs |-> IF r \in CalleeSaved THEN Callers(r) ELSE @[r]]]
        @@ [pc |-> 1, rsp |-> 0,
            stack |-> [a \in Stack |-> IF a = 0 THEN ReturnAddress ELSE Undefined]]

PushOn(m, v) == [m EXCEPT !.rsp = @ - 8, !.stack[m.rsp - 8] = v]

(* Nothing of the caller's is lost, and the stack is as it was.            *)
Unwound(m) ==
    /\ m.rsp = 0 /\ m.stack[0] = ReturnAddress
    /\ \A r \in CalleeSaved : m.reg[r] = Callers(r)

(* An operation finds its slots on the stack.                              *)
OnStack(m, i) ==
    LET res == ra.res[i]
        n == Executed([m EXCEPT !.slot = [s \in DOMAIN @ |-> m.stack[SlotAt(m, s)]]], i)
    IN  IF ops[i].opcode = "icalln" /\ m.rsp % 16 # 8 THEN Stop(m, "misaligned")
        ELSE IF hasOutput(ops[i].opcode) /\ res.spill
        THEN [n EXCEPT !.stack[SlotAt(m, res.scc)] = n.slot[res.scc]]
        ELSE n

Taken(m, item) == [m EXCEPT !.pc = @ + item.rel]

Perform(m, item) ==
    CASE item.kind = "push" -> PushOn(m, m.reg[item.x])
      [] item.kind = "pop" -> [m EXCEPT !.reg[item.x] = m.stack[m.rsp], !.rsp = @ + 8]
      [] item.kind = "sub" -> [m EXCEPT !.rsp = @ - item.x]
      [] item.kind = "add" -> [m EXCEPT !.rsp = @ + item.x]
      [] item.kind = "jmp" -> Taken(m, item)
      [] item.kind \in CondJumps ->
            LET v == RegOf(m, ops[item.x].in[1])
            IN  IF v = Undefined THEN Stop(m, "undefined")
                ELSE IF (v = 0) <=> (item.kind = "jz") THEN Taken(m, item) ELSE m
      [] item.kind \in Exits ->
            IF Unwound(m) THEN Executed(m, item.x) ELSE Stop(m, "caller's frame lost")
      [] OTHER -> OnStack(m, item.x)

(* Once through the code, from where the machine is to its first jump back.*)
Sweep(m0) ==
    LET after[p \in 0..Len(em.code)] ==
            IF p = 0 THEN m0
            ELSE LET m == after[p - 1]
                 IN  IF m.status = "running" /\ m.pc = p
                     THEN Perform([m EXCEPT !.pc = p + 1], em.code[p]) ELSE m
    IN  after[Len(em.code)]

EmittedRun(arg, fuel) ==
    LET after[n \in 0..fuel] ==
            IF n = 0 THEN Called(arg)
            ELSE LET m == after[n - 1] IN IF m.status = "running" THEN Sweep(m) ELSE m
        end == after[fuel]
    IN  [status |-> end.status, result |-> end.result, calls |-> end.calls, mem |-> end.mem]

-----------------------------------------------------------------------------
(* Properties.                                                             *)

(* The code as laid out does what the front-end asked for, and leaves the  *)
(* caller's registers and stack alone: every jump arrives at the block it  *)
(* is for, although blocks that only jump are looked through, conditions   *)
(* are turned around and jumps to what comes next are left out; calls find *)
(* the stack aligned.                                                      *)
EmitKeepsMeaning ==
    emitted => \A a \in Args :
        LET was == Outcome(built.ops, built.blocks, a, Fuel)
        IN  was.status \notin {"running", "undefined"}
            => EmittedRun(a, 3 * Fuel) = was

(* The allocator and the layout come to an end.                            *)
EmitTerminates == <>(emitted \/ ~ra.ok)
=============================================================================
