------------------------------ MODULE RegAlloc ------------------------------
(***************************************************************************)
(* The end of the register allocator, Proc::allocRegs from "RA:JMP" on     *)
(* (src/src/opt-ra.cpp), with everything before it (modules StackClasses   *)
(* and BlockAlloc), and the machine that runs the result.                  *)
(*                                                                         *)
(* Phis are taken apart: at the end of a jump, or in a block of its own on *)
(* each edge of a branch, the values move to the registers the target      *)
(* wants them in.  The moves are parallel but made one after the other, so *)
(* that a value in the way must have left before; a cycle is broken by a   *)
(* free register or through memory.                                        *)
(***************************************************************************)
EXTENDS BlockAlloc

-----------------------------------------------------------------------------
(* RA:JMP.  Within an edge, sregs is where values are, tregs where they    *)
(* have to be, moves the renames made, "out" the block the moves go to.    *)

(* A phi that only lives on the stack: its value can be stored there when  *)
(* it is computed, unless that has a slot of its own already.              *)
TrivialSpill(t, p, v) ==
    IF ~t.res[p].spill \/ t.res[p].reg # none \/ t.res[v].scc = t.res[p].scc THEN t
    ELSE IF t.res[v].spill \/ t.ops[v].opcode = "phi" THEN [t EXCEPT !.ok = FALSE]
    ELSE [t EXCEPT !.res[v] = [@ EXCEPT !.spill = TRUE, !.scc = t.res[p].scc]]

Wanted(t, b, a) ==
    IF a.src # b THEN t
    ELSE LET u == TrivialSpill(t, a.phi, a.val)
             r == u.res[a.phi].reg
         IN  IF r = none THEN u ELSE [u EXCEPT !.tregs[r] = a.val]

BeginEdge(t0, b, out, x) ==
    LET t == FoldLeft(LAMBDA u, a : Wanted(u, b, a),
                      [t0 EXCEPT !.tregs = t0.regsIn[x], !.out = out, !.moves = << >>],
                      t0.blocks[x].alts)
        wanted == { t.tregs[r] : r \in Regs }
    IN  [t EXCEPT !.sregs = [r \in Regs |->
            IF t.regsOut[b][r] \in wanted THEN t.regsOut[b][r] ELSE noVal]]

(* A new operation before the jump of "out", for value v.                  *)
OnEdge(t, v, o, res) ==
    [NewOp(t, o, res, 0) EXCEPT
        !.blocks[t.out].code = Front(@) \o <<Len(t.ops) + 1, Last(@)>>,
        !.moves = Append(@, [src |-> v, dst |-> Len(t.ops) + 1])]

(* The value register r wants goes from x to "to".                         *)
MoveTo(t, r, x, to) ==
    LET v == t.sregs[x]
        new == Len(t.ops) + 1
    IN  [OnEdge(t, v, Op("rename", <<v>>, 0, t.out),
                [NoReg EXCEPT !.reg = to, !.scc = t.res[v].scc])
            EXCEPT !.tregs[r] = new, !.sregs = [@ EXCEPT ![to] = new, ![x] = noVal]]

Waits(t, r) == t.tregs[r] # noVal /\ t.sregs[r] # t.tregs[r]
Where(t, r) == { x \in Regs : t.sregs[x] = t.tregs[r] }

FreeMove(t, r) ==
    IF Waits(t, r) /\ t.sregs[r] = noVal /\ Where(t, r) # {}
    THEN MoveTo(t, r, Min(Where(t, r)), r) ELSE t

InOrder == [r \in Regs |-> r]
FreeMoves(t) == FoldLeft(FreeMove, t, InOrder)

(* The first value that waits for a register whose value waits, too, goes  *)
(* to a register nobody wants; without one the value in the way is lost    *)
(* and comes back from memory.                                             *)
Cyclic(t) ==
    { r \in Regs : Waits(t, r) /\ \E x \in Where(t, r) : t.tregs[x] # noVal }

BreakCycle(t) ==
    LET r == Min(Cyclic(t))
        free == { x \in General : t.sregs[x] = noVal /\ t.tregs[x] = noVal }
    IN  MoveTo(t, r, Min({ x \in Where(t, r) : t.tregs[x] # noVal }),
               IF free = {} THEN r ELSE Min(free))

Moved(t0) ==
    LET Either(t, u) == IF t.moves # u.moves THEN u
                      ELSE IF Cyclic(t) # {} THEN BreakCycle(t) ELSE t
        Step(t) == Either(t, FreeMoves(t))
        after[n \in 0..(3 * Rsp)] == IF n = 0 THEN t0 ELSE Step(after[n - 1])
    IN  after[3 * Rsp]

(* What is in no register is reloaded or computed again.                   *)
Restore(t, b, r) ==
    LET v == t.tregs[r]
        x == BackTraced(t, v)
        remat == CanRemat(t, t.sregs, x, t.tagOut[b]) /\ r \in regsOut(t.ops[x].opcode)
        isPhi == t.ops[v].opcode = "phi"
    IN  IF ~Waits(t, r) THEN t
        ELSE [OnEdge(t, v, IF remat THEN Remat(t, x, t.out)
                           ELSE Op("reload", <<v>>, 0, t.out),
                     [NoReg EXCEPT !.reg = r, !.scc = t.res[x].scc, !.tag = t.res[x].tag])
                EXCEPT !.sregs[r] = v,
                       !.res[v].spill = IF remat THEN @ /\ ~isPhi ELSE TRUE]

jumpShuffle(t0, b, out, x) ==
    LET t == FoldLeft(LAMBDA u, r : Restore(u, b, r),
                      Moved(BeginEdge(t0, b, out, x)), InOrder)
    IN  [t EXCEPT !.blocks[x].alts =
            [n \in DOMAIN @ |-> [@[n] EXCEPT !.val = Through(t.moves, @)]]]

(* Edge k of a branch gets a block, kept if something moves there.         *)
NewEdge(t0, b) ==
    LET new == Len(t0.blocks) + 1
        t == [t0 EXCEPT !.blocks = Append(@, NewBlock), !.livein = Append(@, {}),
                        !.idom = Append(@, b), !.pdom = Append(@, t0.pdom[b]),
                        !.from = Append(@, 1)]
    IN  Padded(t)

KeepEdge(t, branch, k, e, x) ==
    IF Len(t.blocks[e].code) = 1 THEN t
    ELSE [t EXCEPT
            !.ops[branch].label[k] = e,
            !.blocks = [@ EXCEPT ![e].live = TRUE,
                ![x].alts = [n \in DOMAIN @ |->
                    IF t.ops[@[n].val].block = e THEN [@[n] EXCEPT !.src = e] ELSE @[n]]]]

EdgeBlock(t, b, k, e) ==
    LET branch == Terminator(t, b)
        x == t.ops[branch].label[k]
        jump == NewOp(t, [Op("jmp", << >>, 0, e) EXCEPT !.label = <<x>>], NoReg, 0)
        moved == jumpShuffle([jump EXCEPT !.blocks[e].code = <<Len(t.ops) + 1>>], b, e, x)
    IN  KeepEdge(moved, branch, k, e, x)

Shuffled(b) ==
    LET t == Padded(Alloc) @@ [sregs |-> Empty, tregs |-> Empty, moves |-> << >>, out |-> b]
        jump == ops[Terminator(Proc, b)]
        e == Len(blocks) + 1
    IN  CASE jump.opcode = "jmp" -> jumpShuffle(t, b, b, jump.label[1])
          [] jump.opcode \in CondJumps ->
                EdgeBlock(EdgeBlock(NewEdge(NewEdge(t, b), b), b, 1, e), b, 2, e + 1)
          [] OTHER -> t

beginShuffles ==
    /\ pc = "ra" /\ at.c > Len(live)
    /\ pc' = "shuffle" /\ at' = NoPlace
    /\ UNCHANGED <<Unbuilt, ops, blocks, todo, live, nUse, tmp, progress, NotLoop, ra>>

shuffle ==
    /\ pc = "shuffle" /\ at.c <= Len(live)
    /\ \E t \in {Shuffled(live[at.c])} :
          Allocates(t) /\ nUse' = Extend(nUse, Len(t.ops), 0)
    /\ at' = NextPlace
    /\ UNCHANGED <<Unbuilt, pc, todo, tmp, progress, stage, scan, level>>

(* "add the new blocks after loop"                                         *)
endShuffles ==
    /\ pc = "shuffle" /\ at.c > Len(live)
    /\ live' = live \o SelectSeq([b \in 1..Len(blocks) |-> b],
                                 LAMBDA b : blocks[b].live /\ b \notin ToSet(live))
    /\ pc' = "spills" /\ progress' = TRUE
    /\ UNCHANGED <<Unbuilt, ops, blocks, todo, nUse, tmp, at, NotLoop, ra>>
-----------------------------------------------------------------------------
(* Spills of phis move to their values where all have the phi's class,     *)
(* once for each phi; again if another phi's spill came of it.             *)

Keeps(t, a) == t.res[a.phi].spill /\ ~t.ops[a.phi].noOpt

(* Mutant of ClearSpill: the phi may get a spill again.                    *)
ClearSpillOnce(t, p) ==
    IF t.ops[p].noOpt THEN t ELSE [t EXCEPT !.res[p].spill = FALSE]

ClearSpill(t, p) ==
    IF ~t.res[p].spill \/ t.ops[p].noOpt THEN t
    ELSE [t EXCEPT !.res[p].spill = FALSE, !.ops[p].noOpt = TRUE]

SpillsOf(t0, b) ==
    LET alts == t0.blocks[b].alts
        Check(t, a) == IF Keeps(t, a) /\ t.res[a.val].scc # t.res[a.phi].scc
                       THEN [t EXCEPT !.ops[a.phi].noOpt = TRUE] ELSE t
        Push(t, a) == IF ~Keeps(t, a) THEN t
                      ELSE [t EXCEPT !.res[a.val].spill = TRUE,
                                     !.again = @ \/ (/\ t.ops[a.val].opcode = "phi"
                                                     /\ ~t.res[a.val].spill)]
    IN  FoldLeft(ClearSpill, FoldLeft(Push, FoldLeft(Check, t0, alts), alts), t0.blocks[b].args)

moveSpills ==
    /\ pc = "spills" /\ progress
    /\ \E t \in {FoldLeft(SpillsOf, Alloc @@ [again |-> FALSE], live)} :
          Allocates(t) /\ progress' = t.again
    /\ UNCHANGED <<Unbuilt, pc, todo, nUse, tmp, at, stage, scan, level>>

-----------------------------------------------------------------------------
(* Clean-up.  What a phi without a register needs is stored where its      *)
(* values come from; a reload need not be stored again.                    *)
Unspilled(t) ==
    [t EXCEPT !.res = [v \in DOMAIN @ |->
        IF \/ t.ops[v].opcode = "phi" /\ @[v].reg = none
           \/ t.ops[v].opcode = "reload" /\ @[v].scc = @[t.ops[v].in[1]].scc
        THEN [@[v] EXCEPT !.spill = FALSE] ELSE @[v]]]

(* Slots: from here on scc is a slot, or noSCC for a class without one.    *)
Slotted(t) ==
    LET used == { t.res[v].scc : v \in { x \in DOMAIN t.ops :
                    hasOutput(t.ops[x].opcode) /\ t.res[x].spill } }
        slot(c) == IF c \in used THEN Cardinality({ d \in used : d <= c }) ELSE noSCC
    IN  [t EXCEPT !.res = [v \in DOMAIN @ |-> [@[v] EXCEPT !.scc = slot(@)]],
                  !.nSlots = Cardinality(used)]

(* A rename within one register without a slot is for nothing.  The        *)
(* alternatives on the second label of a branch are forgotten.             *)
Useless(t, i) ==
    LET o == t.ops[i]
    IN  /\ o.opcode = "rename"
        /\ t.res[i].reg = t.res[o.in[1]].reg /\ t.res[i].scc = noSCC

RemoveRename(t0, b, i) ==
    LET t == RenameOp(t0, i)
        o == t.ops[i]
    IN  IF Useless(t, i) THEN [t EXCEPT !.map = Append(@, [src |-> i, dst |-> o.in[1]])]
        ELSE IF o.opcode \in Jumps THEN RenameAlts(t, t.map, b, o.label[1]) ELSE t

RemoveRenames(t0) ==
    FoldLeft(LAMBDA t, b : FoldLeft(LAMBDA u, i : RemoveRename(u, b, i), t, t.blocks[b].code),
             [t0 EXCEPT !.map = << >>], t0.live)

(* A renamed constant zero is the constant, and so is a rename of that.    *)
RenamedZero(t, i) ==
    IF t.ops[i].opcode = "rename" /\ t.ops[t.ops[i].in[1]].opcode = "lci"
       /\ t.ops[t.ops[i].in[1]].imm = 0
    THEN [t EXCEPT !.ops[i] = [@ EXCEPT !.opcode = "lci", !.in = << >>, !.imm = 0]]
    ELSE t

RenamedZeros(t0) ==
    FoldLeft(LAMBDA t, b : FoldLeft(RenamedZero, t, t.blocks[b].code), t0, t0.live)

(* Then opt_dce.                                                           *)
cleanUp ==
    /\ pc = "spills" /\ ~progress
    /\ \E t \in {RenamedZeros(RemoveRenames(Slotted(Unspilled(Alloc))))} :
          /\ Allocates(t)
          /\ nUse' = Extend(nUse, Len(t.ops), 0)
          /\ tmp' = Extend(tmp, Len(t.ops), noVal)
    /\ progress' = TRUE
    /\ pc' = "round" /\ stage' = "final" /\ at' = NoPlace
    /\ UNCHANGED <<Unbuilt, todo, scan, level>>

Shuffles ==
    beginShuffles \/ shuffle \/ endShuffles \/ moveSpills \/ cleanUp

allocated == pc = "done" /\ stage = "final"

AllocStep ==
    /\ ra.ok
    /\ \/ (FrontEnd \/ Dce) /\ UNCHANGED <<NotLoop, ra>>
       \/ liveinSteps /\ UNCHANGED ra
       \/ FindSCC \/ AllocBlocks \/ Shuffles

-----------------------------------------------------------------------------
(* The machine: registers and stack slots.  An operation finds its inputs  *)
(* in their registers and leaves its result in its own, and in its slot if *)
(* it is marked.  What a call may change is Undefined after it.            *)

Machine(arg) ==
    [Initial(ops, arg) EXCEPT !.val = << >>]
        @@ [reg |-> [r \in Regs |-> IF r = ArgReg THEN arg ELSE Undefined],
            slot |-> [s \in 1..ra.nSlots |-> Undefined]]

RegOf(m, v) == IF ra.res[v].reg = none THEN Undefined ELSE m.reg[ra.res[v].reg]
SlotOf(m, v) == IF ra.res[v].scc = noSCC THEN Undefined ELSE m.slot[ra.res[v].scc]

Result(m, o, i) ==
    CASE o.opcode = "rename" -> RegOf(m, o.in[1])
      [] o.opcode = "reload" -> SlotOf(m, o.in[1])
      [] o.opcode = "phi" -> RegOf(m, i)
      [] o.opcode = "iarg" -> m.reg[ArgReg]
      [] OTHER -> m.val[i]

(* Operation i has its inputs in m.val.                                    *)
Write(m, o, i) ==
    LET res == ra.res[i]
        v == Result(m, o, i)
        kept == IF regsLost(o.opcode) = {} THEN m.reg
                ELSE [r \in Regs |-> IF r \in regsLost(o.opcode) THEN Undefined ELSE m.reg[r]]
    IN  IF ~hasOutput(o.opcode) \/ m.status # "running" THEN m
        ELSE IF (res.reg = Rsp) # (o.opcode = "alloc") THEN Stop(m, "stack pointer lost")
        ELSE IF res.spill /\ res.scc = noSCC THEN Stop(m, "no slot")
        ELSE [m EXCEPT
                !.reg = IF res.reg = none THEN kept ELSE [kept EXCEPT ![res.reg] = v],
                !.slot = IF res.spill THEN [@ EXCEPT ![res.scc] = v] ELSE @]

Executed(m0, i) ==
    LET o == ops[i]
        m == [m0 EXCEPT !.val = [v \in ToSet(o.in) \cup {i} |-> RegOf(m0, v)]]
        copies == o.opcode \in {"rename", "reload", "phi"}
    IN  IF m0.status # "running" THEN m0
        ELSE IF copies THEN Write(m, o, i)
        ELSE IF \E v \in ToSet(o.in) : m.val[v] = Undefined THEN Stop(m, "undefined")
        ELSE CASE o.opcode = "jmp" -> [m EXCEPT !.block = o.label[1]]
               [] o.opcode \in CondJumps ->
                    [m EXCEPT !.block =
                        o.label[IF (m.val[o.in[1]] = 0) <=> (o.opcode = "jz") THEN 1 ELSE 2]]
               [] o.opcode \in Exits -> Leave(m, o, ops, blocks)
               [] OTHER -> Write(Compute(m, o, i), o, i)

Executions(arg, fuel) ==
    LET after[n \in 0..fuel] ==
            IF n = 0 THEN Machine(arg)
            ELSE LET m == after[n - 1]
                 IN  IF m.status # "running" THEN m
                     ELSE FoldLeft(Executed, m, blocks[m.block].code)
        end == after[fuel]
    IN  [status |-> end.status, result |-> end.result, calls |-> end.calls, mem |-> end.mem]

-----------------------------------------------------------------------------
(* Properties.                                                             *)

(* The machine code does what the front-end asked for, for any argument:   *)
(* no value is lost where registers are taken away, moved around a loop or *)
(* swapped on an edge, no slot is read that is not written, or written     *)
(* while its old value is still needed.                                    *)
AllocKeepsMeaning ==
    allocated => \A a \in Args :
        LET was == Outcome(built.ops, built.blocks, a, Fuel)
        IN  was.status \notin {"running", "undefined"}
            => Executions(a, 3 * Fuel) = was

(* Classes: values that are live at the same time have different ones, and *)
(* so do the values on one edge.                                           *)
ClassesDistinct ==
    \A b \in ToSet(live) :
        /\ \A v, w \in livein[b] : v # w => ra.res[v].scc # ra.res[w].scc
        /\ \A m, n \in DOMAIN blocks[b].alts :
              /\ m # n /\ blocks[b].alts[m].src = blocks[b].alts[n].src
              => blocks[b].alts[m].val # blocks[b].alts[n].val

(* No assertion fails; values that could be on the stack at the same time  *)
(* have different slots to go to; at the end the checks of Proc::sanity    *)
(* hold.                                                                   *)
AllocSane ==
    /\ ra.ok
    /\ pc = "done" /\ stage = "split" => ClassesDistinct
    /\ allocated => DefsDominate /\ PhisCovered
=============================================================================
