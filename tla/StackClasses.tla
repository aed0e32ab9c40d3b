---------------------------- MODULE StackClasses ----------------------------
(***************************************************************************)
(* The first half of the register allocator: Proc::findSCC and what it     *)
(* prepares (src/src/opt-ra.cpp), run as compile() runs it at level 0, on  *)
(* what dead code elimination leaves of a front-end's procedure.           *)
(*                                                                         *)
(* Every value gets a class; values of one class share a slot on the stack *)
(* if one of them turns out to need it.  A phi is to have the class of its *)
(* values; where it cannot, the value is renamed before the jump.  Critical*)
(* edges are broken, so that there is a place for such things, and phis    *)
(* that only count on around a loop are found (find_ivs).                  *)
(*                                                                         *)
(* There is one type of values.  Registers are some general ones and the   *)
(* stack pointer; what operations demand of them is what the x64 back end  *)
(* says (arch-x64-ops.cpp).                                                *)
(***************************************************************************)
EXTENDS LoopOpt

CONSTANTS NRegs,        \* general registers, in order of preference
          ArgReg,       \* the one the argument comes in
          CallerSaved,  \* those that a call may change
          Uninitialized \* what is found in an idom that was never set

VARIABLE ra             \* what the allocator keeps besides the procedure

raVars == <<loopVars, ra>>

-----------------------------------------------------------------------------
(* Registers.                                                              *)

none == 0               \* regs::none, also regs::nregs
noSCC == 0
Rax == 1
Rdx == 2
Rsp == NRegs + 1
General == 1..NRegs     \* Op::regsMask
Regs == 1..Rsp

regsIn(opcode, k) ==
    CASE opcode = "idiv" -> IF k = 1 THEN {Rax} ELSE General \ {Rdx}
      [] opcode \in {"iret", "tcallp"} -> {Rax}
      [] opcode = "iadd" \/ (opcode = "si" /\ k = 2) -> General \cup {Rsp}
      [] OTHER -> General

regsOut(opcode) ==
    CASE opcode = "alloc" -> {Rsp}
      [] opcode = "iarg" -> {ArgReg}
      [] opcode \in {"idiv", "icalln"} -> {Rax}
      [] OTHER -> General

regsLost(opcode) ==
    CASE opcode = "idiv" -> {Rax, Rdx}
      [] opcode = "icalln" -> CallerSaved
      [] OTHER -> {}

(* Of each operation: its register, its class, whether the value is stored *)
(* in the slot, for a phi the operation that steps it, for a load its tag. *)
NoReg == [reg |-> none, scc |-> noSCC, spill |-> FALSE, iv |-> noVal, tag |-> noVal]

Empty == [r \in Regs |-> noVal]

(* use: uses within a block.  nSCC: the number of classes.  map: the list  *)
(* of renames.  ok is FALSE after a failed assertion.  from: the number of *)
(* predecessors.  tagIn, tagOut: memory tags.  regsIn, regsOut: what the   *)
(* registers hold at the start and the end of a block, done: the blocks    *)
(* that have their registers.  nSlots: slots on the stack.                 *)
AllocInit ==
    /\ LoopInit /\ stage = "jump"
    /\ ra = [res |-> << >>, use |-> << >>, nSCC |-> 0, map |-> << >>, ok |-> TRUE,
             from |-> << >>, tagIn |-> << >>, tagOut |-> << >>,
             regsIn |-> << >>, regsOut |-> << >>, done |-> {}, nSlots |-> 0]

(* All of it as one record, and what steps make of that.                   *)
Alloc == Proc @@ ra

Allocates(t) == Becomes(t) /\ ra' = [f \in DOMAIN ra |-> t[f]]

Extend(s, len, x) == s \o [n \in 1..(len - Len(s)) |-> x]

(* Operations and blocks added by others get their entries.                *)
Padded(t) ==
    [t EXCEPT !.res = Extend(@, Len(t.ops), NoReg),
              !.use = Extend(@, Len(t.ops), 0),
              !.regsIn = Extend(@, Len(t.blocks), Empty),
              !.regsOut = Extend(@, Len(t.blocks), Empty)]

NewOp(t, o, res, uses) ==
    [t EXCEPT !.ops = Append(@, o), !.res = Append(@, res), !.use = Append(@, uses)]

(* Rename: the renames of a list, one after the other.                     *)
Through(map, v) == FoldLeft(LAMBDA x, r : IF x = r.src THEN r.dst ELSE x, v, map)

RenameOp(t, i) ==
    [t EXCEPT !.ops[i].in = [k \in DOMAIN @ |-> Through(t.map, @[k])]]

(* The uses by block b, on top of "uses".                                  *)
CountUses(uses, b) ==
    [v \in 1..Len(ops) |-> uses[v] + UsesAt(b, 1..Len(blocks[b].code), v)]

-----------------------------------------------------------------------------
(* findSCC, block by block.  Nobody has computed dominators at level 0, and*)
(* the constructor of Block leaves idom uninitialized.                     *)

beginAlloc ==
    /\ pc = "done" /\ stage = "jump"
    /\ rebuild_cfg
    /\ stage' = "classes"
    /\ ra' = [ra EXCEPT !.res = Extend(<< >>, Len(ops), NoReg)]
    /\ \E x \in Uninitialized : idom' = [b \in 1..Len(blocks) |-> x]
    /\ pdom' = idom'
    /\ UNCHANGED <<scan, level>>

Take(t, v, class) ==
    [t EXCEPT !.res[v].scc = class, !.taken = @ \cup {class}, !.nSCC = Max({@, class})]

(* The class of an input is free after its last use.                       *)
LastUse(t, v) ==
    [t EXCEPT !.use[v] = @ - 1,
              !.taken = IF t.use[v] = 1 THEN @ \ {t.res[v].scc} ELSE @]

(* Mutant of ClassOfPhi: the class may be that of another value here.      *)
ClassOfPhiTaken(t, b, v) ==
    LET vals == SelectSeq(t.blocks[b].alts, LAMBDA a :
                    a.phi = v /\ t.res[a.val].scc # noSCC)
    IN  IF vals = << >> THEN t.nSCC + 1 ELSE t.res[vals[1].val].scc

(* A phi has the class of one of its values if it can.                     *)
ClassOfPhi(t, b, v) ==
    LET vals == SelectSeq(t.blocks[b].alts, LAMBDA a :
                    a.phi = v /\ t.res[a.val].scc \notin t.taken \cup {noSCC})
    IN  IF vals = << >> THEN t.nSCC + 1 ELSE t.res[vals[1].val].scc

Classify(t, b, v) ==
    IF t.ops[v].opcode = "phi" THEN Take(t, v, ClassOfPhi(t, b, v))
    ELSE LET u == FoldLeft(LastUse, t, t.ops[v].in)
         IN  IF hasOutput(t.ops[v].opcode)
             THEN Take(u, v, Min((1..(u.nSCC + 1)) \ u.taken)) ELSE u

(* The classes of what is live into the block are taken.                   *)
Classified(b) ==
    LET classes == { ra.res[v].scc : v \in livein[b] }
        t == [Alloc EXCEPT !.ok = @ /\ noSCC \notin classes,
                           !.use = CountUses([v \in 1..Len(ops) |-> 0], b)]
    IN  FoldLeft(LAMBDA u, v : Classify(u, b, v),
                 t @@ [taken |-> classes], blocks[b].code)

beginClasses ==
    /\ pc = "livein" /\ at.c = 0 /\ ~progress /\ stage = "classes"
    /\ pc' = "classes" /\ at' = NoPlace
    /\ UNCHANGED <<Unbuilt, ops, blocks, todo, live, nUse, tmp, progress,
                   livein, idom, pdom, stage, scan, level, ra>>

sccBlock ==
    /\ pc = "classes" /\ at.c <= Len(live)
    /\ \E t \in {Classified(live[at.c])} : Allocates(t)
    /\ at' = NextPlace
    /\ UNCHANGED <<Unbuilt, pc, todo, nUse, tmp, progress, stage, scan, level>>

-----------------------------------------------------------------------------
(* Second pass: critical edges.  breakEdge replaces the last dominator of  *)
(* the target where idom says that it is this block; there is none yet.    *)
BreakCritical(t0) ==
    LET Broken(t, b, to) ==
            IF Cardinality(Preds(t, to)) < 2 THEN t
            ELSE [breakEdge(t, b, to) EXCEPT !.ok = @ /\ t.idom[to] # b]
        Break(t, b, k) ==
            IF ~t.ok \/ t.ops[Terminator(t, b)].opcode \notin CondJumps THEN t
            ELSE Broken(t, b, t.ops[Terminator(t, b)].label[k])
    IN  FoldLeft(LAMBDA t, b : Break(Break(t, b, 1), b, 2), t0, t0.live)

(* Third pass: alternative n of block x comes from b and has not the class *)
(* of its phi.  Fresh classes are counted per block.                       *)
RenameAlt(t, b, x, n) ==
    LET a == t.blocks[x].alts[n]
        new == Len(t.ops) + 1
        code == t.blocks[b].code
        p == t.jumpAt
    IN  IF a.src # b \/ t.res[a.val].scc = t.res[a.phi].scc THEN t
        ELSE [NewOp(t, Op("rename", <<a.val>>, 0, b),
                    [NoReg EXCEPT !.scc = t.fresh], 0)
                EXCEPT !.fresh = @ + 1,
                       !.blocks[x].alts = [m \in DOMAIN @ |->
                            IF m = n THEN [a EXCEPT !.val = new] ELSE @[m]],
                       !.blocks[b].code = InsertAt(@, p, new)]

RenameJump(t0, b) ==
    LET jump == t0.ops[Terminator(t0, b)]
        Target(t, x) == FoldLeft(LAMBDA u, n : RenameAlt(u, b, x, n), t,
                                 [n \in 1..Len(t.blocks[x].alts) |-> n])
    IN  FoldLeft(Target, [t0 EXCEPT !.fresh = t0.nSCC + 1,
                                    !.jumpAt = Len(t0.blocks[b].code)],
                 IF jump.opcode \in Jumps THEN jump.label ELSE << >>)

-----------------------------------------------------------------------------
(* find_ivs: the operation that makes the next value of a phi from it.     *)

Source(t, v) ==
    LET source[x \in 1..Len(t.ops)] ==
            IF t.ops[x].opcode = "rename" THEN source[t.ops[x].in[1]] ELSE x
    IN  source[v]

(* The step an alternative shows, given that of those before.              *)
StepOf(t, b, a) ==
    LET avs == Source(t, a.val)
        in == t.ops[avs].in
        Steps(k) == Source(t, in[k]) = a.phi
        Before(k) == Dominates(t.ops, t.blocks, t.ops[in[k]].block, t.idom[b])
        If(cond) == IF cond THEN avs ELSE noVal
    IN  CASE t.ops[avs].opcode = "phi" \/ t.res[a.phi].iv # a.phi -> noVal
          [] Len(in) = 2 /\ Steps(2) -> If(Before(1))
          [] Len(in) = 2 /\ ~Steps(2) /\ Steps(1) -> If(Before(2))
          [] Len(in) = 1 /\ Steps(1) -> avs
          [] Len(in) = 0 -> noVal
          [] OTHER -> a.phi

StepOfAlt(t, b, a) ==
    IF a.src = t.idom[b] \/ t.res[a.phi].iv = Source(t, a.val) THEN t
    ELSE [t EXCEPT !.res[a.phi].iv = StepOf(t, b, a)]

find_ivs(t0) ==
    LET Self(t, p) == [t EXCEPT !.res[p].iv = p]
        NotSelf(t, p) == [t EXCEPT !.res[p].iv = IF @ = p THEN noVal ELSE @]
        Block(t, b) ==
            FoldLeft(NotSelf, FoldLeft(LAMBDA u, a : StepOfAlt(u, b, a),
                                       FoldLeft(Self, t, t.blocks[b].args),
                                       t.blocks[b].alts),
                     t.blocks[b].args)
    IN  FoldLeft(Block, t0, t0.live)

(* Then dominators are rebuilt, once for find_ivs and once for the rest.   *)
Split ==
    LET broken == Padded(BreakCritical(Alloc)) @@ [fresh |-> 0, jumpAt |-> 0]
    IN  find_ivs(RebuildDom(FoldLeft(RenameJump, broken, broken.live)))

endClasses ==
    /\ pc = "classes" /\ at.c > Len(live)
    /\ \E t \in {Split} :
          /\ Allocates(t)
          /\ nUse' = Extend(nUse, Len(t.ops), 0)
    /\ pc' = "done" /\ stage' = "split"
    /\ UNCHANGED <<Unbuilt, todo, tmp, progress, at, scan, level>>

FindSCC == beginAlloc \/ beginClasses \/ sccBlock \/ endClasses
=============================================================================
