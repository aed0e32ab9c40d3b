----------------------------- MODULE BlockAlloc -----------------------------
(***************************************************************************)
(* The middle of the register allocator, Proc::allocRegs from "RA:PHI" to  *)
(* "RA:BB" (src/src/opt-ra.cpp): every value that is live into a block     *)
(* gets a phi there, and the blocks get their registers one by one.        *)
(*                                                                         *)
(* A block starts with what earlier blocks had in the registers when they  *)
(* jumped to it.  An operation whose input is not where it has to be gets  *)
(* a rename (a move) or a reload before it; instead of a reload, the value *)
(* is computed again where that is possible.  Only a value that has to be  *)
(* reloaded is marked to be stored ("spill") where it is computed.         *)
(*                                                                         *)
(* A step is one block; within it, t is the procedure, the allocator's     *)
(* state, and what is local to the block: rs is regstate, out the code so  *)
(* far, used and keep the registers used and those to come in.             *)
(***************************************************************************)
EXTENDS StackClasses

-----------------------------------------------------------------------------
(* RA:PHI.                                                                 *)

beginPhi ==
    /\ pc = "done" /\ stage = "split"
    /\ rebuild_cfg
    /\ stage' = "phi"
    /\ UNCHANGED <<idom, pdom, scan, level, ra>>

(* The phi of block b for v: it is v on every edge.                        *)
AddPhi(t, b, v, i) ==
    LET new == Len(t.ops) + 1
        from == SelectSeq(Reverse(t.live), LAMBDA x : b \in Targets(t.ops, t.blocks, x))
    IN  [NewOp(t, [Op("phi", << >>, 0, b) EXCEPT !.phiIndex = Len(t.blocks[b].args) + 1],
               [NoReg EXCEPT !.scc = t.res[v].scc], 0)
            EXCEPT !.blocks[b].code = InsertAt(@, i, new),
                   !.blocks[b].args = Append(@, new),
                   !.blocks[b].alts = @ \o [n \in DOMAIN from |-> Alt(new, from[n], v)],
                   !.map = Append(@, [src |-> v, dst |-> new])]

AddPhisTo(t, b) ==
    LET vs == SetToSortSeq(t.livein[b], <)
    IN  FoldLeft(LAMBDA u, i : AddPhi(u, b, vs[i], i), t, [i \in 1..Len(vs) |-> i])

(* In block b, and on the edges out of it, the last of the phis for v that *)
(* is in a block that dominates b.                                         *)
LastRename(t, under, v) ==
    LET js == { j \in 1..Len(t.map) :
                  t.map[j].src = v /\ t.ops[t.map[j].dst].block \in under }
    IN  IF js = {} THEN v ELSE t.map[Max(js)].dst

RenameBlocks(t) ==
    LET all == ToSet(t.live)
        under == [b \in all |-> Chain(t, b)]
        code == UNION { ToSet(t.blocks[b].code) : b \in all }
    IN  [t EXCEPT
          !.ops = [i \in DOMAIN @ |->
                     IF i \notin code THEN @[i]
                     ELSE [@[i] EXCEPT !.in = [k \in DOMAIN @ |->
                            LastRename(t, under[t.ops[i].block], @[k])]]],
          !.blocks = [x \in DOMAIN @ |-> [@[x] EXCEPT !.alts =
                        [n \in DOMAIN @ |->
                          LET a == @[n]
                          IN  IF a.src \notin all THEN a
                              ELSE [a EXCEPT !.val = LastRename(t, under[a.src], @)]]]]]

(* rebuild_memtags, as in module MemTags: here the loads get their tags.   *)
TagBefore(t, b, c) ==
    LET code == t.blocks[b].code
        ds == { d \in 1..(c - 1) : LET o == t.ops[code[d]].opcode
                                   IN  o \notin Jumps /\ hasSideFX(o) }
    IN  IF ds = {} THEN noVal ELSE code[Max(ds)]

TagLoads(t, b) ==
    LET code == t.blocks[b].code
        Tag(u, c) == IF t.ops[code[c]].opcode # "li" THEN u
                     ELSE [u EXCEPT !.res[code[c]].tag = TagBefore(t, b, c)]
    IN  FoldLeft(Tag, [t EXCEPT !.tagOut[b] = TagBefore(t, b, Len(code) + 1)],
                 [c \in 1..Len(code) |-> c])

Phied ==
    LET t == RenameBlocks(FoldLeft(AddPhisTo, Padded(Alloc), live))
        untagged == [b \in 1..Len(t.blocks) |-> noVal]
    IN  FoldLeft(TagLoads,
                 [t EXCEPT !.livein = [b \in DOMAIN @ |-> {}],
                           !.use = [v \in DOMAIN @ |-> 0],
                           !.from = [b \in DOMAIN untagged |-> Cardinality(Preds(t, b))],
                           !.tagIn = untagged, !.tagOut = untagged],
                 t.live)

addPhis ==
    /\ pc = "livein" /\ at.c = 0 /\ ~progress /\ stage = "phi"
    /\ \E t \in {Phied} :
          Allocates(t) /\ nUse' = Extend(nUse, Len(t.ops), 0)
    /\ pc' = "tags" /\ at' = NoPlace
    /\ UNCHANGED <<Unbuilt, todo, tmp, progress, stage, scan, level>>

TagBlock(t, b) ==
    LET into == { t.tagOut[x] : x \in Preds(t, b) } \ {noVal}
        tag == IF into = {} THEN noVal
               ELSE IF Cardinality(into) = 1 THEN CHOOSE x \in into : TRUE
               ELSE Terminator(t, b)
    IN  [t EXCEPT !.tagIn[b] = tag,
                  !.tagOut[b] = IF t.tagIn[b] = @ THEN tag ELSE @]

(* One round of the iteration.                                             *)
tagRound ==
    /\ pc = "tags"
    /\ \E t \in {FoldLeft(TagBlock, Alloc, live)} :
          /\ Allocates(t)
          /\ pc' = IF t.tagIn = ra.tagIn THEN "ra" ELSE "tags"
    /\ UNCHANGED <<Unbuilt, todo, nUse, tmp, progress, at, stage, scan, level>>
-----------------------------------------------------------------------------
(* RA:BB.  findBest: a register of mask, if possible "prefer", otherwise a *)
(* free one.  With a value to keep, the one that will be good for longest: *)
(* the code from position c on narrows the choice down.                    *)

InReg(t, v) == t.res[v].reg # none /\ t.rs[t.res[v].reg] = v

(* The only register of a mask, found by halving: the first one if none.   *)
OnlyReg(mask) == IF mask = {} THEN Rax ELSE CHOOSE r \in mask : TRUE

Undecided == -1

ScanInput(t, val, opcode, s, v, k) ==
    LET fits == s.mask \cap regsIn(opcode, k)
        mask == IF v # val THEN s.mask \ {t.res[v].reg}
                ELSE IF fits # {} THEN fits ELSE s.mask
    IN  IF s.reg # Undecided \/ s.stop \/ (v # val /\ ~InReg(t, v)) THEN s
        ELSE [s EXCEPT !.mask = mask,
                       !.reg = IF Cardinality(mask) < 2 THEN OnlyReg(mask) ELSE @]

ScanLost(s, val, lost) ==
    IF s.reg # Undecided \/ s.stop THEN s
    ELSE IF s.mask \ lost # {} THEN [s EXCEPT !.mask = @ \ lost]
    ELSE IF val # noVal THEN [s EXCEPT !.reg = none] ELSE [s EXCEPT !.stop = TRUE]

ScanOp(t, val, s, i) ==
    LET o == t.ops[i]
    IN  ScanLost(FoldLeft(LAMBDA u, k : ScanInput(t, val, o.opcode, u, o.in[k], k),
                          s, [k \in DOMAIN o.in |-> k]),
                 val, regsLost(o.opcode))

(* "assume the rest are equally bad unless we can find a constant"         *)
AnyOf(t, s) ==
    LET good == { r \in s.mask : t.rs[r] = noVal \/ t.ops[t.rs[r]].in = << >> }
    IN  IF s.reg # Undecided THEN s.reg
        ELSE IF good # {} THEN Min(good) ELSE Max(s.mask)

Scan(t, mask, c, val) ==
    LET code == t.blocks[t.b].code
    IN  IF Cardinality(mask) = 1 THEN OnlyReg(mask)
        ELSE AnyOf(t, FoldLeft(LAMBDA u, i : ScanOp(t, val, u, i),
                               [mask |-> mask, reg |-> Undecided, stop |-> FALSE],
                               SubSeq(code, c, Len(code))))

findBest(t, mask, prefer, c, val) ==
    LET free == { r \in mask : t.rs[r] = noVal }
    IN  IF mask = {} THEN none
        ELSE IF prefer \in mask THEN prefer
        ELSE IF free # {} /\ val = noVal THEN Min(free)
        ELSE Scan(t, IF free # {} THEN free ELSE mask, c, val)

-----------------------------------------------------------------------------
(* Operations that are added before the current one, the last of out.      *)

isConst(o) == canCSE(o.opcode) /\ o.in = << >>
FirstLess(n) == (n - 1) % 65536         \* --nUse

AddOp(t, o, res, uses) ==
    [NewOp(t, o, res, uses) EXCEPT
        !.out = Front(@) \o <<Len(t.ops) + 1, Last(@)>>,
        !.rs[res.reg] = Len(t.ops) + 1,
        !.used = @ \cup {res.reg}]

(* Keep the value v of a register in register s as well; from now on that  *)
(* is what v means.                                                        *)
Save(t, v, s, uses) ==
    [AddOp(t, Op("rename", <<v>>, 0, t.b), [NoReg EXCEPT !.reg = s, !.scc = t.res[v].scc], uses)
        EXCEPT !.map = Append(@, [src |-> v, dst |-> Len(t.ops) + 1])]

(* Operation i steps a phi that is used again: keep the old value.         *)
SaveIvIn(t, v, s) ==
    IF s \in {none, t.res[v].reg} THEN [t EXCEPT !.stop = TRUE]
    ELSE [Save(t, v, s, t.use[v] - 1) EXCEPT !.use[v] = 1]

SaveIv(t, i, k) ==
    LET v == t.ops[i].in[k]
    IN  IF \/ t.stop
           \/ \E j \in 1..(k - 1) : t.ops[i].in[j] = v
           \/ t.ops[v].opcode # "phi" \/ t.res[v].iv # i
           \/ t.use[v] < 2 \/ ~InReg(t, v) THEN t
        ELSE SaveIvIn(t, v, findBest(t, General, none, t.c + 1, v))

SaveIvs(t, i) ==
    FoldRight(LAMBDA k, u : SaveIv(u, i, k), [k \in DOMAIN t.ops[i].in |-> k],
              [t EXCEPT !.stop = FALSE])

-----------------------------------------------------------------------------
(* Input k of operation i.                                                 *)

InputMask(t, i, k) ==
    LET in == t.ops[i].in
    IN  regsIn(t.ops[i].opcode, k)
          \ { t.res[in[j]].reg : j \in { x \in 1..(k - 1) : in[x] # in[k] } }

(* A phi of this block without a register gets one nothing was in so far.  *)
PatchPhi(t, i, k) ==
    LET v == t.ops[i].in[k]
        rs == { r \in InputMask(t, i, k) \ t.used : t.rs[r] = noVal }
    IN  IF t.ops[v].opcode # "phi" \/ t.ops[v].block # t.b \/ t.res[v].reg # none
           \/ rs = {} THEN t
        ELSE [t EXCEPT !.rs[Min(rs)] = v, !.res[v].reg = Min(rs),
                       !.used = @ \cup {Min(rs)}]

(* What is in register r goes elsewhere, if that is of any use.  x is the  *)
(* register of input k.                                                    *)
MoveAway(t, i, v, s, stays) ==
    IF s \in stays THEN t ELSE RenameOp(Save(t, v, s, t.use[v]), i)

MakeRoom(t, i, k, r, x) ==
    LET v == t.rs[r]
        o == t.ops[i]
        mask == General \ regsLost(o.opcode)
        fits == IF k = 1 /\ Len(o.in) > 1 /\ v = o.in[2]
                THEN (mask \cap regsIn(o.opcode, 2)) \ {r} ELSE mask
    IN  IF v = noVal \/ isConst(t.ops[v]) THEN t
        ELSE MoveAway(t, i, v, findBest(t, fits, none, t.c + 1, v), {none, r, x})

(* Input k is to be in r and not in x: if it was just computed it can go   *)
(* to r at once, otherwise it is moved, for this operation only.           *)
Move(t, i, k, r, x) ==
    LET v == t.ops[i].in[k]
        o == t.ops[v]
        new == Len(t.ops) + 1
        moved == AddOp(t, Op("rename", <<v>>, 0, t.b), [NoReg EXCEPT !.reg = r], 1)
        left == FirstLess(t.use[v])
    IN  IF /\ Len(t.out) > 1 /\ t.out[Len(t.out) - 1] = v
           /\ Len(o.in) < 2 \/ t.res[o.in[2]].reg # r
           /\ r \in regsOut(o.opcode)
        THEN [t EXCEPT !.rs = [@ EXCEPT ![x] = noVal, ![r] = v], !.res[v].reg = r]
        ELSE IF isConst(o) THEN t
        ELSE [moved EXCEPT !.use[v] = left,
                           !.rs[x] = IF left = 0 THEN noVal ELSE @,
                           !.ops[i].in = [j \in DOMAIN @ |-> IF j = k THEN new ELSE @[j]]]

(* Renames and reloads within the class are undone,                        *)
Origin(t, v) ==
    LET origin[x \in 1..Len(t.ops)] ==
            IF /\ t.ops[x].opcode \in {"rename", "reload"}
               /\ t.res[t.ops[x].in[1]].scc = t.res[v].scc
            THEN origin[t.ops[x].in[1]] ELSE x
    IN  origin[v]

(* and phis that have one value.                                           *)
BackTraced(t, v) ==
    LET traced[x \in 1..Len(t.ops)] ==
            IF t.ops[x].opcode # "phi" \/ t.from[t.ops[x].block] # 1 THEN x
            ELSE traced[SelectSeq(t.blocks[t.ops[x].block].alts,
                                  LAMBDA a : a.phi = x)[1].val]
    IN  traced[v]

(* Can v be computed again, with rs in the registers?                      *)
CanRemat(t, rs, v, memtag) ==
    LET o == t.ops[v]
    IN  /\ canCSE(o.opcode) /\ ~hasSideFX(o.opcode)
        /\ o.opcode = "li" => t.res[v].tag = memtag
        /\ \A w \in ToSet(o.in) : t.res[w].reg # none /\ rs[t.res[w].reg] = w

Remat(t, v, b) == [t.ops[v] EXCEPT !.block = b]

(* Input k of i is not in r: bring it there.  What is stored is the origin,*)
(* unless it is a phi that could be computed.                              *)
ReloadFrom(t, i, r, v, in, x, remat) ==
    LET o == IF remat THEN Remat(t, x, t.b) ELSE Op("reload", <<in>>, 0, t.b)
        res == [NoReg EXCEPT !.reg = r, !.scc = t.res[IF remat THEN x ELSE in].scc,
                             !.tag = IF remat THEN t.res[x].tag ELSE @]
        spilled == [t EXCEPT
            !.res[in].spill = IF remat THEN @ /\ t.ops[in].opcode # "phi" ELSE TRUE,
            !.map = Append(@, [src |-> v, dst |-> Len(t.ops) + 1])]
    IN  RenameOp(AddOp(spilled, o, res, t.use[x]), i)

ReloadOrigin(t, i, r, v, in) ==
    LET x == BackTraced(t, in)
    IN  ReloadFrom(t, i, r, v, in, x, CanRemat(t, t.rs, x, t.memtag))

Reload(t, i, k, r) ==
    LET v == t.ops[i].in[k]
    IN  IF t.rs[r] = v THEN t ELSE ReloadOrigin(t, i, r, v, Origin(t, v))

(* All of that for one input, which is in register x, or in none.          *)
PlaceIn(t, i, k, x, r) ==
    LET comesIn == x # none /\ t.regsIn[t.b][x] = t.ops[i].in[k]
        u == IF comesIn THEN [t EXCEPT !.keep = @ \cup {x}] ELSE t
    IN  IF r = none THEN [t EXCEPT !.ok = FALSE]
        ELSE Reload(IF x \in {none, r} THEN u
                    ELSE Move(MakeRoom(u, i, k, r, x), i, k, r, x), i, k, r)

PlaceFrom(t, i, k, x) ==
    LET mask == IF x = none THEN InputMask(t, i, k) \cap General ELSE InputMask(t, i, k)
    IN  PlaceIn(t, i, k, x, findBest(t, mask, x, t.c, noVal))

PlaceInput(t, i, k) ==
    LET v == t.ops[i].in[k]
    IN  PlaceFrom(t, i, k, IF InReg(t, v) THEN t.res[v].reg ELSE none)

Place(t, i, k) == PlaceInput(PatchPhi(t, i, k), i, k)
-----------------------------------------------------------------------------
(* One operation, after its inputs.                                        *)

(* The assertion that all inputs are in their registers; then those used   *)
(* for the last time are free, and the first one's register is preferred.  *)
FreeInput(t, i, k) ==
    LET v == t.ops[i].in[k]
        left == FirstLess(t.use[v])
        x == t.res[v].reg
    IN  IF left # 0 \/ ~InReg(t, v) THEN [t EXCEPT !.use[v] = left]
        ELSE [t EXCEPT !.use[v] = left, !.rs[x] = noVal,
                       !.prefer = IF k = 1 THEN x ELSE @]

FreeInputs(t, i) ==
    LET in == t.ops[i].in
    IN  FoldLeft(LAMBDA u, k : FreeInput(u, i, k),
                 [t EXCEPT !.ok = @ /\ \A k \in DOMAIN in : InReg(t, in[k]),
                           !.prefer = none],
                 [k \in DOMAIN in |-> k])

(* What a register loses to operation i is saved if it is not a constant.  *)
SaveFrom(t, v, r, s) ==
    IF s = none THEN [t EXCEPT !.rs[r] = noVal]
    ELSE [Save(t, v, s, t.use[v]) EXCEPT !.rs[r] = noVal]

(* Mutant of Clobber: the register is thought to keep its value.           *)
ClobberNothing(t, i, r) == t

Clobber(t, i, r) ==
    LET v == t.rs[r]
        o == t.ops[i]
        safe == (General \ regsLost(o.opcode)) \ { t.res[w].reg : w \in ToSet(o.in) }
    IN  IF v = noVal THEN t
        ELSE SaveFrom(t, v, r, IF isConst(t.ops[v]) THEN none
                               ELSE findBest(t, safe, none, t.c, v))

Clobbers(t, i) ==
    LET lost == regsLost(t.ops[i].opcode)
    IN  IF lost = {} THEN t
        ELSE FoldLeft(LAMBDA u, r : Clobber(u, i, r), [t EXCEPT !.used = Regs],
                      SetToSortSeq(lost, <))

(* A jump passes the registers on to blocks that do not have theirs yet.   *)
PassOn(t, i) ==
    LET o == t.ops[i]
    IN  IF o.opcode \notin Jumps THEN t
        ELSE [t EXCEPT
               !.regsOut[t.b] = t.rs,
               !.regsIn = [x \in DOMAIN @ |->
                  IF x \notin ToSet(o.label) \ t.done THEN @[x]
                  ELSE [r \in Regs |-> IF t.rs[r] # noVal THEN t.rs[r] ELSE @[x][r]]]]

(* A phi takes a register one of its values comes in, if there is one.     *)
TakeValue(t, i, a) ==
    LET at0(r) ==
            LET origin[x \in 0..Len(t.ops)] ==
                    IF x = a.val \/ x = noVal THEN x
                    ELSE IF t.ops[x].opcode \in {"rename", "reload"}
                    THEN origin[t.ops[x].in[1]] ELSE x
            IN  origin[t.rs[r]] = a.val
        rs == { r \in Regs : at0(r) }
    IN  IF a.phi # i THEN t
        ELSE [t EXCEPT !.res[i].reg = IF @ = none /\ rs # {} THEN Min(rs) ELSE @,
                       !.rs = [r \in Regs |-> IF @[r] = a.val THEN noVal ELSE @[r]]]

DefinePhi(t, i) ==
    LET u == FoldLeft(LAMBDA x, a : TakeValue(x, i, a), t, t.blocks[t.b].alts)
        r == u.res[i].reg
    IN  IF r = none THEN u
        ELSE [u EXCEPT !.regsIn[t.b][r] = i, !.rs[r] = i, !.keep = @ \cup {r}]

DefineIn(t, i, r) ==
    IF r = none THEN [t EXCEPT !.ok = FALSE]
    ELSE [t EXCEPT !.memtag = IF hasSideFX(t.ops[i].opcode) THEN i ELSE @,
                   !.res[i].reg = r, !.rs[r] = i, !.used = @ \cup {r}]

Define(t, i) ==
    LET opcode == t.ops[i].opcode
    IN  IF ~hasOutput(opcode) THEN t
        ELSE IF opcode = "phi" THEN DefinePhi(t, i)
        ELSE DefineIn(t, i, findBest(t, regsOut(opcode), t.prefer, t.c + 1, noVal))

(* The renames so far hold for the values a jump gives to phis, too.       *)
RenameAlts(t, map, b, x) ==
    [t EXCEPT !.blocks[x].alts = [n \in DOMAIN @ |->
        IF @[n].src # b THEN @[n] ELSE [@[n] EXCEPT !.val = Through(map, @)]]]

AllocOp(t0, c) ==
    LET i == t0.blocks[t0.b].code[c]
        labels == IF t0.ops[i].opcode \in Jumps THEN t0.ops[i].label ELSE << >>
        renamed == FoldLeft(LAMBDA u, x : RenameAlts(u, t0.map, t0.b, x),
                            RenameOp([t0 EXCEPT !.c = c, !.out = Append(@, i)], i), labels)
        placed == FoldLeft(LAMBDA u, k : Place(u, i, k), SaveIvs(renamed, i),
                           [k \in DOMAIN t0.ops[i].in |-> k])
    IN  IF ~t0.ok THEN t0
        ELSE Define(PassOn(Clobbers(FreeInputs(placed, i), i), i), i)

-----------------------------------------------------------------------------
(* A block.                                                                *)

(* Renames of blocks that do not dominate b do not hold here.  The list is *)
(* closed up but keeps its length.                                         *)
FreshRenames(t, b) ==
    LET above == IF b = 1 THEN {} ELSE (Chain(t, b) \ {b}) \cup {1}
        Holds(r) == t.ops[r.dst].block \in above
        marked == [j \in DOMAIN t.map |->
                     IF Holds(t.map[j]) THEN t.map[j] ELSE [t.map[j] EXCEPT !.src = t.map[j].dst]]
        held == SelectSeq(t.map, Holds)
    IN  held \o SubSeq(marked, Len(held) + 1, Len(marked))

(* What comes in is kept if it is for a phi.                               *)
BeginBlock(b) ==
    LET alts == blocks[b].alts
        vals == { a.val : a \in ToSet(alts) }
        uses == CountUses([v \in 1..Len(ops) |-> IF v \in vals THEN 0 ELSE ra.use[v]], b)
        loops == \E a \in ToSet(alts) : a.src = b
    IN  [Alloc EXCEPT
            !.use = [v \in 1..Len(ops) |->
                       uses[v] + Cardinality({ n \in 1..Len(alts) : alts[n].val = v })],
            !.map = FreshRenames(Alloc, b),
            !.done = @ \cup {b}]
        @@ [b |-> b, c |-> 1, out |-> << >>, used |-> {}, keep |-> {},
            memtag |-> ra.tagIn[b], stop |-> FALSE, prefer |-> none,
            rs |-> [r \in Regs |-> IF loops \/ ra.regsIn[b][r] \in vals
                                   THEN ra.regsIn[b][r] ELSE noVal]]

(* A phi without a register is stored, and only what the block kept is     *)
(* expected to come in.                                                    *)
EndBlock(t) ==
    LET b == t.b
        unplaced == { p \in ToSet(t.blocks[b].args) : t.res[p].reg = none }
    IN  [t EXCEPT
            !.res = [v \in DOMAIN @ |->
                       IF v \in unplaced THEN [@[v] EXCEPT !.spill = TRUE] ELSE @[v]],
            !.blocks[b].code = t.out,
            !.regsIn[b] = [r \in Regs |->
                LET v == @[r]
                IN  IF r \notin t.keep \/ v = noVal THEN noVal
                    ELSE IF t.ops[v].block = b THEN noVal ELSE v]]

Allocated(b) ==
    EndBlock(FoldLeft(AllocOp, BeginBlock(b), [c \in 1..Len(blocks[b].code) |-> c]))

allocBlock ==
    /\ pc = "ra" /\ at.c <= Len(live)
    /\ \E t \in {Allocated(live[at.c])} :
          Allocates(t) /\ nUse' = Extend(nUse, Len(t.ops), 0)
    /\ at' = NextPlace
    /\ UNCHANGED <<Unbuilt, pc, todo, tmp, progress, stage, scan, level>>

AllocBlocks == beginPhi \/ addPhis \/ tagRound \/ allocBlock
=============================================================================
