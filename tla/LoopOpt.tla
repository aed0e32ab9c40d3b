------------------------------ MODULE LoopOpt ------------------------------
(***************************************************************************)
(* Loop inversion and merging of blocks, Proc::opt_jump and opt_jump_be    *)
(* (src/src/opt-jump.cpp), between the rounds of dead code elimination     *)
(* that opt() makes it alternate with (src/src/bjit.h).                    *)
(*                                                                         *)
(* A back edge to a block that branches gets a copy of that block, so that *)
(* the loop ends in the branch.  What the branch block computes then has   *)
(* two definitions, and the blocks it immediately dominates get phis.      *)
(* All this works on dominators and live values that are from before the   *)
(* first change and that breakEdge repairs only in part.                   *)
(*                                                                         *)
(* One call of opt_jump is a scan of the live blocks that ends with the    *)
(* first change.  Dominators are computed in one step: how they are found  *)
(* is the subject of module Dominators.                                    *)
(***************************************************************************)
EXTENDS Livein

VARIABLES idom, pdom,   \* Block::idom, Block::pdom (noVal: none)
          stage,        \* the pass: "cse", "jump", "clean" (the clean-up
                        \* of opt_jump) or "sink"
          scan,         \* the loop of opt_jump: its length and its result
          level         \* unsafeOpt of opt(); opt_jump's clean-up has its own

loopVars == <<liveinVars, idom, pdom, stage, scan, level>>

(* What the pass changes, as a record.                                     *)
Proc == [ops |-> ops, blocks |-> blocks, live |-> live, livein |-> livein,
         idom |-> idom, pdom |-> pdom]

Becomes(s) ==
    /\ ops' = s.ops /\ blocks' = s.blocks /\ live' = s.live
    /\ livein' = s.livein /\ idom' = s.idom /\ pdom' = s.pdom

Terminator(s, b) == s.blocks[b].code[Len(s.blocks[b].code)]
Preds(s, b) == { x \in ToSet(s.live) : b \in Targets(s.ops, s.blocks, x) }
StartsWithPhi(s, b) == s.ops[s.blocks[b].code[1]].opcode = "phi"

-----------------------------------------------------------------------------
(* rebuild_dom.                                                            *)

(* Every way from b to an exit leads through d.                            *)
PostDominates(s, d, b) ==
    LET reached[n \in 0..Len(s.live)] ==
            IF n = 0 THEN {b} \ {d}
            ELSE LET found == reached[n - 1]
                 IN  found \cup
                     ((UNION { Targets(s.ops, s.blocks, x) : x \in found }) \ {d})
    IN  \A x \in reached[Len(s.live)] : s.ops[Terminator(s, x)].opcode \in Jumps

(* The immediate one of the blocks that (post-)dominate b has one less.    *)
Immediate(doms, b) ==
    LET ds == { d \in doms[b] : Cardinality(doms[d]) = Cardinality(doms[b]) - 1 }
    IN  IF ds = {} THEN noVal ELSE CHOOSE d \in ds : TRUE

RebuildDom(s) ==
    LET all == ToSet(s.live)
        doms == [b \in all |-> { d \in all : Dominates(s.ops, s.blocks, d, b) }]
        pdoms == [b \in all |-> { d \in all : PostDominates(s, d, b) }]
    IN  [s EXCEPT !.idom = [b \in 1..Len(s.blocks) |->
                                IF b \in all \ {1} THEN Immediate(doms, b) ELSE 1],
                  !.pdom = [b \in 1..Len(s.blocks) |->
                                IF b \in all THEN Immediate(pdoms, b) ELSE noVal]]

(* The blocks on the chain of immediate dominators from b up, without the  *)
(* entry.                                                                  *)
Chain(s, b) ==
    LET up[n \in 0..Len(s.live)] == IF n = 0 THEN b ELSE s.idom[up[n - 1]]
    IN  { up[n] : n \in 0..Len(s.live) } \ {1}

-----------------------------------------------------------------------------
(* Mutant of breakEdge: the phis of the target keep their source.          *)
breakEdgeKeepsAlts(s, from, to) ==
    LET jump == Terminator(s, from)
        b == Len(s.blocks) + 1
    IN  [s EXCEPT
          !.ops = Append([@ EXCEPT ![jump].label =
                           [k \in DOMAIN @ |-> IF @[k] = to THEN b ELSE @[k]]],
                         [Op("jmp", << >>, 0, b) EXCEPT !.label = <<to>>,
                                                        !.noOpt = s.ops[jump].noOpt]),
          !.blocks = Append(@, [NewBlock EXCEPT !.code = <<Len(s.ops) + 1>>, !.live = TRUE]),
          !.live = Append(@, b),
          !.livein = Append(@, @[to]),
          !.idom = Append([@ EXCEPT ![to] = IF @ = from THEN b ELSE @], from),
          !.pdom = Append([@ EXCEPT ![from] = IF @ = to THEN b ELSE @], to)]

(* A new block on the edge between two blocks.  Its callers store the      *)
(* result, the new block, in the label.                                    *)
breakEdge(s, from, to) ==
    LET jump == Terminator(s, from)
        b == Len(s.blocks) + 1
        onEdge == { a.val : a \in { x \in ToSet(s.blocks[to].alts) : x.src = from } }
    IN  [s EXCEPT
          !.ops = Append([@ EXCEPT ![jump].label =
                           [k \in DOMAIN @ |-> IF @[k] = to THEN b ELSE @[k]]],
                         [Op("jmp", << >>, 0, b) EXCEPT !.label = <<to>>,
                                                        !.noOpt = s.ops[jump].noOpt]),
          !.blocks = Append([@ EXCEPT ![to].alts =
                               [n \in DOMAIN @ |->
                                 [@[n] EXCEPT !.src = IF @ = from THEN b ELSE @]]],
                            [NewBlock EXCEPT !.code = <<Len(s.ops) + 1>>, !.live = TRUE]),
          !.live = Append(@, b),
          !.livein = Append(@, @[to] \cup onEdge),
          !.idom = Append([@ EXCEPT ![to] = IF @ = from THEN b ELSE @], from),
          !.pdom = Append([@ EXCEPT ![from] = IF @ = to THEN b ELSE @], to)]

-----------------------------------------------------------------------------
(* opt_jump_be: block b jumps back to a block that dominates it and ends   *)
(* in a conditional jump.                                                  *)

IsBackEdge(s, b) ==
    /\ s.ops[Terminator(s, b)].opcode = "jmp"
    /\ LET head == s.ops[Terminator(s, b)].label[1]
       IN  /\ head # b /\ head \in Chain(s, b)
           /\ s.ops[Terminator(s, head)].opcode \in CondJumps

(* Edges from the target to blocks with phis are broken.                   *)
BreakIntoPhis(s, head) ==
    LET Break(k, r) ==
            LET to == r.ops[Terminator(r, head)].label[k]
            IN  IF StartsWithPhi(r, to) THEN breakEdge(r, head, to) ELSE r
    IN  Break(2, Break(1, s))

(* The copy nb of the target: operation at position c becomes operation    *)
(* Len(s.ops) + c.  The copied jump is not optimized again.                *)
CopyOf(s, head, v) ==
    LET code == s.blocks[head].code
        cs == { c \in 1..(Len(code) - 1) : code[c] = v }
    IN  IF cs = {} THEN v ELSE Len(s.ops) + (CHOOSE c \in cs : TRUE)

CopyBlock(s, b, head) ==
    LET orig == s.blocks[head]
        nb == Len(s.blocks) + 1
        Copy(v) == CopyOf(s, head, v)
        InSlot(i) == SelectSeq(orig.code, LAMBDA v : s.ops[v].opcode = "phi"
                                                     /\ s.ops[v].phiIndex = i)
        Phi(i) == IF InSlot(i) = << >> THEN noVal ELSE Copy(Last(InSlot(i)))
        jump == Terminator(s, b)
    IN  [s EXCEPT
          !.ops = [@ EXCEPT ![jump].label = <<nb>>]
                    \o [c \in 1..Len(orig.code) |->
                         LET o == s.ops[orig.code[c]]
                         IN  [o EXCEPT !.block = nb, !.noOpt = (o.opcode \in Jumps),
                                       !.in = [k \in DOMAIN @ |-> Copy(@[k])]]],
          !.blocks = Append(@,
             [code |-> [c \in 1..Len(orig.code) |-> Len(s.ops) + c],
              args |-> [i \in DOMAIN orig.args |-> Phi(i)],
              alts |-> [n \in DOMAIN orig.alts |->
                          [orig.alts[n] EXCEPT !.phi = Phi(s.ops[@].phiIndex)]],
              live |-> TRUE]),
          !.live = Append(@, nb),
          !.livein = Append(@, {}),
          !.idom = Append(@, b),
          !.pdom = Append([@ EXCEPT ![b] = nb], @[b])]

(* The blocks that get phis, and the values they get them for.             *)
Fixed(s, head) == SelectSeq(s.live, LAMBDA f : s.idom[f] = head)

NewPhis(s, head) ==
    LET From(f) == SetToSortSeq({ v \in s.livein[f] : s.ops[v].block = head }, <)
    IN  FlattenSeq([i \in 1..Len(Fixed(s, head)) |->
            LET f == Fixed(s, head)[i]
            IN  [j \in 1..Len(From(f)) |-> <<f, From(f)[j]>>]])

(* Phi n of NewPhis: what the value is from the target, and from its copy. *)
AddPhis(s, old, head) ==
    LET nb == Len(s.blocks)
        phis == NewPhis(s, head)
        base == Len(s.ops)
        Of(f) == SelectSeq([n \in 1..Len(phis) |-> n], LAMBDA n : phis[n][1] = f)
    IN  [s EXCEPT
          !.ops = @ \o [n \in 1..Len(phis) |->
                          LET f == phis[n][1]
                              first == Of(f)[1]
                          IN  [Op("phi", << >>, 0, f) EXCEPT
                                 !.phiIndex = Len(s.blocks[f].args) + 1 + n - first]],
          !.blocks = [f \in DOMAIN @ |->
             LET new == [i \in 1..Len(Of(f)) |-> base + Of(f)[i]]
             IN  [@[f] EXCEPT
                   !.code = new \o @,
                   !.args = @ \o new,
                   !.alts = @ \o FlattenSeq([i \in 1..Len(Of(f)) |->
                       LET v == phis[Of(f)[i]][2]
                       IN  <<Alt(new[i], head, v),
                             Alt(new[i], nb, CopyOf(old, head, v))>>])]]]

(* In what a fixed block dominates, its phis replace the values.           *)
RenameDominated(s, phis, base) ==
    LET nb == Len(s.blocks)
        under == [b \in ToSet(s.live) |-> Chain(s, b)]
        New(b, v) ==
            LET ns == { n \in 1..Len(phis) : phis[n][1] \in under[b] /\ phis[n][2] = v }
            IN  IF ns = {} THEN v ELSE base + (CHOOSE n \in ns : \A m \in ns : n <= m)
        isLive(b) == b \in ToSet(s.live)
    IN  [s EXCEPT
          !.ops = [i \in DOMAIN @ |->
                     IF isLive(@[i].block) /\ i \in ToSet(s.blocks[@[i].block].code)
                     THEN [@[i] EXCEPT !.in = [k \in DOMAIN @ |->
                                                 New(s.ops[i].block, @[k])]]
                     ELSE @[i]],
          !.livein = [b \in DOMAIN @ |->
                        IF isLive(b) THEN { New(b, v) : v \in @[b] } ELSE @[b]],
          !.blocks = [t \in DOMAIN @ |-> [@[t] EXCEPT !.alts =
                        [n \in DOMAIN @ |->
                          LET a == @[n]
                          IN  IF /\ isLive(a.src) /\ a.src # nb
                                 /\ t \in Targets(s.ops, s.blocks, a.src)
                              THEN [a EXCEPT !.val = New(a.src, @)] ELSE a]]]]

(* Mutant of opt_jump_be: the dominated blocks keep the old values.        *)
opt_jump_beNoRename(s0, b) ==
    LET head == s0.ops[Terminator(s0, b)].label[1]
        broken == BreakIntoPhis(s0, head)
    IN  AddPhis(CopyBlock(broken, b, head), broken, head)

opt_jump_be(s0, b) ==
    LET head == s0.ops[Terminator(s0, b)].label[1]
        broken == BreakIntoPhis(s0, head)
        copied == CopyBlock(broken, b, head)
    IN  RenameDominated(AddPhis(copied, broken, head),
                        NewPhis(copied, head), Len(copied.ops))

-----------------------------------------------------------------------------
(* opt_jump.                                                               *)

LoopInit ==
    /\ Init
    /\ livein = << >> /\ idom = << >> /\ pdom = << >>
    /\ scan = [upTo |-> 0, progress |-> FALSE]
    /\ level = unsafeOpt

NotLoop == <<livein, idom, pdom, stage, scan, level>>

(* opt() calls opt_jump as long as it made progress.  It starts with       *)
(* rebuild_dom and rebuild_livein.                                         *)
beginJump ==
    /\ pc = "done"
    /\ stage = "jump" \/ (stage = "clean" /\ scan.progress)
    /\ rebuild_cfg
    /\ \E s \in {RebuildDom(Proc)} : idom' = s.idom /\ pdom' = s.pdom
    /\ stage' = "jump"
    /\ UNCHANGED <<scan, level>>

liveinSteps ==
    /\ walkCfg \/ (stage # "clean" /\ beginLivein) \/ liveinBlock \/ liveinAgain
    /\ UNCHANGED <<idom, pdom, stage, scan, level>>

beginScan ==
    /\ pc = "livein" /\ at.c = 0 /\ ~progress /\ stage = "jump"
    /\ pc' = "scan"
    /\ at' = NoPlace
    /\ scan' = [upTo |-> Len(live), progress |-> FALSE]
    /\ UNCHANGED <<Unbuilt, ops, blocks, todo, live, nUse, tmp, progress,
                   livein, idom, pdom, stage, level>>

Scanned == live[at.c]
Jumping == ops[Terminator(Proc, Scanned)]
InScan == pc = "scan" /\ at.c <= scan.upTo

ScanUnchanged == UNCHANGED <<Unbuilt, todo, nUse, tmp, progress, stage, level>>

(* What block b jumps to has no other predecessor and no phis: its code    *)
(* moves to the end of b.                                                  *)
CanMerge ==
    /\ Jumping.opcode = "jmp"
    /\ Cardinality(Preds(Proc, Jumping.label[1])) = 1
    /\ ~StartsWithPhi(Proc, Jumping.label[1])

Merged(s, b) ==
    LET from == s.ops[Terminator(s, b)].label[1]
        moved == s.blocks[from].code
        targets == Targets(s.ops, s.blocks, from)
    IN  [s EXCEPT
          !.ops = [i \in DOMAIN @ |->
                     IF i \in ToSet(moved) THEN [@[i] EXCEPT !.block = b] ELSE @[i]],
          !.blocks = [x \in DOMAIN @ |-> [@[x] EXCEPT
             !.code = CASE x = b -> Front(@) \o moved [] x = from -> << >> [] OTHER -> @,
             !.alts = IF x \notin targets THEN @
                      ELSE [n \in DOMAIN @ |->
                              [@[n] EXCEPT !.src = IF @ = from THEN b ELSE @]]]]]

merge ==
    /\ InScan /\ CanMerge
    /\ \E s \in {Merged(Proc, Scanned)} : Becomes(s)
    /\ scan' = [upTo |-> 0, progress |-> TRUE]
    /\ UNCHANGED <<pc, at>>
    /\ ScanUnchanged

(* The second label is where all paths meet: swap, so that loops are found *)
(* first.  opcode ^ 1 is the opposite condition.                           *)
(* Mutant of MustSwap: either label will do.                               *)
MustSwapEither ==
    Jumping.opcode \in CondJumps /\ pdom[Scanned] \in ToSet(Jumping.label)

MustSwap == Jumping.opcode \in CondJumps /\ pdom[Scanned] = Jumping.label[2]

swapLabels ==
    /\ InScan /\ MustSwap
    /\ ops' = [ops EXCEPT
         ![Terminator(Proc, Scanned)].opcode = IF @ = "jz" THEN "jnz" ELSE "jz",
         ![Terminator(Proc, Scanned)].label = <<@[2], @[1]>>]
    /\ UNCHANGED <<pc, at, blocks, live, livein, idom, pdom, scan>>
    /\ ScanUnchanged

(* A block that branches to itself gets a block on that edge first, and    *)
(* the dominators are found again.                                         *)
SelfLabels ==
    { k \in 1..2 : Jumping.opcode \in CondJumps /\ Jumping.label[k] = Scanned }

RebuildCfg(s) ==
    LET visited[n \in 0..Len(s.blocks)] ==
            IF n = 0 THEN [todo |-> <<1>>, live |-> <<1>>]
            ELSE LET w == visited[n - 1]
                     jump == s.ops[Terminator(s, w.todo[Len(w.todo)])]
                     new == SelectSeq(IF jump.opcode \in Jumps THEN jump.label ELSE << >>,
                                      LAMBDA x : x \notin ToSet(w.live))
                 IN  IF w.todo = << >> THEN w
                     ELSE [todo |-> Front(w.todo) \o new, live |-> w.live \o new]
    IN  [s EXCEPT !.live = visited[Len(s.blocks)].live]

SelfLoopBroken(b, k) ==
    LET s == breakEdge(Proc, b, Jumping.label[k])
    IN  RebuildDom(RebuildCfg([s EXCEPT !.ops[Terminator(s, b)].noOpt = TRUE]))

selfLoop ==
    /\ InScan /\ ~CanMerge /\ ~MustSwap /\ ~Jumping.noOpt
    /\ \E k \in SelfLabels :
       \E s \in {SelfLoopBroken(Scanned, k)} :
          Becomes(opt_jump_be(s, Len(s.blocks)))
    /\ scan' = [upTo |-> 0, progress |-> TRUE]
    /\ UNCHANGED <<pc, at>>
    /\ ScanUnchanged

backEdge ==
    /\ InScan /\ ~CanMerge /\ ~MustSwap /\ ~Jumping.noOpt
    /\ IsBackEdge(Proc, Scanned)
    /\ \E s \in {opt_jump_be(Proc, Scanned)} : Becomes(s)
    /\ scan' = [upTo |-> 0, progress |-> TRUE]
    /\ UNCHANGED <<pc, at>>
    /\ ScanUnchanged

nextScanned ==
    /\ InScan /\ ~CanMerge /\ ~MustSwap
    /\ Jumping.noOpt \/ (SelfLabels = {} /\ ~IsBackEdge(Proc, Scanned))
    /\ at' = NextPlace
    /\ UNCHANGED <<pc, ops, blocks, live, livein, idom, pdom, scan>>
    /\ ScanUnchanged

(* rebuild_cfg "cleans up any stale phis, so DCE doesn't get confused",    *)
(* then opt_dce; neither knows of unsafeOpt.                               *)
endScan ==
    /\ pc = "scan" /\ at.c > scan.upTo
    /\ blocks' = [b \in 1..Len(blocks) |-> [blocks[b] EXCEPT !.live = (b = 1)]]
    /\ todo' = <<1>> /\ live' = <<1>>
    /\ pc' = "cfg"
    /\ stage' = "clean"
    /\ UNCHANGED <<Unbuilt, ops, nUse, tmp, progress, at,
                   livein, idom, pdom, scan, level>>

beginClean ==
    /\ pc = "cfg" /\ todo = << >> /\ stage = "clean"
    /\ blocks' = [b \in 1..Len(blocks) |->
                    IF b \in ToSet(live) THEN [blocks[b] EXCEPT !.alts = CleanAlts(b)]
                    ELSE blocks[b]]
    /\ nUse' = [v \in 1..Len(ops) |-> IF v \in DOMAIN nUse THEN nUse[v] ELSE 0]
    /\ tmp' = [v \in 1..Len(ops) |-> IF v \in DOMAIN tmp THEN tmp[v] ELSE noVal]
    /\ unsafeOpt' = FALSE
    /\ progress' = TRUE
    /\ pc' = "round"
    /\ UNCHANGED <<script, env, currentBlock, built, ops, todo, live, at, NotLoop>>

OptJump ==
    \/ beginJump \/ liveinSteps \/ beginScan \/ merge \/ swapLabels \/ selfLoop
    \/ backEdge \/ nextScanned \/ endScan \/ beginClean
=============================================================================
