------------------------------- MODULE Livein -------------------------------
(***************************************************************************)
(* Live values: Proc::rebuild_livein and findUsesBlock (src/src/           *)
(* opt-dce.cpp), run on what dead code elimination leaves.  For each block *)
(* the operations whose values it or a later block needs; sink, the loop   *)
(* optimizations and the register allocator work from these sets.          *)
(*                                                                         *)
(* The use counts of operations serve as scratch space, so that a count    *)
(* that is not back at zero after one block is a bogus value for the next. *)
(***************************************************************************)
EXTENDS Dce

VARIABLE livein         \* Block::livein

liveinVars == <<vars, livein>>

-----------------------------------------------------------------------------
(* rebuild_cfg: walk from the entry, find what every block comes from, drop*)
(* alternatives that belong to no edge or whose value is gone.             *)
rebuild_cfg ==
    /\ pc = "done"
    /\ blocks' = [b \in 1..Len(blocks) |-> [blocks[b] EXCEPT !.live = (b = 1)]]
    /\ todo' = <<1>> /\ live' = <<1>>
    /\ pc' = "cfg"
    /\ UNCHANGED <<Unbuilt, ops, nUse, tmp, progress, at, livein>>

(* The blocks b jumps to that are not live yet, each once, in order.       *)
NewLabels(b) ==
    LET jump == LastOp(ops, blocks, b)
        labels == IF jump.opcode \in Jumps THEN jump.label ELSE << >>
        once == IF Len(labels) = 2 /\ labels[1] = labels[2] THEN <<labels[1]>> ELSE labels
    IN  SelectSeq(once, LAMBDA x : ~blocks[x].live)

walkCfg ==
    /\ pc = "cfg" /\ todo # << >>
    /\ \E new \in {NewLabels(todo[Len(todo)])} :
          /\ todo' = Front(todo) \o new
          /\ live' = live \o new
          /\ blocks' = [b \in 1..Len(blocks) |->
                          IF b \in ToSet(new) THEN [blocks[b] EXCEPT !.live = TRUE]
                          ELSE blocks[b]]
    /\ UNCHANGED <<Unbuilt, pc, ops, nUse, tmp, progress, at, livein>>

CleanAlts(b) ==
    SelectSeq(blocks[b].alts,
              LAMBDA a : ops[a.val].opcode # "nop" /\ a.src \in comeFrom(b))

(* Then all counts and sets are cleared.                                   *)
beginLivein ==
    /\ pc = "cfg" /\ todo = << >>
    /\ blocks' = [b \in 1..Len(blocks) |->
                    IF b \in ToSet(live) THEN [blocks[b] EXCEPT !.alts = CleanAlts(b)]
                    ELSE blocks[b]]
    /\ nUse' = [v \in DOMAIN nUse |-> IF hasOutput(ops[v].opcode) THEN 0 ELSE nUse[v]]
    /\ livein' = [b \in 1..Len(blocks) |-> {}]
    /\ progress' = FALSE
    /\ at' = [NoPlace EXCEPT !.c = Len(live)]
    /\ pc' = "livein"
    /\ UNCHANGED <<Unbuilt, ops, todo, live, tmp>>

-----------------------------------------------------------------------------
(* The uses of the jump at the end of block b: the values its targets'     *)
(* phis have on these edges, and what is live into the targets.            *)
JumpUses(b, o, v) ==
    IF o.opcode \notin Jumps THEN 0
    ELSE LET Of(k) ==
            Cardinality({ n \in 1..Len(blocks[o.label[k]].alts) :
                /\ blocks[o.label[k]].alts[n].src = b
                /\ blocks[o.label[k]].alts[n].val = v })
            + (IF v \in livein[o.label[k]] THEN 1 ELSE 0)
         IN  Of(1) + (IF Len(o.label) = 2 THEN Of(2) ELSE 0)

(* The uses of v by the operations at positions cs of block b.             *)
UsesAt(b, cs, v) ==
    LET code == blocks[b].code
    IN  Cardinality({ u \in cs \X (1..2) :
                        u[2] <= Len(ops[code[u[1]]].in) /\ ops[code[u[1]]].in[u[2]] = v })
        + (IF Len(code) \in cs THEN JumpUses(b, ops[code[Len(code)]], v) ELSE 0)

Defs(b, v) ==
    { c \in 1..Len(blocks[b].code) : blocks[b].code[c] = v /\ hasOutput(ops[v].opcode) }

(* Mutant of findUsesBlock: what the jump uses is forgotten.               *)
findUsesBlockNoJump(b) ==
    [v \in 1..Len(ops) |->
        LET defs == Defs(b, v)
        IN  IF defs = {} THEN nUse[v] + UsesAt(b, 1..(Len(blocks[b].code) - 1), v)
            ELSE UsesAt(b, { c \in 1..(Len(blocks[b].code) - 1) : \A d \in defs : c < d }, v)]

(* Backwards through the block: uses count, a definition starts from zero. *)
findUsesBlock(b) ==
    [v \in 1..Len(ops) |->
        LET defs == Defs(b, v)
        IN  IF defs = {} THEN nUse[v] + UsesAt(b, 1..Len(blocks[b].code), v)
            ELSE UsesAt(b, { c \in 1..Len(blocks[b].code) : \A d \in defs : c < d }, v)]

(* One block, in reverse order.                                            *)
liveinBlock ==
    /\ pc = "livein" /\ at.c > 0
    /\ \E uses \in {findUsesBlock(live[at.c])} :
       \E needed \in {{ v \in DOMAIN uses : hasOutput(ops[v].opcode) /\ uses[v] # 0 }} :
          /\ livein' = [livein EXCEPT ![live[at.c]] = needed]
          /\ nUse' = [v \in DOMAIN uses |-> IF v \in needed THEN 0 ELSE uses[v]]
          /\ progress' = (progress \/
                            Cardinality(needed) # Cardinality(livein[live[at.c]]))
    /\ at' = [at EXCEPT !.c = @ - 1]
    /\ UNCHANGED <<Unbuilt, pc, ops, blocks, todo, live, tmp>>

liveinAgain ==
    /\ pc = "livein" /\ at.c = 0 /\ progress
    /\ progress' = FALSE
    /\ at' = [at EXCEPT !.c = Len(live)]
    /\ UNCHANGED <<Unbuilt, pc, ops, blocks, todo, live, nUse, tmp, livein>>

-----------------------------------------------------------------------------
(* Properties.                                                             *)

(* The values used at the end of an edge out of b, or by b itself.         *)
UsedIn(b) ==
    (UNION { ToSet(ops[c].in) : c \in ToSet(blocks[b].code) })
        \cup { a.val : a \in UNION { { x \in ToSet(blocks[t].alts) : x.src = b } :
                                        t \in Targets(ops, blocks, b) } }

(* A value is live into a block when there is a path from there to a use   *)
(* that does not meet the block that computes it.                          *)
LiveInto(v) ==
    LET def == ops[v].block
        back[n \in 0..Len(blocks)] ==
            IF n = 0 THEN { b \in ToSet(live) : v \in UsedIn(b) } \ {def}
            ELSE LET s == back[n - 1]
                 IN  s \cup { b \in ToSet(live) \ {def} :
                                Targets(ops, blocks, b) \cap s # {} }
    IN  back[Len(blocks)]

(* What the pass walks through: sequences of operations and of blocks that *)
(* there are, operations with at most two inputs, jumps with labels.       *)
WellTyped ==
    /\ live \in Seq(1..Len(blocks))
    /\ ops \in Seq([opcode : STRING, in : Seq(1..Len(ops)), imm : Int,
                    label : Seq(1..Len(blocks)), block : 1..Len(blocks),
                    phiIndex : Nat, noOpt : BOOLEAN])
    /\ blocks \in Seq([code : Seq(1..Len(ops)), args : Seq(0..Len(ops)), live : BOOLEAN,
                       alts : Seq([phi : 1..Len(ops), src : 1..Len(blocks), val : 1..Len(ops)])])
    /\ DOMAIN nUse = 1..Len(ops)
    /\ \A v \in 1..Len(ops) :
          /\ Len(ops[v].in) <= 2
          /\ ops[v].opcode \in Jumps => Len(ops[v].label) \in 1..2

(* The checks of Proc::sanity that it relies on: values are computed on    *)
(* all paths to where they are used, in the block they are said to be in;  *)
(* jumps go to blocks that were found.                                     *)
Ready ==
    /\ WellTyped /\ DefsDominate
    /\ \A b \in ToSet(live) :
          /\ Targets(ops, blocks, b) \subseteq ToSet(live)
          /\ \A v \in UsedIn(b) :
                hasOutput(ops[v].opcode) /\ v \in ToSet(blocks[ops[v].block].code)

(* Whatever other passes have moved, copied and renamed, this is so each   *)
(* time that live values are found.                                        *)
LiveinReady == pc = "livein" => Ready

(* In the end the sets are exactly the live values, for loops within loops *)
(* and for values that only a phi of a later block needs.                  *)
LiveinCorrect ==
    pc = "livein" /\ at.c = 0 /\ ~progress => \A v \in 1..Len(ops) :
        { b \in ToSet(live) : v \in livein[b] } = LiveInto(v)

=============================================================================
