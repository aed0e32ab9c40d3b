--------------------------------- MODULE Dce ---------------------------------
(***************************************************************************)
(* Dead code elimination, Proc::opt_dce (src/src/opt-dce.cpp): the pass    *)
(* that runs before everything else and after every other pass.  It walks  *)
(* the blocks it can reach, counts uses, threads jumps through blocks that *)
(* only jump on, replaces phis that have one value, removes what is unused *)
(* and does it all again until nothing changes.  Whether that is ever the  *)
(* case, and whether the procedure still means the same, are the questions.*)
(*                                                                         *)
(* A step is one operation of the walk, one turn of the threading loop, or *)
(* one block of each later phase of a round.                               *)
(***************************************************************************)
EXTENDS ProcBuild

CONSTANT Levels         \* the values of unsafeOpt to consider

VARIABLES unsafeOpt,    \* the parameter: may what could trap be removed?
          built,        \* the procedure the front-end made (history)
          pc,           \* the phase
          todo, live,   \* blocks to walk, and all blocks found
          nUse,         \* uses of each operation's result
          tmp,          \* Phi::tmp: the only value of a phi, or itself, or noVal
          progress,     \* must there be another round?
          at            \* the place: block b, position c in its code, label k
                        \* and whether the tail of the block is dead; in the
                        \* later phases c is a position in live

vars == <<buildVars, unsafeOpt, built, pc, todo, live, nUse, tmp, progress, at>>

NoPlace == [b |-> 1, c |-> 1, k |-> 1, deadTail |-> FALSE]

Init ==
    /\ BuildInit
    /\ unsafeOpt \in Levels
    /\ built = [ops |-> << >>, blocks |-> << >>]
    /\ pc = "build"
    /\ todo = << >> /\ live = << >>
    /\ nUse = << >> /\ tmp = << >>
    /\ progress = TRUE
    /\ at = NoPlace

FrontEnd ==
    /\ pc = "build"
    /\ Build
    /\ UNCHANGED <<unsafeOpt, built, pc, todo, live, nUse, tmp, progress, at>>

(* compile() calls opt_dce.                                                *)
compile ==
    /\ pc = "build" /\ script = << >>
    /\ built' = [ops |-> ops, blocks |-> blocks]
    /\ nUse' = [i \in 1..Len(ops) |-> 0]
    /\ tmp' = [i \in 1..Len(ops) |-> noVal]
    /\ pc' = "round"
    /\ UNCHANGED <<buildVars, unsafeOpt, todo, live, progress, at>>

Unbuilt == <<script, env, currentBlock, unsafeOpt, built>>

-----------------------------------------------------------------------------
(* Mutant of beginRound: the last round's progress stays.                  *)
beginRoundKeepsProgress ==
    /\ pc = "round" /\ progress
    /\ nUse' = [v \in 1..Len(ops) |-> 0]
    /\ blocks' = [b \in 1..Len(blocks) |-> [blocks[b] EXCEPT !.live = (b = 1)]]
    /\ todo' = <<1>> /\ live' = <<1>>
    /\ pc' = "pop"
    /\ UNCHANGED <<Unbuilt, ops, tmp, progress, at>>

(* A round: forget which blocks are live and how often values are used.    *)
beginRound ==
    /\ pc = "round" /\ progress
    /\ progress' = FALSE
    /\ nUse' = [i \in 1..Len(ops) |->
                  IF \E b \in 1..Len(blocks) :
                        blocks[b].live /\ i \in ToSet(blocks[b].code)
                  THEN 0 ELSE nUse[i]]
    /\ blocks' = [b \in 1..Len(blocks) |-> [blocks[b] EXCEPT !.live = (b = 1)]]
    /\ todo' = <<1>> /\ live' = <<1>>
    /\ pc' = "pop"
    /\ UNCHANGED <<Unbuilt, ops, tmp, at>>

endDce ==
    /\ pc = "round" /\ ~progress
    /\ pc' = "done"
    /\ UNCHANGED <<Unbuilt, ops, blocks, todo, live, nUse, tmp, progress, at>>

-----------------------------------------------------------------------------
(* The walk.                                                               *)

popBlock ==
    /\ pc = "pop"
    /\ IF todo = << >>
       THEN pc' = "uses" /\ at' = NoPlace /\ UNCHANGED todo
       ELSE /\ at' = [NoPlace EXCEPT !.b = todo[Len(todo)]]
            /\ todo' = Front(todo)
            /\ pc' = "visit"
    /\ UNCHANGED <<Unbuilt, ops, blocks, live, nUse, tmp, progress>>

Code == blocks[at.b].code
Here == Code[at.c]                      \* the operation at the place
NextPlace == [at EXCEPT !.c = @ + 1, !.k = 1]

(* Mutant of InputUses: an operation uses a value once.                    *)
InputUsesOnce(o, v) == IF \E k \in 1..nInputs(o.opcode) : o.in[k] = v THEN 1 ELSE 0

InputUses(o, v) == Cardinality({ k \in 1..nInputs(o.opcode) : o.in[k] = v })

EndsBlock(opcode) == opcode \in Terminators \ {"tcalln"}    \* <= tcallp

(* One operation: a dead one goes, another counts as a user of its inputs. *)
(* A place may be empty, when CSE has moved what was there.                *)
visit ==
    /\ pc = "visit"
    /\ IF at.c > Len(Code)
       THEN pc' = "pop" /\ UNCHANGED <<ops, nUse, at>>
       ELSE IF Here = noVal
       THEN at' = NextPlace /\ UNCHANGED <<pc, ops, nUse>>
       ELSE IF at.deadTail
       THEN /\ ops' = [ops EXCEPT ![Here] = makeNOP(@)]
            /\ at' = NextPlace
            /\ UNCHANGED <<pc, nUse>>
       ELSE /\ nUse' = [v \in DOMAIN nUse |-> nUse[v] + InputUses(ops[Here], v)]
            /\ IF ops[Here].opcode \in Jumps
               THEN pc' = "thread" /\ at' = [at EXCEPT !.k = 1]
               ELSE /\ at' = [NextPlace EXCEPT !.deadTail = EndsBlock(ops[Here].opcode)]
                    /\ UNCHANGED pc
            /\ UNCHANGED ops
    /\ UNCHANGED <<Unbuilt, blocks, todo, live, tmp, progress>>

-----------------------------------------------------------------------------
(* Jump threading: the jump Here of block at.b goes to bsrc, and bsrc does    *)
(* nothing but jump to target.                                             *)

bsrc == ops[Here].label[at.k]

IsPhiOp(v) == v # noVal /\ ops[v].opcode = "phi"

(* The first operation of a block that is not a phi.                       *)
AfterPhis(b) ==
    LET cs == { c \in 1..Len(blocks[b].code) : ~IsPhiOp(blocks[b].code[c]) }
    IN  IF cs = {} THEN noVal ELSE blocks[b].code[CHOOSE c \in cs : \A d \in cs : c <= d]

JumpsOn ==
    LET tjmp == AfterPhis(bsrc)
    IN  /\ tjmp \notin {noVal, Here}
        /\ ops[tjmp].opcode = "jmp"
        /\ ops[Here].opcode \in CondJumps =>
                blocks[bsrc].code[1] # noVal /\ ~IsPhiOp(blocks[bsrc].code[1])

target == ops[AfterPhis(bsrc)].label[1]

(* Every phi of bsrc is handed on to a phi of target.                      *)
PhisHandedOn ==
    \A p \in ToSet(blocks[bsrc].args) :
        p = noVal \/ ops[p].opcode = "nop"
            \/ \E a \in ToSet(blocks[target].alts) : a.src = bsrc /\ a.val = p

(* What alternative a of target is worth on the way through bsrc: if it is *)
(* a phi of the block it comes from, what that is coming from at.b.        *)
IsLocalPhi(a) == ops[a.val].opcode = "phi" /\ ops[a.val].block = a.src

ResolvedBy(a) == SelectSeq(blocks[a.src].alts,
                           LAMBDA s : s.phi = a.val /\ s.src = at.b)
Resolved(a) ==
    IF IsLocalPhi(a) /\ ResolvedBy(a) # << >> THEN ResolvedBy(a)[1].val ELSE a.val

Relevant ==
    { a \in ToSet(blocks[target].alts) : a.src \in {ops[Here].block, bsrc} }

(* What is found out about a phi is kept by its index in the block, which   *)
(* is all a phi from elsewhere has in common with one that has it already.  *)
SameSlot(p, q) == ops[p].phiIndex = ops[q].phiIndex

(* Mutant of NoShuffle: blocks that choose between values are skipped too. *)
NoShuffleUnchecked == TRUE

(* bsrc is not there to choose between values ("for shuffle").             *)
NoShuffle ==
    \A a \in Relevant :
        /\ IsLocalPhi(a) => ResolvedBy(a) # << >>
        /\ \A s \in ToSet(blocks[target].alts) :
                a.phi = s.phi /\ s.src = at.b => s.val = Resolved(a)
        /\ \A s \in Relevant :
                IsPhiOp(a.phi) /\ IsPhiOp(s.phi) /\ SameSlot(a.phi, s.phi)
                    => Resolved(s) = Resolved(a)

CanThread == JumpsOn /\ PhisHandedOn /\ NoShuffle

(* target learns what its phis are coming from at.b.                       *)
Patch(alts, a) ==
    IF a.src # bsrc \/ \E s \in ToSet(alts) : s.phi = a.phi /\ s.src = at.b
    THEN alts ELSE Append(alts, Alt(a.phi, at.b, Resolved(a)))

PatchedAlts ==
    LET alts == blocks[target].alts
        patched[n \in 0..Len(alts)] ==
            IF n = 0 THEN alts ELSE Patch(patched[n - 1], alts[n])
    IN  patched[Len(alts)]

(* One turn of the while(true): the label skips bsrc.                      *)
thread ==
    /\ pc = "thread" /\ CanThread
    /\ blocks' = [blocks EXCEPT ![target].alts = PatchedAlts]
    /\ ops' = [ops EXCEPT ![Here].label[at.k] = target]
    /\ progress' = TRUE
    /\ UNCHANGED <<Unbuilt, pc, todo, live, nUse, tmp, at>>

(* The label stays: its block is live.  After the last label, a            *)
(* conditional jump that goes to one place only is no longer conditional.  *)
follow ==
    /\ pc = "thread" /\ ~CanThread
    /\ IF blocks[bsrc].live THEN UNCHANGED <<blocks, todo, live>>
       ELSE /\ blocks' = [blocks EXCEPT ![bsrc].live = TRUE]
            /\ todo' = Append(todo, bsrc)
            /\ live' = Append(live, bsrc)
    /\ IF at.k < Len(ops[Here].label)
       THEN at' = [at EXCEPT !.k = @ + 1] /\ UNCHANGED <<pc, ops, progress>>
       ELSE /\ pc' = "visit"
            /\ at' = [NextPlace EXCEPT !.deadTail = TRUE]
            /\ IF ops[Here].opcode \in CondJumps /\ ops[Here].label[1] = ops[Here].label[2]
               THEN /\ ops' = [ops EXCEPT ![Here].opcode = "jmp", ![Here].in = << >>,
                                          ![Here].label = <<@[1]>>]
                    /\ progress' = TRUE
               ELSE UNCHANGED <<ops, progress>>
    /\ UNCHANGED <<Unbuilt, nUse, tmp>>

-----------------------------------------------------------------------------
(* The later phases take the live blocks in order.                         *)

NextLive(phase) ==
    IF at.c < Len(live) THEN at' = NextPlace /\ UNCHANGED pc
    ELSE at' = NoPlace /\ pc' = phase

(* Mutant of OnlyValue: the first of several values is taken.              *)
OnlyValueFirst(alts, p) ==
    LET vals == SelectSeq(alts, LAMBDA a : SameSlot(a.phi, p) /\ a.val # a.phi)
    IN  IF vals = << >> THEN noVal ELSE vals[1].val

(* The value of a phi that has one, itself if it has several.              *)
OnlyValue(alts, p) ==
    LET vals == SelectSeq(alts, LAMBDA a : SameSlot(a.phi, p) /\ a.val # a.phi)
    IN  FoldLeft(LAMBDA v, a : IF v \in {noVal, a.val} THEN a.val ELSE a.phi, noVal, vals)

(* Drop alternatives of dead sources, find the phis that have one value,   *)
(* count the uses the others make.                                         *)
phiUses ==
    /\ pc = "uses"
    /\ \E b \in {live[at.c]} :
       \E alts \in {Keep(blocks[b].alts,
              { a \in ToSet(blocks[b].alts) :
                    ops[a.phi].opcode # "nop" /\ blocks[a.src].live })} :
       \E value \in {[v \in DOMAIN tmp |->
                        IF ops[v].opcode = "phi" /\ ops[v].block = b THEN OnlyValue(alts, v)
                        ELSE tmp[v]]} :
          /\ blocks' = [blocks EXCEPT ![b].alts = alts]
          /\ tmp' = value
          /\ nUse' = [v \in DOMAIN nUse |-> nUse[v] + Cardinality(
                { n \in 1..Len(alts) : alts[n].val = v
                                       /\ value[alts[n].phi] = alts[n].phi })]
    /\ NextLive("rename")
    /\ UNCHANGED <<Unbuilt, ops, todo, live, progress>>

Renamed(v) == IF ops[v].opcode = "phi" THEN tmp[v] ELSE v

(* Use the only value of a phi in its place.                               *)
rename ==
    /\ pc = "rename"
    /\ LET b == live[at.c]
           alts == blocks[b].alts
           inputs == { x \in (ToSet(blocks[b].code) \ {noVal}) \X (1..2) :
                            x[2] <= nInputs(ops[x[1]].opcode) }
           olds == { x \in inputs : Renamed(ops[x[1]].in[x[2]]) # ops[x[1]].in[x[2]] }
           oldAlts == { n \in 1..Len(alts) : Renamed(alts[n].val) # alts[n].val }
           becomes(v) ==
              Cardinality({ x \in olds : Renamed(ops[x[1]].in[x[2]]) = v })
              + Cardinality({ n \in oldAlts : Renamed(alts[n].val) = v })
       IN  /\ ops' = [c \in 1..Len(ops) |->
                IF c \notin ToSet(blocks[b].code) THEN ops[c]
                ELSE [ops[c] EXCEPT !.in = [k \in DOMAIN @ |-> Renamed(@[k])]]]
           /\ blocks' = [blocks EXCEPT ![b].alts =
                [n \in 1..Len(alts) |-> [alts[n] EXCEPT !.val = Renamed(@)]]]
           /\ nUse' = [v \in DOMAIN nUse |-> nUse[v] + becomes(v)]
           /\ progress' = (progress \/ olds # {} \/ oldAlts # {})
    /\ NextLive("sweep")
    /\ UNCHANGED <<Unbuilt, todo, live, tmp>>

(* Mutant of Removable: an operation with one user goes as well.           *)
RemovableOnce(o, uses) ==
    /\ o.opcode # "nop"
    /\ hasSideFX(o.opcode) => unsafeOpt /\ canCSE(o.opcode)
    /\ uses <= 1

Removable(o, uses) ==
    /\ o.opcode # "nop"
    /\ hasSideFX(o.opcode) => unsafeOpt /\ canCSE(o.opcode)
    /\ uses = 0

(* Operation c goes if it can, and is no longer a user of its inputs.      *)
Kill(c, s) ==
    IF c = noVal \/ ~Removable(s.ops[c], s.nUse[c]) THEN s
    ELSE [ops |-> [s.ops EXCEPT ![c] = makeNOP(@)],
          nUse |-> [v \in DOMAIN s.nUse |-> s.nUse[v] - InputUses(s.ops[c], v)]]

Swept(code) ==
    LET after[n \in 0..Len(code)] ==
            IF n = 0 THEN [ops |-> ops, nUse |-> nUse]
            ELSE Kill(code[Len(code) + 1 - n], after[n - 1])
    IN  after[Len(code)]

(* Backwards through a block, remove what is not used, then close up.      *)
sweep ==
    /\ pc = "sweep"
    /\ \E code \in {blocks[live[at.c]].code} :
       \E swept \in {Swept(code)} :
       \E kept \in {Keep(code, { c \in ToSet(code) :
                      /\ c # noVal /\ swept.ops[c].opcode # "nop"
                      /\ hasSideFX(swept.ops[c].opcode) \/ swept.nUse[c] # 0 })} :
          /\ ops' = swept.ops
          /\ nUse' = swept.nUse
          /\ blocks' = [blocks EXCEPT ![live[at.c]].code = kept]
          /\ progress' = (progress \/ kept # code)
    /\ NextLive("round")
    /\ UNCHANGED <<Unbuilt, todo, live, tmp>>

Dce ==
    \/ compile \/ beginRound \/ endDce \/ popBlock \/ visit \/ thread \/ follow
    \/ phiUses \/ rename \/ sweep

Terminated == pc = "done" /\ UNCHANGED vars

Next == FrontEnd \/ Dce \/ Terminated

Spec == Init /\ [][Next]_vars

(* The compiler is a sequential program: it goes on while it can.          *)
FairSpec == Spec /\ WF_vars(FrontEnd \/ Dce)
-----------------------------------------------------------------------------
(* Properties.                                                             *)

CONSTANTS Args,         \* the arguments to run the procedures with
          Fuel          \* and for how many blocks

(* Eliminating dead code does not change what the procedure does, for any  *)
(* argument: neither what it returns, nor the calls it makes and the       *)
(* memory they see.  With unsafeOpt a division by zero may not trap.       *)
SameMeaning ==
    pc = "done" => \A a \in Args :
        LET was == Outcome(built.ops, built.blocks, a, Fuel)
        IN  was.status \notin {"running", "undefined"}
                /\ (unsafeOpt => was.status # "trapped")
            => Outcome(ops, blocks, a, Fuel) = was

(* Use counts are exact when the pass is done: fold and the register       *)
(* allocator decide by them whether a value dies with its user.            *)
Uses(v) ==
    Cardinality({ u \in ToSet(live) \X (1..Len(ops)) \X (1..2) :
                    /\ u[2] \in ToSet(blocks[u[1]].code)
                    /\ u[3] <= Len(ops[u[2]].in) /\ ops[u[2]].in[u[3]] = v })
    + Cardinality({ u \in UNION { {b} \X (1..Len(blocks[b].alts)) : b \in ToSet(live) } :
                    blocks[u[1]].alts[u[2]].val = v })

UseCountsExact ==
    pc = "done" => \A b \in ToSet(live) : \A v \in ToSet(blocks[b].code) :
        hasOutput(ops[v].opcode) => nUse[v] = Uses(v)

(* The checks of Proc::sanity, which "should always check out after each   *)
(* DCE pass": a value is computed on every path to its use.                *)
Position(v) == CHOOSE c \in 1..Len(blocks[ops[v].block].code) :
                    blocks[ops[v].block].code[c] = v

DefsDominate ==
    \A b \in ToSet(live) :
        /\ \A c \in 1..Len(blocks[b].code) :
             /\ ops[blocks[b].code[c]].block = b
             /\ \A v \in ToSet(ops[blocks[b].code[c]].in) :
                    /\ v \in ToSet(blocks[ops[v].block].code)
                    /\ Dominates(ops, blocks, ops[v].block, b)
                    /\ ops[v].block = b => Position(v) < c

DefsDominateUses == pc = "done" => DefsDominate

(* The predecessors of a block, and the alternatives rebuild_cfg keeps.    *)
comeFrom(b) == { s \in ToSet(live) : b \in Targets(ops, blocks, s) }
Alts(b, p) == SelectSeq(blocks[b].alts, LAMBDA a : a.phi = p /\ a.src \in comeFrom(b))
Phis(b) == { p \in ToSet(blocks[b].code) : ops[p].opcode = "phi" }

(* A phi has a value on every edge into its block, one that is available   *)
(* at the end of the edge's source.                                        *)
PhisCovered ==
    \A b \in ToSet(live) : \A p \in Phis(b) :
        \A s \in comeFrom(b) : \E a \in ToSet(Alts(b, p)) :
            a.src = s /\ Dominates(ops, blocks, ops[a.val].block, s)

(* After the pass that is so, and a phi has one value only for an edge,    *)
(* however many jumps have been sent around other blocks to make it.       *)
PhisCoverEdges ==
    pc = "done" =>
        /\ PhisCovered
        /\ \A b \in ToSet(live) : \A p \in Phis(b) :
              Len(Alts(b, p)) = Cardinality(comeFrom(b))

(* "The compiler should never fail with valid data": the pass ends.        *)
DceTerminates == <>(pc = "done")
=============================================================================
