-------------------------------- MODULE Sink --------------------------------
(***************************************************************************)
(* Sinking, Proc::opt_sink (src/src/opt-sink.cpp), the last pass of opt(): *)
(* a value that only one branch needs is computed in that branch.  Edges   *)
(* into blocks that merge paths are broken, so that nothing is sunk into a *)
(* loop.  A step is one block.                                             *)
(***************************************************************************)
EXTENDS Cse

VARIABLE unsunk         \* the procedure before this pass (history)

optVars == <<cseVars, unsunk>>

OptInit == CseInit /\ unsunk = [ops |-> << >>, blocks |-> << >>]

beginSink ==
    /\ pc = "done" /\ stage = "clean" /\ ~scan.progress /\ ~repeat
    /\ rebuild_cfg
    /\ stage' = "sink"
    /\ unsunk' = [ops |-> ops, blocks |-> blocks]
    /\ UNCHANGED <<idom, pdom, scan, level, cse, repeat>>

(* "livescan doesn't find phi-inputs, we need them here".                  *)
addPhiInputs ==
    /\ pc = "livein" /\ at.c = 0 /\ ~progress /\ stage = "sink"
    /\ pc' = "sink"
    /\ at' = NoPlace
    /\ livein' = [b \in DOMAIN livein |->
                    IF b \in ToSet(live)
                    THEN livein[b] \cup { a.val : a \in ToSet(blocks[b].alts) }
                    ELSE livein[b]]
    /\ scan' = [scan EXCEPT !.upTo = Len(live)]
    /\ UNCHANGED <<Unbuilt, ops, blocks, todo, live, nUse, tmp, progress,
                   idom, pdom, stage, level, cse, repeat, unsunk>>

-----------------------------------------------------------------------------
(* One operation v of block b, with s the procedure, uses the counts and   *)
(* moved[k] what goes to label k, last first.                              *)

Labels(s, b) == s.ops[Terminator(s, b)].label
LabelsLive(s, b, v) == { k \in 1..Len(Labels(s, b)) : v \in s.livein[Labels(s, b)[k]] }

Eligible(t, v) ==
    /\ ~t.stop
    /\ t.uses[v] = 0
    /\ canCSE(t.s.ops[v].opcode)
    /\ level \/ ~hasSideFX(t.s.ops[v].opcode)

(* Mutant of SinkOp: the block may merge paths.                            *)
SinkOpIntoMerge(b, v, t) ==
    IF ~Eligible(t, v) \/ Cardinality(LabelsLive(t.s, b, v)) # 1 THEN t
    ELSE [t EXCEPT !.moved[CHOOSE x \in LabelsLive(t.s, b, v) : TRUE] = Append(@, v)]

(* The last use of an input in b may go with the operation: the input is   *)
(* then live where that went.                                              *)
SinkOp(b, v, t) ==
    LET k == CHOOSE x \in LabelsLive(t.s, b, v) : TRUE
        merges == Cardinality(Preds(t.s, Labels(t.s, b)[k])) > 1
        s == IF merges THEN breakEdge(t.s, b, Labels(t.s, b)[k]) ELSE t.s
        uses == [w \in DOMAIN t.uses |->
                    IF s.ops[w].block = b THEN t.uses[w] - InputUses(s.ops[v], w)
                    ELSE t.uses[w]]
        freed == { w \in ToSet(s.ops[v].in) : s.ops[w].block = b /\ uses[w] = 0 }
    IN  IF ~Eligible(t, v) \/ Cardinality(LabelsLive(t.s, b, v)) # 1 THEN t
        ELSE IF merges /\ s.ops[Terminator(s, b)].opcode = "jmp"
        THEN [t EXCEPT !.stop = TRUE]
        ELSE [t EXCEPT
                !.s = [s EXCEPT !.livein[Labels(s, b)[k]] = @ \cup freed],
                !.uses = uses,
                !.moved[k] = Append(@, v)]

(* The operations that leave b go to the start of block x, behind what has *)
(* to stay there, and are not hoisted again.                               *)
Insert(s, b, moved, x) ==
    LET code == s.blocks[x].code
        first == CHOOSE c \in 1..Len(code) :
                    /\ canMove(s.ops[code[c]].opcode)
                    /\ \A d \in 1..(c - 1) : ~canMove(s.ops[code[d]].opcode)
    IN  IF moved = << >> THEN s
        ELSE [s EXCEPT
                !.ops = [i \in DOMAIN @ |->
                          IF i \in ToSet(moved)
                          THEN [@[i] EXCEPT !.block = x, !.noOpt = TRUE] ELSE @[i]],
                !.blocks = [y \in DOMAIN @ |-> [@[y] EXCEPT !.code =
                    CASE y = b -> SelectSeq(@, LAMBDA i : i \notin ToSet(moved))
                      [] y = x -> SubSeq(@, 1, first - 1) \o Reverse(moved)
                                    \o SubSeq(@, first, Len(@))
                      [] OTHER -> @]]]

(* Block b: local uses are counted, operations taken from the last to the  *)
(* first.  The places of those that leave, noVal in the code, are closed.  *)
Sunk(s, uses, b) ==
    LET t == FoldRight(LAMBDA v, u : SinkOp(b, v, u), s.blocks[b].code,
                       [s |-> s, uses |-> uses, moved |-> << << >>, << >> >>,
                        stop |-> FALSE])
        Into(r, k) == IF k > Len(Labels(r, b)) THEN r
                      ELSE Insert(r, b, t.moved[k], Labels(r, b)[k])
    IN  [s |-> Into(Into(t.s, 1), 2), uses |-> t.uses]

LocalUses(b) ==
    [v \in DOMAIN nUse |->
        nUse[v] + FoldLeft(LAMBDA n, c : n + InputUses(ops[c], v), 0, blocks[b].code)]

(* An exit block keeps what it has, and so does one that jumps to a block  *)
(* it does not dominate.                                                   *)
CanSink(b) ==
    LET jump == ops[Terminator(Proc, b)]
    IN  /\ jump.opcode \in Jumps
        /\ jump.opcode = "jmp" => idom[jump.label[1]] = b

sinkBlock ==
    /\ pc = "sink" /\ at.c <= scan.upTo
    /\ \E b \in {live[at.c]} :
       \E t \in {IF CanSink(b) THEN Sunk(Proc, LocalUses(b), b)
                 ELSE [s |-> Proc, uses |-> LocalUses(b)]} :
          Becomes(t.s) /\ nUse' = t.uses
    /\ at' = NextPlace
    /\ UNCHANGED <<Unbuilt, pc, todo, tmp, progress, stage, scan, level, cse, repeat, unsunk>>

endSink ==
    /\ pc = "sink" /\ at.c > scan.upTo
    /\ pc' = "sunk"
    /\ UNCHANGED <<Unbuilt, ops, blocks, todo, live, nUse, tmp, progress, at,
                   NotLoop, cse, repeat, unsunk>>

OptStep ==
    \/ OptLoop /\ UNCHANGED unsunk
    \/ beginSink \/ addPhiInputs \/ sinkBlock \/ endSink

(* opt() ends here, or with an internal_error.                             *)
OptEnds == pc \in {"sunk", "asserted"}
OptTerminated == OptEnds /\ UNCHANGED optVars

(* The compiler is a sequential program: it goes on until it is done.  This*)
(* is WF_optVars(OptStep), with ~OptEnds for ENABLED OptStep: they are  *)
(* the same as long as there is no deadlock, which the run checks.         *)
Fairness == []<>OptEnds \/ []<><<OptStep>>_optVars

OptSpec == OptInit /\ [][OptStep \/ OptTerminated]_optVars /\ Fairness
-----------------------------------------------------------------------------
(* Properties.                                                             *)

(* After every round of opt_jump and after sinking the procedure does what *)
(* the front-end asked for, for any argument.  At level 2 a division by    *)
(* zero may go unnoticed.  The passes add blocks, hence the longer run.    *)
OptSameMeaning ==
    pc \in {"done", "sunk"} => \A a \in Args :
        LET was == Outcome(built.ops, built.blocks, a, Fuel)
        IN  was.status \notin {"running", "undefined"}
                /\ (level => was.status # "trapped")
            => Outcome(ops, blocks, a, 2 * Fuel) = was

(* The checks of Proc::sanity hold then, too: a value is computed on every *)
(* path to its use, and a phi has one for every edge into its block.  What *)
(* they say of uses holds whenever live values are found.                  *)
OptSane ==
    /\ pc \in {"done", "sunk"} => DefsDominate /\ PhisCovered
    /\ LiveinReady

(* Sinking saves work on some paths and adds none on any: "this prevents   *)
(* us from sinking loop invariants back into the loop, which would be      *)
(* silly" (opt-sink.cpp).                                                  *)
NoMoreWork ==
    pc = "sunk" => \A a \in Args :
        LET was == Run(unsunk.ops, unsunk.blocks, a, Fuel)
        IN  was.status \in {"returned", "tail call"}
            => Run(ops, blocks, a, 2 * Fuel).work <= was.work

(* "The compiler should never fail with valid data" (README.md): no check   *)
(* of its own fails.                                                       *)
NotRefused == pc # "asserted"

(* opt() comes to an end, well or refusing the procedure: no loop is       *)
(* inverted, merged and inverted again, and what is hoisted stays there.   *)
OptTerminates == <>OptEnds
=============================================================================
