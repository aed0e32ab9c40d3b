----------------------------- MODULE Dominators -----------------------------
(***************************************************************************)
(* The control flow graph and its dominators: Proc::rebuild_cfg and        *)
(* Proc::rebuild_dom (src/src/opt-dom.cpp).  Post-dominators are computed  *)
(* first, then dominators, both by sweeping the live blocks until no set   *)
(* has changed its size, in the same Block::dom.                           *)
(*                                                                         *)
(* A block is a number, 1 the entry; "label" gives the blocks it jumps to: *)
(* none for a block that ends in an exit, two for a conditional jump.      *)
(***************************************************************************)
EXTENDS Integers, Sequences, FiniteSets

CONSTANTS Blocks,       \* the blocks, live or not
          Graphs        \* the control flow graphs to consider

ASSUME BlocksAssumption == IsFiniteSet(Blocks) /\ Blocks \subseteq Nat \ {0} /\ 1 \in Blocks

ASSUME GraphsAssumption ==
    \A g \in Graphs : /\ g \in [Blocks -> Seq(Blocks)]
                      /\ \A b \in Blocks : Len(g[b]) <= 2

noVal == 0

VARIABLES label,        \* the labels of the jump that ends each block
          pc,           \* the phase
          todo, live,   \* blocks to walk, blocks found, in order
          comeFrom,     \* the sources of the edges into each block
          dom,          \* Block::dom: post-dominators, then dominators
          pdom, idom,   \* the immediate ones
          iterate,      \* has this sweep changed anything?
          at            \* the position in live of the sweep

vars == <<label, pc, todo, live, comeFrom, dom, pdom, idom, iterate, at>>

Live == { live[n] : n \in DOMAIN live }
Targets(b) == { label[b][k] : k \in DOMAIN label[b] }
IsExit(b) == label[b] = << >>

Init ==
    /\ label \in Graphs
    /\ pc = "cfg"
    /\ todo = <<1>> /\ live = <<1>>
    /\ comeFrom = [b \in Blocks |-> {}]
    /\ dom = [b \in Blocks |-> {}]
    /\ pdom = [b \in Blocks |-> noVal]
    /\ idom = [b \in Blocks |-> noVal]
    /\ iterate = FALSE
    /\ at = 0

-----------------------------------------------------------------------------
(* rebuild_cfg.                                                            *)

(* The labels of b that were not live, each once, in order.                *)
NewLabels(b) ==
    LET new == { k \in DOMAIN label[b] : /\ label[b][k] \notin Live
                                         /\ k = 2 => label[b][1] # label[b][2] }
    IN  IF new = {} THEN << >>
        ELSE IF new = {1, 2} THEN label[b]
        ELSE <<label[b][CHOOSE k \in new : TRUE]>>

walk ==
    /\ pc = "cfg" /\ todo # << >>
    /\ LET new == NewLabels(todo[Len(todo)])
       IN  /\ todo' = SubSeq(todo, 1, Len(todo) - 1) \o new
           /\ live' = live \o new
    /\ UNCHANGED <<label, pc, comeFrom, dom, pdom, idom, iterate, at>>

(* comeFrom is rebuilt, and every set is set to all live blocks except     *)
(* that only itself post-dominates an exit.                                *)
beginPdom ==
    /\ pc = "cfg" /\ todo = << >>
    /\ comeFrom' = [b \in Blocks |-> { s \in Live : b \in Targets(s) }]
    /\ dom' = [b \in Blocks |->
                IF b \notin Live THEN dom[b] ELSE IF IsExit(b) THEN {b} ELSE Live]
    /\ pc' = "pdom" /\ iterate' = FALSE /\ at' = Len(live)
    /\ UNCHANGED <<label, todo, live, pdom, idom>>

-----------------------------------------------------------------------------
(* The sweeps.                                                             *)

(* The blocks in every one of the sets of S.                               *)
Common(S) == { x \in Live : \A s \in S : x \in dom[s] }

(* Replace the set of b; only its size tells whether it has changed.       *)
Update(b, new) ==
    /\ dom' = [dom EXCEPT ![b] = new]
    /\ iterate' = (iterate \/ Cardinality(new) # Cardinality(dom[b]))

(* Post-dominators: backwards, from the targets.                           *)
pdomStep ==
    /\ pc = "pdom" /\ at > 0
    /\ LET b == live[at]
       IN  IF IsExit(b) THEN UNCHANGED <<dom, iterate>>
           ELSE Update(b, Common(Targets(b)) \cup {b})
    /\ at' = at - 1
    /\ UNCHANGED <<label, pc, todo, live, comeFrom, pdom, idom>>

pdomAgain ==
    /\ pc = "pdom" /\ at = 0 /\ iterate
    /\ iterate' = FALSE /\ at' = Len(live)
    /\ UNCHANGED <<label, pc, todo, live, comeFrom, dom, pdom, idom>>

(* Mutant of OneLess: any number less will do.                             *)
OneLessOrMore(b) == { d \in dom[b] : Cardinality(dom[d]) < Cardinality(dom[b]) }

(* The immediate one has exactly one less.                                 *)
OneLess(b) == { d \in dom[b] : Cardinality(dom[d]) = Cardinality(dom[b]) - 1 }

(* Mutant of Immediate: the block itself is taken.                         *)
ImmediateSelf(b, none) == IF OneLess(b) = {} THEN none ELSE b

Immediate(b, none) ==
    IF OneLess(b) = {} THEN none ELSE CHOOSE d \in OneLess(b) : TRUE

(* Mutant of beginDom: every set starts small.                             *)
beginDomSmall ==
    /\ pc = "pdom" /\ at = 0 /\ ~iterate
    /\ pdom' = [b \in Blocks |-> IF b \in Live THEN Immediate(b, noVal) ELSE pdom[b]]
    /\ dom' = [b \in Blocks |-> IF b \notin Live THEN dom[b] ELSE {b}]
    /\ pc' = "dom" /\ at' = 1
    /\ UNCHANGED <<label, todo, live, comeFrom, idom, iterate>>

(* Keep the immediate post-dominators and start again for dominators.      *)
beginDom ==
    /\ pc = "pdom" /\ at = 0 /\ ~iterate
    /\ pdom' = [b \in Blocks |-> IF b \in Live THEN Immediate(b, noVal) ELSE pdom[b]]
    /\ dom' = [b \in Blocks |->
                IF b \notin Live THEN dom[b] ELSE IF b = 1 THEN {1} ELSE Live]
    /\ pc' = "dom" /\ at' = 1
    /\ UNCHANGED <<label, todo, live, comeFrom, idom, iterate>>

(* Mutant of domStep: a sweep that changes a set is the last one.          *)
domStepOnce ==
    /\ pc = "dom" /\ at <= Len(live)
    /\ LET b == live[at]
       IN  IF b = 1 THEN UNCHANGED dom
           ELSE dom' = [dom EXCEPT ![b] = Common(comeFrom[b]) \cup {b}]
    /\ at' = at + 1
    /\ UNCHANGED <<label, pc, todo, live, comeFrom, pdom, idom, iterate>>

(* Mutant of domStep: the set of a single source is added, not intersected.*)
domStepUnion ==
    /\ pc = "dom" /\ at <= Len(live)
    /\ LET b == live[at]
       IN  IF b = 1 THEN UNCHANGED <<dom, iterate>>
           ELSE Update(b, dom[b] \cup {b} \cup UNION { dom[s] : s \in comeFrom[b] })
    /\ at' = at + 1
    /\ UNCHANGED <<label, pc, todo, live, comeFrom, pdom, idom>>

(* Dominators: forwards, from the sources.                                 *)
domStep ==
    /\ pc = "dom" /\ at <= Len(live)
    /\ LET b == live[at]
       IN  IF b = 1 THEN UNCHANGED <<dom, iterate>>
           ELSE Update(b, Common(comeFrom[b]) \cup {b})
    /\ at' = at + 1
    /\ UNCHANGED <<label, pc, todo, live, comeFrom, pdom, idom>>

domAgain ==
    /\ pc = "dom" /\ at > Len(live) /\ iterate
    /\ iterate' = FALSE /\ at' = 1
    /\ UNCHANGED <<label, pc, todo, live, comeFrom, dom, pdom, idom>>

endDom ==
    /\ pc = "dom" /\ at > Len(live) /\ ~iterate
    /\ idom' = [b \in Blocks |-> IF b \in Live THEN Immediate(b, 1) ELSE idom[b]]
    /\ pc' = "done"
    /\ UNCHANGED <<label, todo, live, comeFrom, dom, pdom, iterate, at>>

Terminated == pc = "done" /\ UNCHANGED vars

Step == walk \/ beginPdom \/ pdomStep \/ pdomAgain \/ beginDom \/ domStep
            \/ domAgain \/ endDom

Next == Step \/ Terminated

Spec == Init /\ [][Next]_vars

-----------------------------------------------------------------------------
(* Reference definitions, by paths.                                        *)

(* The blocks on a path from "from" that does not meet "avoid".            *)
Reach(from, avoid) ==
    LET found[n \in 0..Cardinality(Blocks)] ==
            IF n = 0 THEN {from} \ avoid
            ELSE LET r == found[n - 1]
                 IN  r \cup ((UNION { Targets(b) : b \in r }) \ avoid)
    IN  found[Cardinality(Blocks)]

(* Block d is on every path from the entry to b.                           *)
Dominates(d, b) == b \notin Reach(1, {d})
TrueDom(b) == { d \in Reach(1, {}) : Dominates(d, b) }

(* Block d is on every path from b to an exit.                             *)
CanExit(b) == \E e \in Reach(b, {}) : IsExit(e)
PostDominates(d, b) == \A e \in Reach(b, {d}) : ~IsExit(e)
TruePdom(b) == { d \in Reach(1, {}) : PostDominates(d, b) }

-----------------------------------------------------------------------------
(* Properties.                                                             *)

TypeOK ==
    /\ label \in [Blocks -> Seq(Blocks)]
    /\ pc \in {"cfg", "pdom", "dom", "done"}
    /\ todo \in Seq(Blocks) /\ live \in Seq(Blocks)
    /\ comeFrom \in [Blocks -> SUBSET Blocks]
    /\ dom \in [Blocks -> SUBSET Blocks]
    /\ pdom \in [Blocks -> Blocks \cup {noVal}]
    /\ idom \in [Blocks -> Blocks \cup {noVal}]
    /\ iterate \in BOOLEAN
    /\ at \in 0..(Len(live) + 1)

(* Sets only shrink, so that comparing sizes is enough to see a change.    *)
SweepShrinks ==
    [][pc' = pc => \A b \in Blocks : dom'[b] \subseteq dom[b]]_vars

(* In the end nothing is left to do: the sets solve the equations of       *)
(* dominance, the set of a block is itself and what its sources share.     *)
DomSolved ==
    pc = "done" => /\ dom[1] = {1}
                   /\ \A b \in Live \ {1} : dom[b] = Common(comeFrom[b]) \cup {b}

(* In the end they are the dominators.                                     *)
DomCorrect == pc = "done" => \A b \in Live : dom[b] = TrueDom(b)

(* idom is the closest strict dominator: following it visits exactly the   *)
(* dominators, which is how Block::dom gets its order, "for CCD in CSE".   *)
IdomOrdersDom ==
    pc = "done" => \A b \in Live \ {1} :
        idom[b] \in dom[b] \ {b} /\ dom[b] = {b} \cup dom[idom[b]]

(* Where an exit can be reached, pdom is the closest strict post-dominator,*)
(* noVal when the exits themselves differ.                                 *)
PdomCorrect ==
    pc \in {"dom", "done"} => \A b \in Live : CanExit(b) =>
        LET strict == TruePdom(b) \ {b}
        IN  IF strict = {} THEN pdom[b] = noVal
            ELSE pdom[b] \in strict /\ strict \subseteq TruePdom(pdom[b])

=============================================================================
