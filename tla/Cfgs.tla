-------------------------------- MODULE Cfgs --------------------------------
(***************************************************************************)
(* Control flow graphs for the runs: every graph, up to the names of its   *)
(* blocks, that rebuild_cfg finds in full.  Blocks are numbered in the     *)
(* order the walk finds them; a front-end has no label for the entry, so   *)
(* no block jumps to 1.                                                    *)
(***************************************************************************)
EXTENDS Naturals, Sequences

Least(x, y) == IF x < y THEN x ELSE y

(* The labels a block may end with when blocks 1..found are known and a    *)
(* graph has at most n.                                                    *)
JumpsTo(found, n) ==
    { <<b>> : b \in 2..Least(found + 1, n) }
BranchesTo(found, n) ==
    UNION { { <<a, b>> : b \in 2..Least(IF a > found THEN a + 1 ELSE found + 1, n) }
            : a \in 2..Least(found + 1, n) }

(* The walk of a graph that is not complete: label, the stack of blocks to *)
(* visit, the number found and of conditional jumps.                       *)
Start(n) ==
    [label |-> [b \in 1..n |-> << >>], todo |-> <<1>>, found |-> 1, branches |-> 0]

Visit(g, jump) ==
    LET new == SelectSeq(IF Len(jump) = 2 /\ jump[1] = jump[2] THEN <<jump[1]>> ELSE jump,
                         LAMBDA b : b > g.found)
    IN  [label |-> [g.label EXCEPT ![g.todo[Len(g.todo)]] = jump],
         todo |-> SubSeq(g.todo, 1, Len(g.todo) - 1) \o new,
         found |-> g.found + Len(new),
         branches |-> g.branches + (IF Len(jump) = 2 THEN 1 ELSE 0)]

(* All graphs of at most n blocks and at most k conditional jumps.         *)
Cfgs(n, k) ==
    LET Visited(g) ==
            IF g.todo = << >> THEN {g}
            ELSE { Visit(g, jump) : jump \in
                    {<< >>} \cup JumpsTo(g.found, n)
                    \cup (IF g.branches < k THEN BranchesTo(g.found, n) ELSE {}) }
        walks[i \in 0..n] ==
            IF i = 0 THEN {Start(n)} ELSE UNION { Visited(g) : g \in walks[i - 1] }
    IN  { g.label : g \in walks[n] }
=============================================================================
