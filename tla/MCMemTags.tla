------------------------------ MODULE MCMemTags ------------------------------
(***************************************************************************)
(* Every control flow graph of up to four blocks, and those of five with   *)
(* two conditional jumps, one exit and one edge against the order.  Four   *)
(* have nested and crossing loops, merges of merges and loops without an   *)
(* exit.  Five are needed for an edge back to a block that the sweep has   *)
(* got wrong (1 -> 2 3, 3 -> 4, 2 -> 5, 5 -> 4), which takes another one.  *)
(***************************************************************************)
EXTENDS MemTags, Cfgs

MCBlocks == 1..5

Edges(g) == UNION { { <<b, g[b][k]>> : k \in DOMAIN g[b] } : b \in MCBlocks }

MCGraphs ==
    { [b \in MCBlocks |-> IF b = 5 THEN << >> ELSE g[b]] : g \in Cfgs(4, 4) }
    \cup { g \in Cfgs(5, 2) : /\ \E e \in Edges(g) : e[2] = 5
                              /\ Cardinality({ e \in Edges(g) : e[1] >= e[2] }) = 1
                              /\ Cardinality({ b \in MCBlocks : g[b] = << >> }) = 1 }
=============================================================================
