---------------------------- MODULE MCHashTable -----------------------------
(* Constants of HashTable for TLC.                                         *)
EXTENDS HashTable, TLC

CONSTANTS k1, k2, k3, k4, v1, v2

MCKeys == {k1, k2, k3, k4}
MCValues == {v1}
MCTwoValues == {v1, v2}
(* k1 and k2 collide in every probe; k3 starts where they do but steps     *)
(* differently; k4 runs across them.  Half of the upper halves are even.   *)
MCHashLow == k1 :> 1 @@ k2 :> 1 @@ k3 :> 1 @@ k4 :> 6
MCHashHigh == k1 :> 2 @@ k2 :> 2 @@ k3 :> 5 @@ k4 :> 3
MCFitSizes == {5, 8}
=============================================================================
