---------------------------- MODULE MCCodeModule ----------------------------
(* Constants of CodeModuleRefinement for TLC.                              *)
EXTENDS CodeModuleRefinement

CONSTANTS a1, a2, block

(* A procedure without calls, one that may call itself or the first, and   *)
(* one with two calls, of which one may refer forward.                     *)
MCPrograms == { << >>, <<1>>, <<2, 1>> }
MCAddresses == {a1, a2}
MCBlocks == {block}
(* 0: the block is exactly as large as the code, so that code compiled     *)
(* later never fits; 30: there is room for more.                           *)
MCMinSizes == {0, 30}
MCErrors == {"mmap", "mprotect"}
MCNoErrors == {}
=============================================================================
