------------------------------- MODULE MemTags -------------------------------
(***************************************************************************)
(* Memory tags: Proc::rebuild_memtags (src/src/opt-cse.cpp), which tells   *)
(* CSE and the register allocator what two loads of an address may be      *)
(* taken for one.  A tag is the operation that made the version of memory  *)
(* a load sees: one with a side effect, or the end of the block where      *)
(* versions met.  The pass follows rebuild_dom, as at the start of opt_cse:*)
(* it works on the blocks and edges found there, and what its tags are for *)
(* is said in terms of dominators.                                         *)
(*                                                                         *)
(* A block either has side effects or none: what matters of the loads of a *)
(* block is whether they come before all of them, and have the tag of the  *)
(* block, or after one.  The entry has one, alloc.                         *)
(***************************************************************************)
EXTENDS Dominators

(* A front-end has no label for the entry, and no pass makes a jump to it. *)
ASSUME EntryAssumption ==
    \A g \in Graphs : \A b \in Blocks : \A k \in DOMAIN g[b] : g[b][k] # 1

VARIABLES effects,          \* the blocks with side effects
          memtag, memout    \* the tags into and out of each block

tagVars == <<vars, effects, memtag, memout>>

(* Operations: the last side effect of block b, and the jump at its end.   *)
Effect(b) == 2 * b
Last(b) == 2 * b + 1

TagsInit ==
    /\ Init
    /\ effects = {}
    /\ memtag = [b \in Blocks |-> noVal]
    /\ memout = [b \in Blocks |-> noVal]

-----------------------------------------------------------------------------
rebuildDom == Step /\ UNCHANGED <<effects, memtag, memout>>

(* Every block, whatever side effects it has, starts without a tag, and    *)
(* passes on that of its last side effect.                                 *)
beginTags ==
    /\ pc = "done"
    /\ effects' \in { S \in SUBSET Live : 1 \in S }
    /\ memtag' = [b \in Blocks |-> noVal]
    /\ memout' = [b \in Blocks |-> IF b \in effects' THEN Effect(b) ELSE noVal]
    /\ pc' = "tags" /\ iterate' = FALSE /\ at' = 1
    /\ UNCHANGED <<label, todo, live, comeFrom, dom, pdom, idom>>

(* The tags that reach a block.                                            *)
Incoming(b) == { memout[f] : f \in comeFrom[b] } \ {noVal}

(* Mutant of Merged: the first tag wins.                                   *)
MergedFirst(b) == IF Incoming(b) = {} THEN noVal ELSE CHOOSE t \in Incoming(b) : TRUE

(* Mutant of Merged: one tag for all versions that met somewhere.          *)
MergedShared(b) ==
    IF Incoming(b) = {} THEN noVal
    ELSE IF \A t, u \in Incoming(b) : t = u THEN CHOOSE t \in Incoming(b) : TRUE
    ELSE Last(1)

(* The tag of a block: where tags differ it is one of its own.             *)
Merged(b) ==
    IF Incoming(b) = {} THEN noVal
    ELSE IF \A t, u \in Incoming(b) : t = u THEN CHOOSE t \in Incoming(b) : TRUE
    ELSE Last(b)

(* Mutant of tagStep: the tag out is compared to see a change.             *)
tagStepOut ==
    /\ pc = "tags" /\ at <= Len(live)
    /\ LET b == live[at]
       IN  /\ memtag' = [memtag EXCEPT ![b] = Merged(b)]
           /\ memout' = [memout EXCEPT ![b] = IF memtag[b] = @ THEN Merged(b) ELSE @]
           /\ iterate' = (iterate \/ memout[b] # Merged(b))
    /\ at' = at + 1
    /\ UNCHANGED <<label, pc, todo, live, comeFrom, dom, pdom, idom, effects>>

(* One block of a round.  That a block is "pass-thru" is seen by its tags: *)
(* what goes out is what came in.                                          *)
tagStep ==
    /\ pc = "tags" /\ at <= Len(live)
    /\ LET b == live[at]
       IN  /\ memtag' = [memtag EXCEPT ![b] = Merged(b)]
           /\ memout' = [memout EXCEPT ![b] = IF memtag[b] = @ THEN Merged(b) ELSE @]
           /\ iterate' = (iterate \/ memtag[b] # Merged(b))
    /\ at' = at + 1
    /\ UNCHANGED <<label, pc, todo, live, comeFrom, dom, pdom, idom, effects>>

tagAgain ==
    /\ pc = "tags" /\ at > Len(live) /\ iterate
    /\ iterate' = FALSE /\ at' = 1
    /\ UNCHANGED <<label, pc, todo, live, comeFrom, dom, pdom, idom, effects, memtag, memout>>

endTags ==
    /\ pc = "tags" /\ at > Len(live) /\ ~iterate
    /\ pc' = "tagged"
    /\ UNCHANGED <<label, todo, live, comeFrom, dom, pdom, idom, iterate, at,
                   effects, memtag, memout>>

TagsStep == rebuildDom \/ beginTags \/ tagStep \/ tagAgain \/ endTags

TagsTerminated == pc = "tagged" /\ UNCHANGED tagVars

TagsNext == TagsStep \/ TagsTerminated

TagsSpec == TagsInit /\ [][TagsNext]_tagVars /\ WF_tagVars(TagsStep)

-----------------------------------------------------------------------------
(* Properties.  A load may be at the start of a block, <<b, 0>>, or at the *)
(* end of one, <<b, 1>>.                                                   *)

Points == Live \X {0, 1}
TagAt(p) == IF p[2] = 0 THEN memtag[p[1]] ELSE memout[p[1]]

After(p) ==
    IF p[2] = 0 THEN { <<p[1], 1>> } ELSE { <<t, 0>> : t \in Targets(p[1]) }

(* The points on a path from one of S that does not meet p again.          *)
From(S, p) ==
    LET found[n \in 0..(2 * Cardinality(Blocks))] ==
            IF n = 0 THEN S
            ELSE LET r == found[n - 1] IN r \cup ((UNION { After(q) : q \in r }) \ {p})
    IN  found[2 * Cardinality(Blocks)]

(* Those where memory may have changed since p.                            *)
Changed(p) ==
    From({ <<b, 1>> : b \in { x \in effects : <<x, 0>> \in From({p}, p) } } \ {p}, p)

PointDominates(p, q) ==
    IF p[1] = q[1] THEN p[2] <= q[2] ELSE Dominates(p[1], q[1])

(* When one load is on every path to another and both have the same tag,   *)
(* memory has not changed since it was last executed: CSE may replace the  *)
(* second by the first, for all loops and merges of paths between them.    *)
SameTagSameMemory ==
    pc = "tagged" => \A p \in Points : \A q \in Points \ {p} :
        TagAt(p) = TagAt(q) /\ PointDominates(p, q) => q \notin Changed(p)

(* What two loads have in common is the tag at the end of their closest    *)
(* common dominator (asserted where CSE moves them there).                 *)
ClosestCommon(b, c) ==
    CHOOSE d \in TrueDom(b) \cap TrueDom(c) :
        TrueDom(d) = TrueDom(b) \cap TrueDom(c)

CommonTagAtDominator ==
    pc = "tagged" => \A b, c \in Live :
        LET d == ClosestCommon(b, c)
        IN  d \notin {b, c} /\ memtag[b] = memtag[c] => memout[d] = memtag[b]

(* The iteration ends, although tags need not only become more special.    *)
TagsTerminate == <>(pc = "tagged")
=============================================================================
