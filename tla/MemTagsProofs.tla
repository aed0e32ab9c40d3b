---------------------------- MODULE MemTagsProofs ----------------------------
(***************************************************************************)
(* What memory tags say, for every control flow graph and every set of     *)
(* blocks with side effects.                                               *)
(*                                                                         *)
(* The iteration keeps two things besides types: the tag of a side effect  *)
(* is only found in blocks discovered after its own, so that a tag out of  *)
(* a block is that of its side effect or the one that came in, never one   *)
(* mistaken for the other; and a round that changes nothing has left       *)
(* merged tags behind it.  In the solution a tag comes in from every       *)
(* point before one that has it, except where it is made.  Hence the point *)
(* where it is made dominates all that have it.  A path from the first     *)
(* load that loses the tag and finds it again has been there; but paths    *)
(* from the entry get there without the first load, and so the second      *)
(* would be reached without it.                                            *)
(***************************************************************************)
EXTENDS MemTags, DominatorsProofs

(* What the tags rely on, of the blocks found: each but the entry was      *)
(* found from one before it, and once.                                     *)
Discovered ==
    /\ live \in Seq(Blocks) /\ live[1] = 1 /\ Len(live) > 0
    /\ \A n \in 1..Len(live) : n > 1 => \E m \in 1..(n - 1) : live[n] \in Targets(live[m])
    /\ \A m, n \in 1..Len(live) : live[m] = live[n] => m = n

(* The graph that rebuild_dom leaves.                                      *)
GraphFound ==
    /\ Graph /\ label \in Graphs /\ Live = Reach(1, {}) /\ Discovered
    /\ comeFrom = [b \in Blocks |-> { s \in Live : b \in Targets(s) }]

(* The tags a block may have, and the block that a tag was made in.        *)
Tags == { Effect(b) : b \in Live } \cup { Last(b) : b \in Live }

-----------------------------------------------------------------------------
(* The iteration.                                                          *)

(* The tag out of a block is that of its side effect, or the one that      *)
(* comes in; a block that has been visited has one.                        *)
TagsFlow ==
    /\ effects \subseteq Live /\ 1 \in effects
    /\ \A b \in effects : memout[b] = Effect(b)
    /\ \A b \in Live \ effects : memout[b] = memtag[b]
    /\ memtag \in [Blocks -> {noVal} \cup Tags] /\ memout \in [Blocks -> {noVal} \cup Tags]
    /\ \A n \in 1..Len(live) : n < at => memout[live[n]] # noVal

(* The tag of a side effect only comes into blocks found after it: never   *)
(* into its own, where memtag and memout would be taken for one tag that   *)
(* passes through.                                                         *)
EffectsBefore ==
    \A m, n \in 1..Len(live) : memtag[live[n]] = Effect(live[m]) => m < n

(* A round that has not changed anything leaves merged tags behind.        *)
TagsSwept ==
    ~iterate => \A n \in 1..Len(live) : n < at => memtag[live[n]] = Merged(live[n])

TagsSolved ==
    /\ TagsFlow
    /\ \A b \in Live : memtag[b] = Merged(b)
    /\ \A b \in Live : memout[b] # noVal

TagsInv ==
    /\ Discovered
    /\ pc \in {"cfg", "pdom", "dom", "done"} => IInv /\ GraphInv
    /\ pc \in {"tags", "tagged"} => GraphFound
    /\ pc = "tags" => /\ TagsFlow /\ EffectsBefore /\ TagsSwept
                      /\ at \in Nat \ {0} /\ iterate \in BOOLEAN
    /\ pc = "tagged" => TagsSolved
    /\ pc \in {"cfg", "pdom", "dom", "done", "tags", "tagged"}

-----------------------------------------------------------------------------
(* The walk of rebuild_cfg.                                                *)

LEMMA NewLabelsNew ==
    ASSUME label \in Graphs, NEW b \in Blocks
    PROVE  /\ \A n \in 1..Len(NewLabels(b)) : NewLabels(b)[n] \notin Live
           /\ \A m, n \in 1..Len(NewLabels(b)) : NewLabels(b)[m] = NewLabels(b)[n] => m = n
<1>a. label \in [Blocks -> Seq(Blocks)] /\ \A c \in Blocks : Len(label[c]) <= 2
  BY GraphsAssumption
<1>b. label[b] \in Seq(Blocks) /\ Len(label[b]) <= 2
  BY <1>a
<1>c. Len(label[b]) \in Nat /\ DOMAIN label[b] = 1..Len(label[b])
  BY <1>b
<1> DEFINE new == { k \in DOMAIN label[b] : /\ label[b][k] \notin Live
                                            /\ k = 2 => label[b][1] # label[b][2] }
<1>1. \A k \in new : label[b][k] \notin Live /\ (k = 2 => label[b][1] # label[b][2])
  OBVIOUS
<1>2. NewLabels(b) = IF new = {} THEN << >> ELSE IF new = {1, 2} THEN label[b]
                     ELSE <<label[b][CHOOSE k \in new : TRUE]>>
  BY DEF NewLabels
<1>3. new = {1, 2} => Len(label[b]) = 2
  <2>1. \A m \in Nat : m <= 2 /\ 2 \in 1..m => m = 2
    OBVIOUS
  <2> QED
    BY <1>b, <1>c, <2>1
<1> HIDE DEF new
<1>4. CASE new = {}
  BY <1>2, <1>4
<1>5. CASE new = {1, 2}
  <2>1. NewLabels(b) = label[b] /\ Len(NewLabels(b)) = 2
    BY <1>2, <1>3, <1>5
  <2>2. 1 \in new /\ 2 \in new
    BY <1>5
  <2>3. \A n \in 1..2 : n = 1 \/ n = 2
    OBVIOUS
  <2> QED
    BY <1>1, <2>1, <2>2, <2>3
<1>6. CASE new # {} /\ new # {1, 2}
  <2> DEFINE j == CHOOSE k \in new : TRUE
  <2>1. j \in new
    BY <1>6
  <2>2. NewLabels(b) = <<label[b][j]>>
    BY <1>2, <1>6
  <2> HIDE DEF j
  <2>3. Len(NewLabels(b)) = 1 /\ NewLabels(b)[1] = label[b][j]
    BY <2>2
  <2>4. \A n \in 1..1 : n = 1
    OBVIOUS
  <2> QED
    BY <1>1, <2>1, <2>3, <2>4
<1> QED
  BY <1>4, <1>5, <1>6

LEMMA WalkDiscovers == IInv /\ GraphInv /\ Discovered /\ walk => Discovered'
<1> SUFFICES ASSUME IInv, GraphInv, Discovered, walk PROVE Discovered'
  OBVIOUS
<1> DEFINE b == todo[Len(todo)]
           new == NewLabels(b)
<1>1. /\ TypeOK /\ live \in Seq(Blocks) /\ todo \in Seq(Blocks)
      /\ label' = label /\ label \in Graphs /\ pc = "cfg" /\ Len(todo) \in Nat \ {0}
      /\ live' = live \o new /\ Live \subseteq Blocks
  BY GraphTyped DEF walk, IInv, TypeOK, GraphInv, CfgInv
<1>2. b \in Blocks /\ b \in Live
  BY <1>1 DEF GraphInv, CfgInv
<1>3. new \in Seq(Blocks)
  BY <1>1, <1>2, NewLabelsType
<1>4. /\ \A n \in 1..Len(new) : new[n] \in Targets(b) /\ new[n] \notin Live
      /\ \A m, n \in 1..Len(new) : new[m] = new[n] => m = n
  BY <1>1, <1>2, NewLabelsCover, NewLabelsNew
<1>5. \A s : Targets(s)' = Targets(s)
  BY <1>1, SameGraph
<1> HIDE DEF new
<1>6. /\ live' \in Seq(Blocks)
      /\ \A n \in 1..Len(live) : n \in 1..Len(live') /\ live'[n] = live[n]
      /\ \A n \in 1..Len(new) : Len(live) + n \in 1..Len(live') /\ live'[Len(live) + n] = new[n]
      /\ \A n \in 1..Len(live') : n \in 1..Len(live) \/ \E k \in 1..Len(new) : n = Len(live) + k
  BY <1>1, <1>3, Concatenation
<1>7. Len(live) \in Nat /\ Len(live) > 0 /\ Len(new) \in Nat /\ Len(live') \in Nat /\ live[1] = 1
  BY <1>1, <1>3, <1>6 DEF Discovered
<1>8. live'[1] = 1 /\ Len(live') > 0
  <2>1. 1 \in 1..Len(live)
    BY <1>7
  <2>2. 1 \in 1..Len(live')
    BY <1>6, <2>1
  <2> QED
    BY <1>6, <1>7, <2>1, <2>2
<1>9. ASSUME NEW n \in 1..Len(live'), n > 1
      PROVE  \E m \in 1..(n - 1) : live'[n] \in Targets(live'[m])
  <2>1. CASE n \in 1..Len(live)
    <3>1. PICK m \in 1..(n - 1) : live[n] \in Targets(live[m])
      BY <1>9, <2>1 DEF Discovered
    <3>2. m \in 1..Len(live)
      BY <1>7, <2>1
    <3> QED
      BY <1>6, <2>1, <3>1, <3>2
  <2>2. ASSUME NEW k \in 1..Len(new), n = Len(live) + k
        PROVE  \E m \in 1..(n - 1) : live'[n] \in Targets(live'[m])
    <3>1. PICK m \in 1..Len(live) : live[m] = b
      BY <1>1, <1>2, Positions
    <3>2. m \in 1..(n - 1)
      BY <1>7, <2>2
    <3> QED
      BY <1>4, <1>6, <2>2, <3>1, <3>2
  <2> QED
    BY <1>6, <2>1, <2>2
<1>10. ASSUME NEW m \in 1..Len(live'), NEW n \in 1..Len(live'), live'[m] = live'[n]
       PROVE  m = n
  <2>1. \A k \in 1..Len(live) : live[k] \in Live
    BY <1>1, Positions
  <2>2. CASE m \in 1..Len(live) /\ n \in 1..Len(live)
    BY <1>6, <1>10, <2>2 DEF Discovered
  <2>3. ASSUME NEW k \in 1..Len(new), m = Len(live) + k, n \in 1..Len(live)
        PROVE  FALSE
    BY <1>4, <1>6, <1>10, <2>1, <2>3
  <2>4. ASSUME NEW k \in 1..Len(new), n = Len(live) + k, m \in 1..Len(live)
        PROVE  FALSE
    BY <1>4, <1>6, <1>10, <2>1, <2>4
  <2>5. ASSUME NEW k \in 1..Len(new), NEW j \in 1..Len(new), m = Len(live) + k, n = Len(live) + j
        PROVE  k = j
    BY <1>4, <1>6, <1>10, <2>5
  <2> QED
    BY <1>6, <2>2, <2>3, <2>4, <2>5
<1> QED
  BY <1>5, <1>6, <1>8, <1>9, <1>10 DEF Discovered

LEMMA QuietDiscovers == Discovered /\ UNCHANGED <<label, live>> => Discovered'
<1> SUFFICES ASSUME Discovered, UNCHANGED <<label, live>> PROVE Discovered'
  OBVIOUS
<1>1. \A s : Targets(s)' = Targets(s)
  BY SameGraph
<1> QED
  BY <1>1 DEF Discovered

-----------------------------------------------------------------------------
(* The tags a block merges.                                                *)

LEMMA TagNumbers ==
    \A b, c \in Blocks : /\ Effect(b) # noVal /\ Last(b) # noVal
                         /\ Effect(b) # Last(c)
                         /\ Effect(b) = Effect(c) => b = c
                         /\ Last(b) = Last(c) => b = c
<1>1. \A b, c \in Nat \ {0} : /\ 2 * b # 0 /\ 2 * b + 1 # 0 /\ 2 * b # 2 * c + 1
                              /\ 2 * b = 2 * c => b = c
                              /\ 2 * b + 1 = 2 * c + 1 => b = c
  OBVIOUS
<1> QED
  BY <1>1, BlocksAssumption DEF Effect, Last, noVal

LEMMA IncomingTags ==
    ASSUME TagsFlow, NEW b, comeFrom[b] \subseteq Blocks
    PROVE  /\ Incoming(b) \subseteq Tags
           /\ \A f \in comeFrom[b] : memout[f] = noVal \/ memout[f] \in Incoming(b)
           /\ \A t \in Incoming(b) : t # noVal /\ \E f \in comeFrom[b] : memout[f] = t
BY DEF Incoming, TagsFlow

LEMMA MergedCases ==
    ASSUME NEW b
    PROVE  \/ Incoming(b) = {} /\ Merged(b) = noVal
           \/ Incoming(b) # {} /\ Merged(b) = Last(b)
           \/ Incoming(b) = {Merged(b)}
<1>1. CASE Incoming(b) = {}
  BY <1>1 DEF Merged
<1>2. CASE Incoming(b) # {} /\ \A t, u \in Incoming(b) : t = u
  <2>1. PICK t \in Incoming(b) : TRUE
    BY <1>2
  <2>2. Incoming(b) = {t}
    BY <1>2
  <2>3. Merged(b) = CHOOSE u \in Incoming(b) : TRUE
    BY <1>2 DEF Merged
  <2>4. (CHOOSE u \in Incoming(b) : TRUE) \in Incoming(b)
    BY <2>1
  <2> QED
    BY <2>2, <2>3, <2>4
<1>3. CASE ~ \A t, u \in Incoming(b) : t = u
  BY <1>3 DEF Merged
<1> QED
  BY <1>1, <1>2, <1>3

-----------------------------------------------------------------------------
(* The steps keep the invariant.                                           *)

LEMMA InitTags == TagsInit => TagsInv
<1> SUFFICES ASSUME TagsInit PROVE TagsInv
  OBVIOUS
<1>1. IInv /\ GraphInv /\ pc = "cfg" /\ live = <<1>>
  BY InitIInv, InitGraph DEF TagsInit, Init
<1>2. live \in Seq(Blocks) /\ live[1] = 1 /\ Len(live) = 1
  BY <1>1, BlocksAssumption
<1>3. \A m, n \in 1..1 : m = n /\ ~(n > 1)
  OBVIOUS
<1>4. Discovered
  BY <1>2, <1>3 DEF Discovered
<1> QED
  BY <1>1, <1>4 DEF TagsInv

LEMMA RebuildDomTags == TagsInv /\ rebuildDom => TagsInv'
<1> SUFFICES ASSUME TagsInv, rebuildDom PROVE TagsInv'
  OBVIOUS
<1>1. Step /\ pc \in {"cfg", "pdom", "dom", "done"} /\ pc' \in {"cfg", "pdom", "dom", "done"}
  BY DEF rebuildDom, Step, walk, beginPdom, pdomStep, pdomAgain, beginDom, domStep, domAgain, endDom
<1>2. IInv /\ GraphInv /\ Discovered
  BY <1>1 DEF TagsInv
<1>3. IInv' /\ GraphInv'
  BY <1>1, <1>2, NextKeeps, GraphKept DEF Next
<1>4. walk \/ UNCHANGED <<label, live>>
  BY <1>1 DEF Step, beginPdom, pdomStep, pdomAgain, beginDom, domStep, domAgain, endDom
<1>5. Discovered'
  BY <1>2, <1>4, WalkDiscovers, QuietDiscovers
<1> QED
  BY <1>1, <1>3, <1>5 DEF TagsInv

LEMMA BeginTagsTags == TagsInv /\ beginTags => TagsInv'
<1> SUFFICES ASSUME TagsInv, beginTags PROVE TagsInv'
  OBVIOUS
<1>1. IInv /\ GraphInv /\ Discovered /\ pc = "done" /\ pc' = "tags" /\ iterate' = FALSE /\ at' = 1
  BY DEF TagsInv, beginTags
<1>2. label' = label /\ live' = live /\ comeFrom' = comeFrom
  BY DEF beginTags
<1>3. Discovered'
  BY <1>1, <1>2, QuietDiscovers
<1>4. Walked
  BY <1>1, IsWalked
<1>5. GraphFound
  BY <1>1, <1>4 DEF GraphFound, Walked, GraphInv, CfgInv
<1>6. Live' = Live /\ Reach(1, {})' = Reach(1, {}) /\ \A s : Targets(s)' = Targets(s)
  BY <1>2, SameGraph DEF Live
<1>7. GraphFound'
  BY <1>2, <1>3, <1>5, <1>6 DEF GraphFound, Graph
<1>8. /\ effects' \subseteq Live /\ 1 \in effects' /\ Live \subseteq Blocks
      /\ memtag' = [b \in Blocks |-> noVal]
      /\ memout' = [b \in Blocks |-> IF b \in effects' THEN Effect(b) ELSE noVal]
  BY <1>4 DEF beginTags, Walked
<1>9. Tags' = Tags /\ \A b \in Live : Effect(b) \in Tags
  BY <1>6 DEF Tags, Effect, Last
<1>10. Len(live) \in Nat /\ \A n \in 1..Len(live) : ~(n < 1) /\ live[n] \in Blocks
  BY <1>5 DEF GraphFound, Discovered
<1>11. TagsFlow'
  <2>1. memtag' \in [Blocks -> {noVal} \cup Tags] /\ memout' \in [Blocks -> {noVal} \cup Tags]
    BY <1>8, <1>9
  <2>2. \A b : Effect(b)' = Effect(b)
    BY DEF Effect
  <2> QED
    BY <1>1, <1>2, <1>6, <1>8, <1>9, <1>10, <2>1, <2>2 DEF TagsFlow
<1>12. EffectsBefore'
  BY <1>2, <1>8, <1>10, TagNumbers DEF EffectsBefore, Effect
<1>13. TagsSwept'
  <2>1. \A n \in 1..Len(live') : ~(n < at')
    BY <1>1, <1>2, <1>10
  <2> QED
    BY <2>1 DEF TagsSwept
<1>14. at' \in Nat \ {0} /\ iterate' \in BOOLEAN
  <2>1. at' = 1
    BY <1>1
  <2>2. at' \in Nat \ {0}
    BY <2>1
  <2>3. iterate' \in BOOLEAN
    BY <1>1, Zenon
  <2> QED
    BY <2>2, <2>3
<1>15. pc' = "tags" /\ Discovered'
  BY <1>1, <1>3
<1> QED
  BY <1>7, <1>11, <1>12, <1>13, <1>14, <1>15 DEF TagsInv

LEMMA SameFound ==
    ASSUME GraphFound, UNCHANGED <<label, live, comeFrom>>
    PROVE  GraphFound' /\ Live' = Live /\ Tags' = Tags /\ Discovered'
<1>1. Live' = Live /\ Reach(1, {})' = Reach(1, {}) /\ \A s : Targets(s)' = Targets(s)
  BY SameGraph DEF Live
<1>2. Discovered'
  BY QuietDiscovers DEF GraphFound
<1> QED
  BY <1>1, <1>2 DEF GraphFound, Graph, Tags, Effect, Last

(* Before a block is visited, one it was found from has been.              *)
LEMMA ParentIncoming ==
    ASSUME GraphFound, TagsFlow, NEW n \in 1..Len(live), n <= at, at \in Nat
    PROVE  /\ n = 1 => comeFrom[live[n]] = {}
           /\ n > 1 => \E k \in 1..Len(live) : k < n /\ live[k] \in comeFrom[live[n]]
                                               /\ memout[live[k]] \in Incoming(live[n])
<1>1. /\ live \in Seq(Blocks) /\ live[1] = 1 /\ live[n] \in Blocks /\ Live \subseteq Blocks
      /\ \A k \in 1..Len(live) : live[k] \in Live
      /\ comeFrom = [b \in Blocks |-> { s \in Live : b \in Targets(s) }]
      /\ Len(live) \in Nat
  BY Positions, LiveInBlocks DEF GraphFound, Discovered
<1>2. ASSUME n = 1
      PROVE  comeFrom[live[n]] = {}
  <2>1. \A s \in Live : 1 \notin Targets(s)
    BY <1>1, EntryAssumption DEF GraphFound, Targets
  <2> QED
    BY <1>1, <1>2, <2>1
<1>3. ASSUME n > 1
      PROVE  \E k \in 1..Len(live) : k < n /\ live[k] \in comeFrom[live[n]]
                                     /\ memout[live[k]] \in Incoming(live[n])
  <2>1. PICK k \in 1..(n - 1) : live[n] \in Targets(live[k])
    BY <1>3 DEF GraphFound, Discovered
  <2>2. k \in 1..Len(live) /\ k < n /\ k < at
    BY <1>1
  <2>3. live[k] \in comeFrom[live[n]] /\ comeFrom[live[n]] \subseteq Blocks
    BY <1>1, <2>1, <2>2
  <2>4. memout[live[k]] # noVal
    BY <2>2 DEF TagsFlow
  <2> QED
    BY <2>2, <2>3, <2>4, IncomingTags
<1> QED
  BY <1>2, <1>3

LEMMA TagStepTags == TagsInv /\ tagStep => TagsInv'
<1> SUFFICES ASSUME TagsInv, tagStep PROVE TagsInv'
  OBVIOUS
<1> DEFINE b == live[at]
<1>1. /\ pc = "tags" /\ pc' = "tags" /\ GraphFound /\ TagsFlow /\ EffectsBefore /\ TagsSwept
      /\ at \in Nat \ {0} /\ iterate \in BOOLEAN /\ at' = at + 1 /\ Discovered
      /\ label' = label /\ live' = live /\ comeFrom' = comeFrom /\ effects' = effects
  BY DEF TagsInv, tagStep
<1>2. /\ memtag' = [memtag EXCEPT ![b] = Merged(b)]
      /\ memout' = [memout EXCEPT ![b] = IF memtag[b] = memout[b] THEN Merged(b) ELSE memout[b]]
      /\ iterate' = (iterate \/ memtag[b] # Merged(b))
  BY DEF tagStep
<1>3. /\ live \in Seq(Blocks) /\ Len(live) \in Nat /\ Live \subseteq Blocks /\ at \in 1..Len(live)
      /\ \A n \in 1..Len(live) : live[n] \in Live /\ live[n] \in Blocks
      /\ \A m, n \in 1..Len(live) : live[m] = live[n] => m = n
      /\ \A c \in Live : \E n \in 1..Len(live) : live[n] = c
  BY <1>1, Positions, LiveInBlocks DEF GraphFound, Discovered, tagStep
<1>4. b \in Live /\ b \in Blocks /\ comeFrom[b] \subseteq Blocks
  BY <1>1, <1>3 DEF GraphFound
<1>5. GraphFound' /\ Live' = Live /\ Tags' = Tags /\ Discovered'
  BY <1>1, SameFound
<1>6. Merged(b) \in {noVal} \cup Tags
  BY <1>1, <1>4, IncomingTags, MergedCases DEF Tags
<1>7. /\ memtag' \in [Blocks -> {noVal} \cup Tags] /\ memout' \in [Blocks -> {noVal} \cup Tags]
      /\ memtag'[b] = Merged(b)
      /\ memout'[b] = IF memtag[b] = memout[b] THEN Merged(b) ELSE memout[b]
      /\ \A c \in Blocks \ {b} : memtag'[c] = memtag[c] /\ memout'[c] = memout[c]
  BY <1>1, <1>2, <1>4, <1>6 DEF TagsFlow
<1>8. b \in effects => memout'[b] = Effect(b)
  <2> SUFFICES ASSUME b \in effects PROVE memout'[b] = Effect(b)
    OBVIOUS
  <2>1. memtag[b] # Effect(b)
    <3>1. ~(at < at)
      BY <1>1
    <3> QED
      BY <1>1, <1>3, <3>1 DEF EffectsBefore
  <2> QED
    BY <1>1, <1>7, <2>1 DEF TagsFlow
<1>9. b \notin effects => memout'[b] = memtag'[b]
  BY <1>1, <1>4, <1>7 DEF TagsFlow
<1>10. memout'[b] # noVal
  <2>1. CASE b \in effects
    BY <1>4, <1>8, <2>1, TagNumbers
  <2>2. CASE b \notin effects
    <3>1. at > 1
      BY <1>1, <1>3, <2>2 DEF TagsFlow, GraphFound, Discovered
    <3>2. Incoming(b) # {}
      BY <1>1, <1>3, <3>1, ParentIncoming
    <3>3. Merged(b) # noVal
      BY <1>1, <1>4, <3>2, MergedCases, IncomingTags, TagNumbers
    <3> QED
      BY <1>7, <1>9, <2>2, <3>3
  <2> QED
    BY <2>1, <2>2
<1> HIDE DEF b
<1>11. TagsFlow'
  <2>1. \A c \in effects : memout'[c] = Effect(c)
    BY <1>1, <1>3, <1>7, <1>8 DEF TagsFlow
  <2>2. \A c \in Live \ effects : memout'[c] = memtag'[c]
    BY <1>1, <1>3, <1>7, <1>9 DEF TagsFlow
  <2>3. ASSUME NEW n \in 1..Len(live), n < at + 1
        PROVE  memout'[live[n]] # noVal
    <3>1. n < at \/ n = at
      BY <1>1, <2>3
    <3>2. CASE n = at
      BY <1>10, <3>2 DEF b
    <3>3. CASE n < at
      <4>1. live[n] # b
        BY <1>1, <1>3, <3>3 DEF b
      <4> QED
        BY <1>1, <1>3, <1>7, <3>3, <4>1 DEF TagsFlow
    <3> QED
      BY <3>1, <3>2, <3>3
  <2>4. \A c : Effect(c)' = Effect(c)
    BY DEF Effect
  <2>5. effects' \subseteq Live' /\ 1 \in effects'
    BY <1>1, <1>5 DEF TagsFlow
  <2> QED
    BY <1>1, <1>5, <1>7, <2>1, <2>2, <2>3, <2>4, <2>5 DEF TagsFlow
<1>12. EffectsBefore'
  <2> SUFFICES ASSUME NEW m \in 1..Len(live), NEW n \in 1..Len(live),
                      memtag'[live[n]] = Effect(live[m])
               PROVE  m < n
    BY <1>1 DEF EffectsBefore, Effect
  <2>1. CASE n # at
    <3>1. live[n] # b
      BY <1>3, <2>1 DEF b
    <3> QED
      BY <1>1, <1>3, <1>7, <3>1 DEF EffectsBefore
  <2>2. CASE n = at
    <3>1. Merged(b) = Effect(live[m])
      BY <1>7, <2>2 DEF b
    <3>2. Incoming(b) = {Effect(live[m])}
      BY <1>3, <1>4, <3>1, MergedCases, TagNumbers
    <3>3. PICK k \in 1..Len(live) : k < n /\ memout[live[k]] \in Incoming(b)
      <4>3. GraphFound /\ TagsFlow /\ n <= at /\ at \in Nat
        BY <1>1, <1>3, <2>2
      <4>1. n > 1
        <5>1. n = 1 => comeFrom[live[n]] = {}
          BY <4>3, ParentIncoming
        <5>2. n = 1 => Incoming(b) = {}
          BY <2>2, <5>1 DEF Incoming, b
        <5> QED
          BY <1>1, <2>2, <3>2, <5>2
      <4>2. \E k \in 1..Len(live) : k < n /\ memout[live[k]] \in Incoming(live[n])
        BY <4>3, <4>1, ParentIncoming
      <4> QED
        BY <2>2, <4>2 DEF b
    <3>4. memout[live[k]] = Effect(live[m])
      BY <3>2, <3>3
    <3>5. CASE live[k] \in effects
      BY <1>1, <1>3, <3>3, <3>4, <3>5, TagNumbers DEF TagsFlow
    <3>6. CASE live[k] \notin effects
      <4>1. m < k
        BY <1>1, <1>3, <3>4, <3>6 DEF TagsFlow, EffectsBefore
      <4> QED
        BY <1>3, <3>3, <4>1
    <3> QED
      BY <3>5, <3>6
  <2> QED
    BY <2>1, <2>2
<1>13. TagsSwept'
  <2> SUFFICES ASSUME ~iterate', NEW n \in 1..Len(live), n < at + 1
               PROVE  memtag'[live[n]] = Merged(live[n])'
    BY <1>1 DEF TagsSwept
  <2>1. ~iterate /\ memtag[b] = Merged(b)
    BY <1>2, <1>1
  <2>2. memtag' = memtag /\ memout' = memout
    <3>1. \A c \in Blocks : memtag'[c] = memtag[c] /\ memout'[c] = memout[c]
      BY <1>7, <2>1
    <3> QED
      BY <1>1, <1>7, <3>1 DEF TagsFlow
  <2>3. \A c : Merged(c)' = Merged(c)
    BY <1>1, <2>2 DEF Merged, Incoming, Last
  <2>4. n < at \/ n = at
    BY <1>1
  <2> QED
    BY <1>1, <2>1, <2>2, <2>3, <2>4 DEF TagsSwept, b
<1>14. at' \in Nat \ {0} /\ iterate' \in BOOLEAN
  BY <1>1, <1>2
<1> QED
  BY <1>1, <1>5, <1>11, <1>12, <1>13, <1>14 DEF TagsInv

LEMMA TagAgainTags == TagsInv /\ tagAgain => TagsInv'
<1> SUFFICES ASSUME TagsInv, tagAgain PROVE TagsInv'
  OBVIOUS
<1>1. /\ pc' = "tags" /\ GraphFound /\ TagsFlow /\ EffectsBefore /\ at' = 1 /\ iterate' = FALSE
      /\ label' = label /\ live' = live /\ comeFrom' = comeFrom /\ effects' = effects
      /\ memtag' = memtag /\ memout' = memout
  BY DEF TagsInv, tagAgain
<1>2. GraphFound' /\ Live' = Live /\ Tags' = Tags /\ Discovered'
  BY <1>1, SameFound
<1>3. \A n \in 1..Len(live) : ~(n < 1)
  BY <1>1 DEF GraphFound, Discovered
<1>4. \A c : Effect(c)' = Effect(c)
  BY DEF Effect
<1>5. TagsFlow'
  BY <1>1, <1>2, <1>3, <1>4 DEF TagsFlow
<1>6. EffectsBefore' /\ TagsSwept'
  <2>1. \A n \in 1..Len(live') : ~(n < at')
    BY <1>1, <1>3
  <2> QED
    BY <1>1, <1>4, <2>1 DEF EffectsBefore, TagsSwept
<1>7. at' \in Nat \ {0} /\ iterate' \in BOOLEAN
  <2>1. at' = 1
    BY <1>1
  <2>2. at' \in Nat \ {0}
    BY <2>1
  <2>3. iterate' \in BOOLEAN
    BY <1>1, Zenon
  <2> QED
    BY <2>2, <2>3
<1> QED
  BY <1>1, <1>2, <1>5, <1>6, <1>7 DEF TagsInv

LEMMA EndTagsTags == TagsInv /\ endTags => TagsInv'
<1> SUFFICES ASSUME TagsInv, endTags PROVE TagsInv'
  OBVIOUS
<1>1. /\ pc' = "tagged" /\ GraphFound /\ TagsFlow /\ TagsSwept /\ at' = at /\ ~iterate
      /\ label' = label /\ live' = live /\ comeFrom' = comeFrom /\ effects' = effects
      /\ memtag' = memtag /\ memout' = memout /\ at \in Nat /\ at > Len(live)
  BY DEF TagsInv, endTags
<1>2. GraphFound' /\ Live' = Live /\ Tags' = Tags /\ Discovered'
  BY <1>1, SameFound
<1>3. live \in Seq(Blocks) /\ Len(live) \in Nat
  BY <1>1 DEF GraphFound, Discovered
<1>4. \A n \in 1..Len(live) : n < at
  BY <1>1, <1>3
<1>5. \A c \in Live : \E n \in 1..Len(live) : live[n] = c
  BY <1>3, Positions
<1>6. \A c \in Live : memtag[c] = Merged(c) /\ memout[c] # noVal
  BY <1>1, <1>4, <1>5 DEF TagsSwept, TagsFlow
<1>7. \A c : Merged(c)' = Merged(c) /\ Effect(c)' = Effect(c)
  BY <1>1 DEF Merged, Incoming, Last, Effect
<1>8. TagsFlow'
  BY <1>1, <1>2, <1>7 DEF TagsFlow
<1>9. TagsSolved'
  BY <1>1, <1>2, <1>6, <1>7, <1>8 DEF TagsSolved
<1> QED
  BY <1>1, <1>2, <1>9 DEF TagsInv

LEMMA StutterTags == TagsInv /\ UNCHANGED tagVars => TagsInv'
<1> SUFFICES ASSUME TagsInv, UNCHANGED tagVars PROVE TagsInv'
  OBVIOUS
<1>1. UNCHANGED <<vars, effects, memtag, memout>>
  BY DEF tagVars
<1>2. UNCHANGED <<label, pc, todo, live, comeFrom, dom, pdom, idom, iterate, at>>
  BY <1>1 DEF vars
<1>3. \A c : Merged(c)' = Merged(c) /\ Effect(c)' = Effect(c)
  BY <1>1, <1>2 DEF Merged, Incoming, Last, Effect
<1>4. Discovered' /\ Live' = Live
  BY <1>2, QuietDiscovers DEF TagsInv, Live
<1>5. CASE pc \in {"cfg", "pdom", "dom", "done"}
  <2>1. IInv' /\ GraphInv'
    BY <1>1, <1>5, NextKeeps, GraphKept DEF TagsInv
  <2> QED
    BY <1>2, <1>4, <1>5, <2>1 DEF TagsInv
<1>6. CASE pc \in {"tags", "tagged"}
  <2>1. GraphFound' /\ Live' = Live /\ Tags' = Tags
    BY <1>2, <1>6, SameFound DEF TagsInv
  <2>2. TagsFlow => TagsFlow'
    BY <1>1, <1>2, <1>3, <2>1 DEF TagsFlow
  <2>3. EffectsBefore => EffectsBefore'
    BY <1>1, <1>2, <1>3 DEF EffectsBefore
  <2>4. TagsSwept => TagsSwept'
    BY <1>1, <1>2, <1>3 DEF TagsSwept
  <2>5. TagsSolved => TagsSolved'
    BY <1>1, <1>2, <1>3, <2>1, <2>2 DEF TagsSolved
  <2>6. pc' = pc /\ at' = at /\ iterate' = iterate
    BY <1>2
  <2> QED
    BY <1>4, <1>6, <2>1, <2>2, <2>3, <2>4, <2>5, <2>6 DEF TagsInv
<1> QED
  BY <1>5, <1>6 DEF TagsInv

LEMMA TagsAlways == TagsSpec => []TagsInv
<1>1. TagsInit => TagsInv
  BY InitTags
<1>2. TagsInv /\ [TagsNext]_tagVars => TagsInv'
  BY RebuildDomTags, BeginTagsTags, TagStepTags, TagAgainTags, EndTagsTags, StutterTags
  DEF TagsNext, TagsStep, TagsTerminated
<1> QED
  BY <1>1, <1>2, PTL DEF TagsSpec

-----------------------------------------------------------------------------
(* Points of the program.                                                  *)

(* No step of a path leaves X, but to p.                                   *)
PointsClosed(X, p) == \A q \in X : After(q) \ {p} \subseteq X

Spread(r, p) == r \cup ((UNION { After(q) : q \in r }) \ {p})

(* The points found within n steps, the last of them From.                 *)
FoundBy(g, S, p) ==
    /\ g[0] = S
    /\ \A n \in 1..(2 * Cardinality(Blocks)) : g[n] = Spread(g[n - 1], p)
    /\ From(S, p) = g[2 * Cardinality(Blocks)]

LEMMA FromRecursion ==
    ASSUME Graph, NEW S, S \subseteq Blocks \X {0, 1}, NEW p
    PROVE  \E g : FoundBy(g, S, p)
<1> DEFINE N == 2 * Cardinality(Blocks)
           D == SUBSET (Blocks \X {0, 1})
           G == [n \in 1..N |-> [r \in D |-> Spread(r, p)]]
<1>1. N \in Nat
  BY BlocksAssumption, FS_CardinalityType
<1>2. \A r \in D : Spread(r, p) \in D
  <2>1. \A q \in Blocks \X {0, 1} : After(q) \subseteq Blocks \X {0, 1}
    BY TargetsAreBlocks DEF After, Graph
  <2> QED
    BY <2>1 DEF Spread
<1>3. G \in [1..N -> [D -> D]]
  <2> HIDE DEF D
  <2> QED
    BY <1>2
<1>4. S \in D
  OBVIOUS
<1>5. PICK f \in [0..N -> D] : f[0] = S /\ \A n \in 1..N : f[n] = G[n][f[n - 1]]
  <2> HIDE DEF N, G, D
  <2>1. Recursive(D, S, N, G) # {}
    BY <1>1, <1>3, <1>4, RecursionExists
  <2> QED
    BY <2>1 DEF Recursive
<1>6. \A n \in 1..N : f[n] = Spread(f[n - 1], p)
  <2> HIDE DEF N, D
  <2>1. \A n \in 1..N : n - 1 \in 0..N
    BY <1>1
  <2>2. \A n \in 1..N : f[n - 1] \in D
    BY <2>1, <1>5
  <2>3. \A n \in 1..N, x \in D : G[n][x] = Spread(x, p)
    OBVIOUS
  <2> HIDE DEF G
  <2> QED
    BY <1>5, <2>2, <2>3
<1> HIDE DEF G
<1> DEFINE Unfold(h) == [n \in 0..N |-> IF n = 0 THEN S
              ELSE LET r == h[n - 1]
                   IN  r \cup ((UNION { After(q) : q \in r }) \ {p})]
<1>7. f = Unfold(f)
  <2>1. \A n \in 0..N : f[n] = Unfold(f)[n]
    BY <1>1, <1>5, <1>6 DEF Spread
  <2> QED
    BY <2>1
<1> DEFINE g == CHOOSE h : h = Unfold(h)
<1>8. g = Unfold(g)
  <2> HIDE DEF Unfold
  <2> QED
    BY <1>7
<1>9. From(S, p) = g[N]
  BY DEF From
<1> HIDE DEF g
<1>10. g[0] = S /\ \A n \in 1..N : g[n] = Spread(g[n - 1], p)
  <2>1. Unfold(g)[0] = S
    BY <1>1
  <2>2. \A n \in 1..N : Unfold(g)[n] = Spread(g[n - 1], p)
    BY <1>1 DEF Spread
  <2> HIDE DEF Unfold, N
  <2> QED
    BY <2>1, <2>2, <1>8
<1>11. FoundBy(g, S, p)
  BY <1>9, <1>10 DEF FoundBy
<1> QED
  BY <1>11

(* What is found from S stays in any set that no step leaves.              *)
LEMMA FromLeast ==
    ASSUME Graph, NEW S, S \subseteq Blocks \X {0, 1}, NEW p,
           NEW X, S \subseteq X, PointsClosed(X, p)
    PROVE  From(S, p) \subseteq X
<1> DEFINE N == 2 * Cardinality(Blocks)
<1>1. N \in Nat
  BY BlocksAssumption, FS_CardinalityType
<1>0. PICK g : FoundBy(g, S, p)
  BY FromRecursion
<1>2. /\ g[0] = S
      /\ \A n \in 1..N : g[n] = Spread(g[n - 1], p)
      /\ From(S, p) = g[N]
  BY <1>0 DEF FoundBy
<1> HIDE DEF N
<1> DEFINE T == { n \in Nat : n <= N => g[n] \subseteq X }
<1>3. 0 \in T
  BY <1>2
<1>4. ASSUME NEW n \in Nat, n \in T
      PROVE  n + 1 \in T
  <2> SUFFICES ASSUME n + 1 <= N
               PROVE  g[n + 1] \subseteq X
    OBVIOUS
  <2>1. n + 1 \in 1..N /\ (n + 1) - 1 = n /\ g[n] \subseteq X
    BY <1>1, <1>4
  <2>2. g[n + 1] = Spread(g[n], p)
    BY <2>1, <1>2
  <2> QED
    BY <2>1, <2>2 DEF Spread, PointsClosed
<1> HIDE DEF T
<1>5. N \in T
  BY <1>1, <1>3, <1>4, SetOfAllNumbers
<1> QED
  BY <1>1, <1>2, <1>5 DEF T

(* The points on a path from the entry that does not meet p.               *)
Off(p) == { q \in Points : ~PointDominates(p, q) }

LEMMA FoundFacts ==
    ASSUME GraphFound
    PROVE  /\ Graph /\ Live = Reach(1, {}) /\ Live \subseteq Blocks /\ 1 \in Live /\ 1 \in Blocks
           /\ \A b \in Live : Targets(b) \subseteq Live
           /\ \A b \in Live : b \notin Reach(1, {b}) /\ Reach(1, {b}) \subseteq Live
           /\ \A b \in Live : Closed(Reach(1, {b}), {b})
<1>1. 1 \in Blocks /\ Graph /\ Live = Reach(1, {}) /\ Live \subseteq Blocks
  BY BlocksAssumption, LiveInBlocks DEF GraphFound, Discovered
<1>2. 1 \in Live /\ Closed(Live, {})
  BY <1>1, ReachClosed DEF Graph
<1>3. \A b \in Live : /\ b \notin Reach(1, {b}) /\ Reach(1, {b}) \subseteq Live
                      /\ Closed(Reach(1, {b}), {b})
  BY <1>1, ReachAvoids, ReachMore, ReachClosed DEF Graph
<1> QED
  BY <1>1, <1>2, <1>3 DEF Closed

LEMMA AfterFacts ==
    ASSUME GraphFound, NEW x \in Points
    PROVE  /\ After(x) \subseteq Points
           /\ x[1] \in Live /\ x[2] \in {0, 1} /\ x = <<x[1], x[2]>>
           /\ \A y \in After(x) : \/ x[2] = 0 /\ y = <<x[1], 1>>
                                  \/ x[2] = 1 /\ y[2] = 0 /\ y[1] \in Targets(x[1])
<1>1. x[1] \in Live /\ x[2] \in {0, 1} /\ x = <<x[1], x[2]>>
  BY DEF Points
<1>2. CASE x[2] = 0
  BY <1>1, <1>2 DEF After, Points
<1>3. CASE x[2] = 1
  <2>1. \A y \in After(x) : \E t \in Targets(x[1]) : y = <<t, 0>>
    BY <1>3 DEF After
  <2>2. Targets(x[1]) \subseteq Live
    BY <1>1, FoundFacts
  <2> QED
    BY <1>1, <1>3, <2>1, <2>2 DEF Points
<1> QED
  BY <1>1, <1>2, <1>3

LEMMA OffClosed ==
    ASSUME GraphFound, NEW p \in Points
    PROVE  PointsClosed(Off(p), p)
<1> SUFFICES ASSUME NEW x \in Off(p), NEW y \in After(x), y # p
             PROVE  y \in Off(p)
  BY DEF PointsClosed
<1>1. x \in Points /\ ~PointDominates(p, x)
  BY DEF Off
<1>2. /\ y \in Points /\ y = <<y[1], y[2]>> /\ p = <<p[1], p[2]>> /\ p[1] \in Live
      /\ y[2] \in {0, 1} /\ x[2] \in {0, 1} /\ p[2] \in {0, 1}
      /\ \/ x[2] = 0 /\ y[1] = x[1] /\ y[2] = 1
         \/ x[2] = 1 /\ y[2] = 0 /\ y[1] \in Targets(x[1])
  <2>1. y \in Points
    BY <1>1, AfterFacts
  <2> QED
    BY <1>1, <2>1, AfterFacts
<1>3. y[1] = p[1] => y[2] # p[2]
  BY <1>2
<1>4. CASE x[1] = p[1]
  <2>1. x[2] = 0 /\ p[2] = 1
    BY <1>1, <1>2, <1>4 DEF PointDominates
  <2> QED
    BY <1>2, <1>3, <1>4, <2>1
<1>5. CASE x[1] # p[1]
  <2>1. x[1] \in Reach(1, {p[1]})
    BY <1>1, <1>5 DEF PointDominates, Dominates
  <2>2. y[1] = p[1] \/ y[1] \in Reach(1, {p[1]})
    BY <1>2, <2>1, FoundFacts DEF Closed
  <2>3. CASE y[1] # p[1]
    BY <1>2, <2>2, <2>3 DEF Off, PointDominates, Dominates
  <2>4. CASE y[1] = p[1]
    <3>1. y[2] = 0 /\ p[2] = 1
      BY <1>2, <1>3, <1>5, <2>4
    <3> QED
      BY <1>2, <2>4, <3>1 DEF Off, PointDominates
  <2> QED
    BY <2>3, <2>4
<1> QED
  BY <1>4, <1>5

(* No set that holds the entry and that no step leaves is smaller.         *)
LEMMA OffLeast ==
    ASSUME GraphFound, NEW p \in Points, NEW X, PointsClosed(X, p),
           <<1, 0>> \in X \/ p = <<1, 0>>
    PROVE  Off(p) \subseteq X
<1> DEFINE b == p[1]
           Z == { c \in Live : <<c, 0>> \in X /\ <<c, 1>> \in X }
<1>1. b \in Live /\ p[2] \in {0, 1} /\ p = <<b, p[2]>>
  BY AfterFacts
<1>2. \A c \in Live \ {b} : <<c, 0>> \in X => <<c, 1>> \in X
  <2>1. \A c \in Live \ {b} : <<c, 1>> \in After(<<c, 0>>) /\ <<c, 1>> # p
    BY <1>1 DEF After
  <2> QED
    BY <2>1 DEF PointsClosed
<1>3. \A c \in Live : \A t \in Targets(c) : <<c, 1>> \in X /\ <<t, 0>> # p => <<t, 0>> \in X
  <2>1. \A c \in Live : \A t \in Targets(c) : <<t, 0>> \in After(<<c, 1>>)
    BY DEF After
  <2> QED
    BY <2>1 DEF PointsClosed
<1>4. Reach(1, {b}) \subseteq Z
  <2>1. {1} \ {b} \subseteq Z
    BY <1>1, <1>2, FoundFacts
  <2>2. Closed(Z, {b})
    <3> SUFFICES ASSUME NEW c \in Z, NEW t \in Targets(c), t # b
                 PROVE  t \in Z
      BY DEF Closed
    <3>1. t \in Live /\ <<t, 0>> # p
      BY <1>1, FoundFacts
    <3> QED
      BY <1>2, <1>3, <3>1
  <2> HIDE DEF Z, b
  <2> QED
    BY <2>1, <2>2, FoundFacts, ReachLeast DEF Graph
<1>5. p[2] = 1 => <<b, 0>> \in X
  <2> SUFFICES ASSUME p[2] = 1, <<b, 0>> \notin X
               PROVE  FALSE
    OBVIOUS
  <2>1. b # 1
    BY <1>1
  <2>2. Closed(Reach(1, {b}), {})
    <3> SUFFICES ASSUME NEW c \in Reach(1, {b}), NEW t \in Targets(c)
                 PROVE  t \in Reach(1, {b})
      BY DEF Closed
    <3>1. c \in Live /\ <<c, 1>> \in X
      BY <1>4
    <3>2. t # b
      BY <1>1, <1>3, <3>1
    <3> QED
      BY <1>1, <3>2, FoundFacts DEF Closed
  <2>3. 1 \in Reach(1, {b})
    BY <1>1, <2>1, FoundFacts, ReachClosed DEF Graph
  <2>4. Reach(1, {}) \subseteq Reach(1, {b})
    <3> HIDE DEF b
    <3> QED
      BY <2>2, <2>3, FoundFacts, ReachLeast DEF Graph
  <2> QED
    BY <1>1, <2>4, FoundFacts
<1> SUFFICES ASSUME NEW q \in Off(p)
             PROVE  q \in X
  OBVIOUS
<1>6. q \in Points /\ ~PointDominates(p, q) /\ q = <<q[1], q[2]>> /\ q[2] \in {0, 1}
  BY AfterFacts DEF Off
<1>7. CASE q[1] = b
  BY <1>1, <1>5, <1>6, <1>7 DEF PointDominates
<1>8. CASE q[1] # b
  BY <1>4, <1>6, <1>8 DEF PointDominates, Dominates
<1> QED
  BY <1>7, <1>8

LEMMA PointsAntisymmetric ==
    ASSUME GraphFound, NEW p \in Points, NEW q \in Points, p # q, PointDominates(p, q)
    PROVE  ~PointDominates(q, p)
<1>1. /\ p[1] \in Live /\ p[2] \in {0, 1} /\ p = <<p[1], p[2]>>
      /\ q[1] \in Live /\ q[2] \in {0, 1} /\ q = <<q[1], q[2]>>
  BY AfterFacts
<1>2. CASE p[1] = q[1]
  BY <1>1, <1>2 DEF PointDominates
<1>3. CASE p[1] # q[1]
  <2>1. p[1] \in TrueDom(q[1]) \ {q[1]}
    BY <1>1, <1>3, FoundFacts DEF PointDominates, TrueDom
  <2>2. q[1] \notin TrueDom(p[1])
    BY <1>1, <2>1, FoundFacts, DomChain
  <2> QED
    BY <1>1, <1>3, <2>2, FoundFacts DEF PointDominates, TrueDom
<1> QED
  BY <1>2, <1>3

-----------------------------------------------------------------------------
(* A tag spreads from the point of the operation that it is.               *)

(* What the pass leaves behind.                                            *)
Solved == GraphFound /\ TagsSolved

TagMadeAt(t, d) ==
    \/ d[2] = 1 /\ t = Effect(d[1])
    \/ d[2] = 0 /\ t = Last(d[1])

LEMMA TagMadeOnce ==
    ASSUME GraphFound, NEW b \in Live, NEW d \in Points
    PROVE  /\ TagMadeAt(Effect(b), d) => d = <<b, 1>>
           /\ TagMadeAt(Last(b), d) => d = <<b, 0>>
<1>1. d = <<d[1], d[2]>> /\ d[1] \in Blocks /\ b \in Blocks
  BY AfterFacts, FoundFacts
<1> QED
  BY <1>1, TagNumbers DEF TagMadeAt

LEMMA TagHasPoint ==
    ASSUME Solved, NEW p \in Points, TagAt(p) # noVal
    PROVE  \E d \in Points : TagMadeAt(TagAt(p), d)
<1>1. p[1] \in Live /\ p[1] \in Blocks
  BY AfterFacts, FoundFacts DEF Solved
<1>2. TagAt(p) \in Tags
  BY <1>1 DEF Solved, TagsSolved, TagsFlow, TagAt
<1>3. PICK b \in Live : TagAt(p) = Effect(b) \/ TagAt(p) = Last(b)
  BY <1>2 DEF Tags
<1>4. <<b, 0>> \in Points /\ <<b, 1>> \in Points
  BY DEF Points
<1> QED
  BY <1>3, <1>4 DEF TagMadeAt

LEMMA EntryUntagged == Solved => memtag[1] = noVal
<1> SUFFICES ASSUME Solved PROVE memtag[1] = noVal
  OBVIOUS
<1>1. 1 \in Live /\ 1 \in Blocks /\ \A s \in Live : 1 \notin Targets(s)
  BY FoundFacts, EntryAssumption DEF Solved, GraphFound, Targets
<1>2. comeFrom[1] = {}
  BY <1>1 DEF Solved, GraphFound
<1>3. Merged(1) = noVal
  BY <1>2 DEF Merged, Incoming
<1> QED
  BY <1>1, <1>3 DEF Solved, TagsSolved

LEMMA OnlyEntryUntagged ==
    ASSUME Solved, NEW p \in Points, TagAt(p) = noVal
    PROVE  p = <<1, 0>>
<1>1. p[1] \in Live /\ p[2] \in {0, 1} /\ p = <<p[1], p[2]>> /\ p[1] \in Blocks
  BY AfterFacts, FoundFacts DEF Solved
<1>2. p[2] = 0 /\ memtag[p[1]] = noVal
  BY <1>1 DEF Solved, TagsSolved, TagAt
<1>3. ASSUME p[1] # 1
      PROVE  FALSE
  <2>1. live \in Seq(Blocks) /\ Len(live) \in Nat /\ live[1] = 1
    BY DEF Solved, GraphFound, Discovered
  <2>2. PICK n \in 1..Len(live) : live[n] = p[1]
    BY <1>1, <2>1, Positions
  <2>3. n > 1
    BY <1>3, <2>1, <2>2
  <2>4. PICK k \in 1..(n - 1) : live[n] \in Targets(live[k])
    BY <2>3 DEF Solved, GraphFound, Discovered
  <2>5. live[k] \in Live
    <3>1. k \in 1..Len(live)
      BY <2>1, <2>2
    <3> QED
      BY <2>1, <3>1, Positions
  <2>6. live[k] \in comeFrom[p[1]] /\ comeFrom[p[1]] \subseteq Blocks
    BY <1>1, <2>2, <2>4, <2>5, FoundFacts DEF Solved, GraphFound
  <2>7. memout[live[k]] # noVal
    BY <2>5 DEF Solved, TagsSolved
  <2>8. Incoming(p[1]) # {} /\ Incoming(p[1]) \subseteq Tags
    BY <2>6, <2>7, IncomingTags DEF Solved, TagsSolved
  <2>9. Merged(p[1]) # noVal
    BY <1>1, <2>6, <2>8, MergedCases, IncomingTags, TagNumbers DEF Solved, TagsSolved
  <2> QED
    BY <1>1, <1>2, <2>9 DEF Solved, TagsSolved
<1> QED
  BY <1>1, <1>2, <1>3

(* Where a tag is not made it comes from every point before.               *)
LEMMA TagComesIn ==
    ASSUME Solved, NEW x \in Points, NEW y \in After(x), NEW d \in Points,
           TagAt(y) # noVal, TagMadeAt(TagAt(y), d), y # d
    PROVE  TagAt(x) = TagAt(y)
<1>1. GraphFound /\ TagsFlow
  BY DEF Solved, TagsSolved
<1>2. y \in Points /\ x[1] \in Live /\ y[1] \in Live /\ y = <<y[1], y[2]>> /\ y[1] \in Blocks
  BY <1>1, AfterFacts, FoundFacts
<1>3. CASE x[2] = 0
  <2>1. y[1] = x[1] /\ y[2] = 1
    BY <1>1, <1>3, AfterFacts
  <2>2. TagAt(y) = memout[x[1]] /\ TagAt(x) = memtag[x[1]]
    BY <1>3, <2>1 DEF TagAt
  <2>3. x[1] \in effects => FALSE
    <3> SUFFICES ASSUME x[1] \in effects PROVE FALSE
      OBVIOUS
    <3>1. TagAt(y) = Effect(x[1])
      BY <1>1, <2>2 DEF TagsFlow
    <3>2. y = <<x[1], 1>>
      BY <1>2, <2>1
    <3> QED
      BY <1>1, <1>2, <3>1, <3>2, TagMadeOnce
  <2> QED
    BY <1>1, <1>2, <2>2, <2>3 DEF TagsFlow
<1>4. CASE x[2] = 1
  <2>1. y[2] = 0 /\ y[1] \in Targets(x[1])
    BY <1>1, <1>4, AfterFacts
  <2>2. TagAt(y) = memtag[y[1]] /\ TagAt(x) = memout[x[1]] /\ memout[x[1]] # noVal
    BY <1>2, <1>4, <2>1 DEF TagAt, Solved, TagsSolved
  <2>3. x[1] \in comeFrom[y[1]] /\ comeFrom[y[1]] \subseteq Blocks
    BY <1>1, <1>2, <2>1, FoundFacts DEF GraphFound
  <2>4. memout[x[1]] \in Incoming(y[1])
    BY <1>1, <2>2, <2>3, IncomingTags
  <2>5. memtag[y[1]] = Merged(y[1])
    BY <1>2 DEF Solved, TagsSolved
  <2>6. Merged(y[1]) # Last(y[1])
    <3>1. y = <<y[1], 0>>
      BY <1>2, <2>1
    <3> QED
      BY <1>1, <1>2, <2>2, <2>5, <3>1, TagMadeOnce
  <2>7. Incoming(y[1]) = {Merged(y[1])}
    BY <2>4, <2>6, MergedCases
  <2> QED
    BY <2>2, <2>4, <2>5, <2>7
<1> QED
  BY <1>2, <1>3, <1>4, AfterFacts DEF Points

(* The point where a tag is made is on every path to where it is found.    *)
LEMMA TagMadeBefore ==
    ASSUME Solved, NEW p \in Points, NEW d \in Points,
           TagAt(p) # noVal, TagMadeAt(TagAt(p), d)
    PROVE  PointDominates(d, p)
<1> DEFINE t == TagAt(p)
           Y == { x \in Points : TagAt(x) # t }
<1>1. GraphFound /\ t # noVal /\ TagMadeAt(t, d)
  BY DEF Solved
<1>2. PointsClosed(Y, d)
  <2> SUFFICES ASSUME NEW x \in Y, NEW y \in After(x), y # d
               PROVE  y \in Y
    BY DEF PointsClosed
  <2>1. x \in Points /\ TagAt(x) # t /\ y \in Points
    BY <1>1, AfterFacts
  <2>2. TagAt(y) # t
    <3> HIDE DEF t
    <3> QED
      BY <1>1, <2>1, TagComesIn
  <2> QED
    BY <2>1, <2>2
<1>3. <<1, 0>> \in Y
  <2>1. <<1, 0>> \in Points /\ TagAt(<<1, 0>>) = noVal
    BY <1>1, FoundFacts, EntryUntagged DEF Points, TagAt
  <2> QED
    BY <1>1, <2>1
<1>4. Off(d) \subseteq Y
  <2> HIDE DEF Y
  <2> QED
    BY <1>1, <1>2, <1>3, OffLeast
<1> QED
  BY <1>4 DEF Off

LEMMA SolvedSameMemory ==
    ASSUME Solved, NEW p \in Points, NEW q \in Points \ {p},
           TagAt(p) = TagAt(q), PointDominates(p, q)
    PROVE  q \notin Changed(p)
<1> DEFINE t == TagAt(p)
<1>1. GraphFound /\ TagsFlow
  BY DEF Solved, TagsSolved
<1>2. t # noVal
  BY OnlyEntryUntagged
<1>3. PICK d \in Points : TagMadeAt(t, d)
  BY <1>2, TagHasPoint
<1>4. d = p \/ d \in Off(p)
  <2>1. PointDominates(d, p)
    BY <1>2, <1>3, TagMadeBefore
  <2> QED
    BY <1>1, <2>1, PointsAntisymmetric DEF Off
<1>5. Points \subseteq Blocks \X {0, 1}
  BY <1>1, FoundFacts DEF Points
<1> DEFINE X == { x \in Points : TagAt(x) # t \/ x \in Off(p) }
<1>6. PointsClosed(X, p)
  <2> SUFFICES ASSUME NEW x \in X, NEW y \in After(x), y # p
               PROVE  y \in X
    BY DEF PointsClosed
  <2>1. x \in Points /\ y \in Points
    BY <1>1, AfterFacts
  <2>2. CASE x \in Off(p)
    BY <1>1, <2>1, <2>2, OffClosed DEF PointsClosed
  <2>3. CASE TagAt(x) # t /\ TagAt(y) = t
    <3>1. y = d
      <4> HIDE DEF t
      <4> QED
        BY <1>2, <1>3, <2>1, <2>3, TagComesIn
    <3> QED
      BY <1>4, <2>1, <3>1
  <2>4. CASE TagAt(y) # t
    BY <2>1, <2>4
  <2> QED
    BY <2>2, <2>3, <2>4
<1> DEFINE S == { <<b, 1>> : b \in { x \in effects : <<x, 0>> \in From({p}, p) } } \ {p}
<1>7. S \subseteq X
  <2> SUFFICES ASSUME NEW b \in effects, <<b, 1>> # p
               PROVE  <<b, 1>> \in X
    OBVIOUS
  <2>1. b \in Live /\ <<b, 1>> \in Points /\ TagAt(<<b, 1>>) = Effect(b)
    BY <1>1 DEF TagsFlow, TagAt, Points
  <2>2. CASE Effect(b) # t
    BY <2>1, <2>2
  <2>3. CASE Effect(b) = t
    <3>1. d = <<b, 1>>
      BY <1>1, <1>3, <2>1, <2>3, TagMadeOnce
    <3> QED
      BY <1>4, <2>1, <3>1
  <2> QED
    BY <2>2, <2>3
<1>8. S \subseteq Blocks \X {0, 1}
  BY <1>5, <1>7
<1>9. Changed(p) \subseteq X
  <2>1. Changed(p) = From(S, p)
    BY DEF Changed
  <2> HIDE DEF S, X
  <2> QED
    BY <1>1, <1>6, <1>7, <1>8, <2>1, FoundFacts, FromLeast
<1> QED
  BY <1>9 DEF Off

-----------------------------------------------------------------------------
(* The closest common dominator.                                           *)

LEMMA ClosestExists ==
    ASSUME GraphFound, NEW b \in Live, NEW c \in Live
    PROVE  /\ ClosestCommon(b, c) \in TrueDom(b) \cap TrueDom(c)
           /\ TrueDom(ClosestCommon(b, c)) = TrueDom(b) \cap TrueDom(c)
<1> DEFINE S == TrueDom(b) \cap TrueDom(c)
           N == Cardinality(Blocks)
           T == { N - Cardinality(TrueDom(d)) : d \in S }
<1>1. /\ S \subseteq Live /\ Live \subseteq Blocks /\ Live = Reach(1, {}) /\ Graph
      /\ \A d \in Live : TrueDom(d) \subseteq Live
  BY FoundFacts DEF TrueDom
<1>2. 1 \in S
  BY <1>1, FoundFacts, ReachNone DEF TrueDom, Dominates
<1>3. /\ N \in Nat
      /\ \A d \in Live : /\ IsFiniteSet(TrueDom(d)) /\ Cardinality(TrueDom(d)) \in Nat
                         /\ Cardinality(TrueDom(d)) <= N
  BY <1>1, BlocksAssumption, FS_Subset, FS_CardinalityType
<1>4. /\ \A d \in S : d \in TrueDom(d) /\ TrueDom(d) \subseteq S
      /\ \A d, e \in S : d \in TrueDom(e) \/ e \in TrueDom(d)
  BY <1>1, DomChain
<1> HIDE DEF N
<1>5. T \subseteq Nat /\ T # {}
  <2> HIDE DEF S
  <2> QED
    BY <1>1, <1>2, <1>3
<1>6. PICK x \in T : \A y \in T : x <= y
  <2> HIDE DEF T
  <2> QED
    BY <1>5, LeastNumber
<1>7. PICK d \in S : x = N - Cardinality(TrueDom(d))
  OBVIOUS
<1>8. ASSUME NEW e \in S, e \notin TrueDom(d)
      PROVE  FALSE
  <2>1. d \in TrueDom(e) /\ e \in Live /\ d \in Live
    BY <1>1, <1>4, <1>8
  <2>2. TrueDom(d) \subseteq TrueDom(e) /\ e \in TrueDom(e)
    BY <1>1, <2>1, DomChain
  <2>3. TrueDom(d) # TrueDom(e)
    BY <1>8, <2>2
  <2>4. Cardinality(TrueDom(d)) < Cardinality(TrueDom(e))
    BY <1>3, <2>1, <2>2, <2>3, FS_Subset
  <2>5. x <= N - Cardinality(TrueDom(e))
    BY <1>6
  <2> HIDE DEF S, T
  <2> QED
    BY <1>3, <1>7, <2>1, <2>4, <2>5
<1>9. TrueDom(d) = S
  BY <1>4, <1>7, <1>8
<1> QED
  BY <1>7, <1>9 DEF ClosestCommon

LEMMA SolvedCommonTag ==
    ASSUME Solved, NEW b \in Live, NEW c \in Live, memtag[b] = memtag[c],
           ClosestCommon(b, c) \notin {b, c}
    PROVE  memout[ClosestCommon(b, c)] = memtag[b]
<1> DEFINE d == ClosestCommon(b, c)
           t == memtag[b]
<1>1. GraphFound /\ Graph /\ Live = Reach(1, {}) /\ Live \subseteq Blocks /\ 1 \in Live
  BY FoundFacts DEF Solved
<1>2. d \in TrueDom(b) /\ d \in TrueDom(c) /\ TrueDom(d) = TrueDom(b) \cap TrueDom(c)
      /\ d # b /\ d # c /\ d \in Live
  BY <1>1, ClosestExists DEF TrueDom
<1>3. <<b, 0>> \in Points /\ <<c, 0>> \in Points /\ TagAt(<<b, 0>>) = t /\ TagAt(<<c, 0>>) = t
  BY DEF Points, TagAt
<1> HIDE DEF d
<1>4. t # noVal
  <2> SUFFICES ASSUME t = noVal PROVE FALSE
    OBVIOUS
  <2>1. b = 1
    <3>1. <<b, 0>> = <<1, 0>>
      BY <1>3, OnlyEntryUntagged
    <3> QED
      BY <3>1
  <2>2. d \in Reach(1, {}) /\ d # 1 /\ 1 \notin Reach(1, {d}) /\ d \in Blocks
    BY <1>1, <1>2, <2>1 DEF TrueDom, Dominates
  <2> QED
    BY <1>1, <2>2, ReachClosed DEF Graph
<1>5. PICK e \in Points : TagMadeAt(t, e)
  BY <1>3, <1>4, TagHasPoint
<1>6. e[1] \in Live /\ e[2] \in {0, 1} /\ e = <<e[1], e[2]>>
  BY <1>1, AfterFacts
<1>7. e[1] \in TrueDom(b) /\ e[1] \in TrueDom(c)
  <2>1. PointDominates(e, <<b, 0>>) /\ PointDominates(e, <<c, 0>>)
    <3> HIDE DEF t
    <3> QED
      BY <1>3, <1>4, <1>5, TagMadeBefore
  <2>2. \A x \in Live : PointDominates(e, <<x, 0>>) => e[1] \in TrueDom(x)
    BY <1>1, <1>6, DomChain DEF PointDominates, TrueDom
  <2> QED
    BY <2>1, <2>2
<1>8. e[1] = d \/ e[1] \in Reach(1, {d})
  <2>1. e[1] \in TrueDom(d)
    BY <1>2, <1>7
  <2>2. e[1] # d => d \notin TrueDom(e[1])
    BY <1>1, <1>2, <2>1, DomChain
  <2> QED
    BY <1>1, <1>2, <2>2 DEF TrueDom, Dominates
<1> SUFFICES ASSUME memout[d] # t
             PROVE  FALSE
  BY DEF d
<1> DEFINE X == { x \in Live : x = d \/ x \in Reach(1, {d}) \/ memtag[x] # t }
<1>9. Closed(X, {})
  <2> SUFFICES ASSUME NEW x \in X, NEW y \in Targets(x)
               PROVE  y \in X
    BY DEF Closed
  <2>1. x \in Live /\ y \in Live
    BY <1>1, FoundFacts
  <2>2. CASE x \in Reach(1, {d})
    BY <1>1, <1>2, <2>1, <2>2, FoundFacts DEF Closed
  <2>3. CASE memout[x] # t /\ memtag[y] = t
    <3>1. /\ <<x, 1>> \in Points /\ <<y, 0>> \in After(<<x, 1>>)
          /\ TagAt(<<x, 1>>) = memout[x] /\ TagAt(<<y, 0>>) = t
      BY <2>1, <2>3 DEF Points, After, TagAt
    <3>2. <<y, 0>> = e
      <4> HIDE DEF t
      <4> QED
        BY <1>4, <1>5, <2>3, <3>1, TagComesIn
    <3>3. y = e[1]
      BY <3>2
    <3> QED
      BY <1>8, <2>1, <3>3
  <2>4. CASE memout[x] # t /\ memtag[y] # t
    BY <2>1, <2>4
  <2>5. CASE memout[x] = t /\ memtag[x] # t /\ x # d
    <3>1. /\ <<x, 0>> \in Points /\ <<x, 1>> \in After(<<x, 0>>)
          /\ TagAt(<<x, 0>>) = memtag[x] /\ TagAt(<<x, 1>>) = t
      BY <2>1, <2>5 DEF Points, After, TagAt
    <3>2. <<x, 1>> = e
      <4> HIDE DEF t
      <4> QED
        BY <1>4, <1>5, <2>5, <3>1, TagComesIn
    <3>3. x = e[1]
      BY <3>2
    <3>4. x \in Reach(1, {d})
      BY <1>8, <2>5, <3>3
    <3> QED
      BY <2>2, <3>4
  <2> QED
    BY <2>1, <2>2, <2>3, <2>4, <2>5
<1>10. 1 \in X
  BY <1>1, <1>4, EntryUntagged
<1>11. Reach(1, {}) \subseteq X
  <2> HIDE DEF X
  <2>1. {1} \ {} \subseteq X
    BY <1>10
  <2> QED
    BY <1>1, <1>9, <2>1, ReachLeast DEF Graph
<1>12. b \in X
  BY <1>1, <1>11
<1> QED
  BY <1>2, <1>12 DEF TrueDom, Dominates

-----------------------------------------------------------------------------
(* Two loads at points with one tag, one on every path to the other, see   *)
(* the same memory: no side effect is on a path between them, whatever     *)
(* loops and merges are (Proc::rebuild_memtags, for opt_cse).              *)
THEOREM TagsNameMemory == TagsSpec => []SameTagSameMemory
<1>1. TagsInv => SameTagSameMemory
  BY SolvedSameMemory DEF TagsInv, SameTagSameMemory, Solved
<1> QED
  BY <1>1, TagsAlways, PTL

(* A tag that two blocks share is the one out of their closest common      *)
(* dominator, where opt_cse moves the load (its assertion there).          *)
THEOREM SharedTagAtDominator == TagsSpec => []CommonTagAtDominator
<1>1. TagsInv => CommonTagAtDominator
  BY SolvedCommonTag DEF TagsInv, CommonTagAtDominator, Solved
<1> QED
  BY <1>1, TagsAlways, PTL
=============================================================================
