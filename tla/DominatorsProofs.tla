-------------------------- MODULE DominatorsProofs --------------------------
(***************************************************************************)
(* What rebuild_dom computes, for every control flow graph: the dominators *)
(* by paths, the tree that idom makes of them, and the immediate           *)
(* post-dominators.                                                        *)
(*                                                                         *)
(* First the sweeps: sets only shrink, so the comparison of sizes sees     *)
(* every change, and when the sweeps end the sets are the largest solution *)
(* of the equations of dominance.                                          *)
(*                                                                         *)
(* Then paths.  The blocks on them, Reach, are shown to be the least set   *)
(* that no edge leaves, by induction on the length of paths; all that      *)
(* follows is about such sets.  Dominators are the largest solution        *)
(* because what a block of a solution is not reached off is a set of this  *)
(* kind.  That they are a chain, so that the one with one less is the      *)
(* closest, is four inclusions between such sets.                          *)
(***************************************************************************)
EXTENDS Dominators, SetInduction

(* What one step makes of the set of a block.                              *)
PdomOf(b) == Common(Targets(b)) \cup {b}
DomOf(b) == Common(comeFrom[b]) \cup {b}

(* Sets never fall below what a step would make of them.                   *)
Above ==
    /\ pc = "pdom" => \A b \in Live : ~IsExit(b) => PdomOf(b) \subseteq dom[b]
    /\ pc \in {"dom", "done"} =>
            dom[1] = {1} /\ \A b \in Live \ {1} : DomOf(b) \subseteq dom[b]

(* A sweep that has not changed anything leaves solved blocks behind.      *)
Swept ==
    pc = "dom" /\ ~iterate =>
        \A n \in 1..Len(live) : n < at /\ live[n] # 1 => dom[live[n]] = DomOf(live[n])

EntryLive == Len(live) > 0 /\ live[1] = 1

(* A backward sweep begins at the end of live.                             *)
AtInLive == pc = "pdom" => at <= Len(live)

AtPositive == pc = "dom" => at > 0

IInv == TypeOK /\ AtInLive /\ AtPositive /\ EntryLive /\ Above /\ Swept /\ DomSolved

-----------------------------------------------------------------------------
LEMMA LiveInBlocks ==
    ASSUME live \in Seq(Blocks) PROVE Live \subseteq Blocks
BY DEF Live

LEMMA CommonInBlocks ==
    ASSUME live \in Seq(Blocks), NEW S PROVE Common(S) \subseteq Blocks
BY LiveInBlocks DEF Common

(* With sets that have shrunk, what blocks share has shrunk too.           *)
LEMMA CommonShrinks ==
    ASSUME NEW S, UNCHANGED live, \A s \in S : dom'[s] \subseteq dom[s]
    PROVE  Common(S)' \subseteq Common(S)
BY DEF Common, Live

(* A step that shrinks a set and keeps its size has not changed it.        *)
LEMMA SameSize ==
    ASSUME TypeOK, NEW b \in Blocks, NEW new, new \subseteq dom[b],
           Update(b, new), ~iterate'
    PROVE  dom' = dom /\ ~iterate /\ new = dom[b]
<1>1. dom[b] \subseteq Blocks
  BY DEF TypeOK
<1>2. IsFiniteSet(dom[b])
  BY <1>1, BlocksAssumption, FS_Subset
<1>3. Cardinality(new) = Cardinality(dom[b]) /\ ~iterate
  BY DEF Update
<1>4. new = dom[b]
  BY <1>2, <1>3, FS_Subset
<1> QED
  BY <1>3, <1>4 DEF Update, TypeOK


LEMMA UpdateShrinks ==
    ASSUME TypeOK, NEW b \in Blocks, NEW new, new \subseteq dom[b], Update(b, new)
    PROVE  /\ dom' \in [Blocks -> SUBSET Blocks]
           /\ iterate' \in BOOLEAN
           /\ dom'[b] = new
           /\ \A c \in Blocks : dom'[c] \subseteq dom[c]
           /\ \A c \in Blocks \ {b} : dom'[c] = dom[c]
<1>1. new \subseteq Blocks /\ iterate \in BOOLEAN /\ dom \in [Blocks -> SUBSET Blocks]
  BY DEF TypeOK
<1>2. iterate' \in BOOLEAN
  BY <1>1, Zenon DEF Update
<1>3. dom' = [dom EXCEPT ![b] = new]
  BY DEF Update
<1> QED
  BY <1>1, <1>2, <1>3

LEMMA Positions ==
    ASSUME live \in Seq(Blocks)
    PROVE  /\ \A n \in 1..Len(live) : live[n] \in Blocks /\ live[n] \in Live
           /\ \A b \in Live : \E n \in 1..Len(live) : live[n] = b
BY DEF Live

LEMMA NewLabelsType ==
    ASSUME TypeOK, NEW b \in Blocks PROVE NewLabels(b) \in Seq(Blocks)
<1>1. label[b] \in Seq(Blocks)
  BY DEF TypeOK
<1>2. \A k \in DOMAIN label[b] : <<label[b][k]>> \in Seq(Blocks)
  BY <1>1
<1> QED
  BY <1>1, <1>2 DEF NewLabels

LEMMA ImmediateType ==
    ASSUME TypeOK, NEW b \in Blocks, NEW none
    PROVE  Immediate(b, none) \in Blocks \cup {none}
<1>1. OneLess(b) \subseteq Blocks
  BY DEF OneLess, TypeOK
<1> QED
  BY <1>1 DEF Immediate

-----------------------------------------------------------------------------
LEMMA InitIInv == Init => IInv
<1> SUFFICES ASSUME Init PROVE IInv
  OBVIOUS
<1>1. 1 \in Blocks /\ <<1>> \in Seq(Blocks)
  BY BlocksAssumption
<1>2. live \in Seq(Blocks) /\ todo \in Seq(Blocks) /\ at \in 0..(Len(live) + 1)
  BY <1>1 DEF Init
<1>a. pdom \in [Blocks -> Blocks \cup {noVal}] /\ idom \in [Blocks -> Blocks \cup {noVal}]
  BY DEF Init
<1>b. dom \in [Blocks -> SUBSET Blocks] /\ comeFrom \in [Blocks -> SUBSET Blocks]
  BY DEF Init
<1>c. TypeOK
  BY <1>2, <1>a, <1>b, GraphsAssumption DEF Init, TypeOK
<1>3. AtInLive /\ AtPositive /\ EntryLive /\ Above /\ Swept /\ DomSolved
  BY DEF Init, AtInLive, AtPositive, EntryLive, Above, Swept, DomSolved
<1> QED
  BY <1>c, <1>3 DEF IInv

LEMMA WalkKeeps == IInv /\ walk => IInv'
<1> SUFFICES ASSUME IInv, walk PROVE IInv'
  OBVIOUS
<1> DEFINE b == todo[Len(todo)]
<1>1. todo \in Seq(Blocks) /\ live \in Seq(Blocks) /\ todo # << >> /\ b \in Blocks
  BY DEF IInv, TypeOK, walk
<1>2. NewLabels(b) \in Seq(Blocks)
  BY <1>1, NewLabelsType DEF IInv
<1>3. /\ SubSeq(todo, 1, Len(todo) - 1) \in Seq(Blocks)
      /\ todo' = SubSeq(todo, 1, Len(todo) - 1) \o NewLabels(b)
      /\ live' = live \o NewLabels(b)
  BY <1>1 DEF walk
<1>4. todo' \in Seq(Blocks) /\ live' \in Seq(Blocks) /\ Len(live') >= Len(live)
  BY <1>1, <1>2, <1>3
<1>5. TypeOK'
  BY <1>1, <1>4 DEF IInv, TypeOK, walk
<1>6. EntryLive'
  BY <1>1, <1>2, <1>3 DEF IInv, EntryLive
<1>7. pc' = "cfg"
  BY DEF walk
<1> QED
  BY <1>5, <1>6, <1>7 DEF IInv, AtInLive, AtPositive, Above, Swept, DomSolved

LEMMA BeginPdomKeeps == IInv /\ beginPdom => IInv'
<1> SUFFICES ASSUME IInv, beginPdom PROVE IInv'
  OBVIOUS
<1>1. Live \subseteq Blocks /\ Live' = Live /\ live \in Seq(Blocks)
  BY LiveInBlocks DEF IInv, TypeOK, beginPdom, Live
<1>2. comeFrom' \in [Blocks -> SUBSET Blocks] /\ dom' \in [Blocks -> SUBSET Blocks]
  BY <1>1 DEF IInv, TypeOK, beginPdom
<1>a. Len(live) \in 0..(Len(live) + 1)
  BY <1>1
<1>3. TypeOK'
  BY <1>1, <1>2, <1>a DEF IInv, TypeOK, beginPdom
<1>4. \A b \in Live : ~IsExit(b) => PdomOf(b)' \subseteq dom'[b]
  BY <1>1 DEF beginPdom, PdomOf, Common, IsExit
<1>5. Above'
  BY <1>1, <1>4 DEF Above, beginPdom, IsExit
<1>6. AtInLive' /\ EntryLive' /\ Swept' /\ DomSolved' /\ AtPositive'
  BY <1>1 DEF IInv, AtInLive, EntryLive, Swept, DomSolved, AtPositive, beginPdom
<1> QED
  BY <1>3, <1>5, <1>6 DEF IInv

LEMMA PdomStepKeeps == IInv /\ pdomStep => IInv' /\ \A b \in Blocks : dom'[b] \subseteq dom[b]
<1> SUFFICES ASSUME IInv, pdomStep
             PROVE  IInv' /\ \A b \in Blocks : dom'[b] \subseteq dom[b]
  OBVIOUS
<1> DEFINE b == live[at]
<1>1. /\ TypeOK /\ Live' = Live /\ live \in Seq(Blocks) /\ at \in 1..Len(live) + 1
      /\ Len(live) \in Nat
  BY DEF IInv, TypeOK, pdomStep, Live
<1>a. at <= Len(live)
  BY DEF IInv, AtInLive, pdomStep
<1>2. b \in Blocks /\ b \in Live
  BY <1>1, <1>a, Positions
<1>3. /\ dom' \in [Blocks -> SUBSET Blocks] /\ iterate' \in BOOLEAN
      /\ \A c \in Blocks : dom'[c] \subseteq dom[c]
      /\ \A c \in Blocks \ {b} : dom'[c] = dom[c]
      /\ ~IsExit(b) => dom'[b] = PdomOf(b)
  <2>1. CASE IsExit(b)
    BY <1>1, <2>1 DEF pdomStep, TypeOK
  <2>2. CASE ~IsExit(b)
    <3>1. PdomOf(b) \subseteq dom[b] /\ Update(b, PdomOf(b))
      BY <1>2, <2>2 DEF IInv, Above, pdomStep, PdomOf
    <3> QED
      BY <1>1, <1>2, <2>2, <3>1, UpdateShrinks
  <2> QED
    BY <2>1, <2>2
<1>4. TypeOK'
  BY <1>1, <1>3 DEF TypeOK, pdomStep
<1>5. Above'
  <2>1. ASSUME NEW c \in Live, ~IsExit(c) PROVE PdomOf(c)' \subseteq dom'[c]
    <3>1. c \in Blocks /\ Targets(c) \subseteq Blocks /\ Targets(c)' = Targets(c)
      BY <1>1, LiveInBlocks DEF TypeOK, Targets, pdomStep
    <3>2. Common(Targets(c))' \subseteq Common(Targets(c))
      BY <1>3, <3>1, CommonShrinks DEF pdomStep, Common, Live
    <3>3. PdomOf(c)' \subseteq PdomOf(c)
      BY <3>2 DEF PdomOf
    <3>4. PdomOf(c) \subseteq dom[c]
      BY <2>1 DEF IInv, Above, pdomStep
    <3> QED
      BY <1>3, <2>1, <3>1, <3>3, <3>4
  <2> QED
    BY <1>1, <2>1 DEF Above, pdomStep, IsExit
<1>6. EntryLive' /\ Swept' /\ DomSolved' /\ AtInLive' /\ AtPositive'
  BY <1>1, <1>a DEF IInv, EntryLive, Swept, DomSolved, AtPositive, AtInLive, pdomStep
<1> QED
  BY <1>3, <1>4, <1>5, <1>6 DEF IInv

LEMMA PdomAgainKeeps == IInv /\ pdomAgain => IInv'
<1> SUFFICES ASSUME IInv, pdomAgain PROVE IInv'
  OBVIOUS
<1>1. Live' = Live /\ live \in Seq(Blocks) /\ Len(live) \in 0..(Len(live) + 1)
  BY DEF IInv, TypeOK, pdomAgain, Live
<1>2. TypeOK'
  BY <1>1 DEF IInv, TypeOK, pdomAgain
<1>3. \A b \in Live : IsExit(b)' = IsExit(b) /\ PdomOf(b)' = PdomOf(b)
  BY <1>1 DEF pdomAgain, IsExit, PdomOf, Common, Targets
<1>4. Above'
  BY <1>1, <1>3 DEF IInv, Above, pdomAgain
<1>5. AtInLive' /\ EntryLive' /\ Swept' /\ DomSolved' /\ AtPositive'
  BY <1>1 DEF IInv, AtInLive, EntryLive, Swept, DomSolved, AtPositive, pdomAgain
<1> QED
  BY <1>2, <1>4, <1>5 DEF IInv

LEMMA BeginDomKeeps == IInv /\ beginDom => IInv'
<1> SUFFICES ASSUME IInv, beginDom PROVE IInv'
  OBVIOUS
<1>1. /\ TypeOK /\ Live' = Live /\ Live \subseteq Blocks /\ live \in Seq(Blocks)
      /\ 1 \in 0..(Len(live) + 1) /\ 1 \in Live /\ 1 \in Blocks
  BY LiveInBlocks, BlocksAssumption DEF IInv, EntryLive, TypeOK, beginDom, Live
<1>2. dom' \in [Blocks -> SUBSET Blocks]
  BY <1>1 DEF TypeOK, beginDom
<1>3. pdom' \in [Blocks -> Blocks \cup {noVal}]
  BY <1>1, ImmediateType DEF TypeOK, beginDom
<1>4. TypeOK'
  BY <1>1, <1>2, <1>3 DEF TypeOK, beginDom
<1>5. Above'
  <2>1. dom'[1] = {1}
    BY <1>1 DEF beginDom
  <2>2. ASSUME NEW b \in Live \ {1} PROVE DomOf(b)' \subseteq dom'[b]
    BY <1>1 DEF beginDom, DomOf, Common
  <2> QED
    BY <1>1, <2>1, <2>2 DEF Above, beginDom
<1>6. Swept'
  BY <1>1 DEF Swept, beginDom
<1>7. AtInLive' /\ EntryLive' /\ DomSolved' /\ AtPositive'
  BY DEF IInv, AtInLive, EntryLive, DomSolved, AtPositive, beginDom
<1> QED
  BY <1>4, <1>5, <1>6, <1>7 DEF IInv

LEMMA DomStepKeeps ==
    IInv /\ domStep => IInv' /\ \A b \in Blocks : dom'[b] \subseteq dom[b]
<1> SUFFICES ASSUME IInv, domStep
             PROVE  IInv' /\ \A b \in Blocks : dom'[b] \subseteq dom[b]
  OBVIOUS
<1> DEFINE b == live[at]
<1>1. /\ TypeOK /\ Live' = Live /\ live \in Seq(Blocks) /\ Len(live) \in Nat
      /\ at \in 0..(Len(live) + 1) /\ at <= Len(live) /\ pc = "dom" /\ pc' = "dom"
      /\ at' = at + 1 /\ live' = live /\ comeFrom' = comeFrom
  BY DEF IInv, TypeOK, domStep, Live
<1>2. at > 0
  BY DEF IInv, AtPositive, domStep
<1>3. b \in Blocks /\ b \in Live /\ Live \subseteq Blocks
  BY <1>1, <1>2, Positions, LiveInBlocks
<1>4. b # 1 => DomOf(b) \subseteq dom[b] /\ Update(b, DomOf(b))
  BY <1>1, <1>3 DEF IInv, Above, domStep, DomOf
<1>5. /\ dom' \in [Blocks -> SUBSET Blocks] /\ iterate' \in BOOLEAN
      /\ \A c \in Blocks : dom'[c] \subseteq dom[c]
      /\ \A c \in Blocks \ {b} : dom'[c] = dom[c]
      /\ b # 1 => dom'[b] = DomOf(b)
      /\ b = 1 => dom' = dom
  <2>1. CASE b = 1
    BY <1>1, <2>1 DEF domStep, TypeOK
  <2>2. CASE b # 1
    BY <1>1, <1>3, <1>4, <2>2, UpdateShrinks
  <2> QED
    BY <2>1, <2>2
<1>6. TypeOK'
  BY <1>1, <1>2, <1>5 DEF TypeOK, domStep
<1>7. ASSUME NEW c \in Live \ {1} PROVE DomOf(c)' \subseteq DomOf(c) /\ DomOf(c) \subseteq dom[c]
  <2>1. comeFrom[c] \subseteq Blocks
    BY <1>1, <1>3 DEF TypeOK
  <2>2. Common(comeFrom[c])' \subseteq Common(comeFrom[c])
    BY <1>1, <1>5, <2>1 DEF Common, Live
  <2> QED
    BY <1>1, <2>2 DEF IInv, Above, DomOf
<1>8. Above'
  <2>1. dom'[1] = {1}
    BY <1>1, <1>3, <1>5, BlocksAssumption DEF IInv, Above
  <2>2. ASSUME NEW c \in Live \ {1} PROVE DomOf(c)' \subseteq dom'[c]
    BY <1>3, <1>5, <1>7
  <2> QED
    BY <1>1, <2>1, <2>2 DEF Above
<1>9. Swept'
  <2> SUFFICES ASSUME ~iterate', NEW n \in 1..Len(live), n < at + 1, live[n] # 1
               PROVE  dom'[live[n]] = DomOf(live[n])'
    BY <1>1 DEF Swept
  <2>1. dom' = dom /\ ~iterate
    <3>1. CASE b = 1
      BY <1>1, <3>1 DEF domStep
    <3>2. CASE b # 1
      BY <1>1, <1>3, <1>4, <3>2, SameSize
    <3> QED
      BY <3>1, <3>2
  <2>2. DomOf(live[n])' = DomOf(live[n])
    BY <1>1, <2>1 DEF DomOf, Common, Live
  <2>3. CASE n = at
    BY <1>5, <2>2, <2>3
  <2>4. CASE n < at
    BY <1>1, <2>1, <2>2, <2>4 DEF IInv, Swept
  <2> QED
    BY <1>1, <2>3, <2>4
<1>10. AtInLive' /\ AtPositive' /\ EntryLive' /\ DomSolved'
  BY <1>1 DEF IInv, AtInLive, AtPositive, EntryLive, DomSolved
<1> QED
  BY <1>5, <1>6, <1>8, <1>9, <1>10 DEF IInv

LEMMA DomAgainKeeps == IInv /\ domAgain => IInv'
<1> SUFFICES ASSUME IInv, domAgain PROVE IInv'
  OBVIOUS
<1>1. Live' = Live /\ live \in Seq(Blocks) /\ 1 \in 0..(Len(live) + 1)
  BY DEF IInv, TypeOK, domAgain, Live
<1>2. TypeOK'
  BY <1>1 DEF IInv, TypeOK, domAgain
<1>3. \A b \in Live : DomOf(b)' = DomOf(b)
  BY <1>1 DEF domAgain, DomOf, Common
<1>4. Above'
  BY <1>1, <1>3 DEF IInv, Above, domAgain
<1>5. AtInLive' /\ AtPositive' /\ EntryLive' /\ Swept' /\ DomSolved'
  BY <1>1 DEF IInv, AtInLive, AtPositive, EntryLive, Swept, DomSolved, domAgain
<1> QED
  BY <1>2, <1>4, <1>5 DEF IInv

LEMMA EndDomKeeps == IInv /\ endDom => IInv'
<1> SUFFICES ASSUME IInv, endDom PROVE IInv'
  OBVIOUS
<1>1. /\ TypeOK /\ Live' = Live /\ Live \subseteq Blocks /\ live \in Seq(Blocks)
      /\ Len(live) \in Nat /\ at > Len(live) /\ at \in Int /\ ~iterate /\ pc = "dom"
      /\ pc' = "done" /\ live' = live /\ dom' = dom /\ comeFrom' = comeFrom
  BY LiveInBlocks DEF IInv, TypeOK, endDom, Live
<1>2. idom' \in [Blocks -> Blocks \cup {noVal}]
  BY <1>1, ImmediateType, BlocksAssumption DEF TypeOK, endDom
<1>3. TypeOK'
  BY <1>1, <1>2 DEF TypeOK, endDom
<1>4. \A b \in Live : DomOf(b)' = DomOf(b)
  BY <1>1 DEF DomOf, Common
<1>5. Above'
  BY <1>1, <1>4 DEF IInv, Above
<1>6. ASSUME NEW b \in Live \ {1} PROVE dom[b] = DomOf(b)
  <2>1. PICK n \in 1..Len(live) : live[n] = b
    BY <1>1, Positions
  <2> QED
    BY <1>1, <2>1 DEF IInv, Swept
<1>7. DomSolved'
  BY <1>1, <1>4, <1>6 DEF IInv, Above, DomSolved, DomOf
<1>8. AtInLive' /\ AtPositive' /\ EntryLive' /\ Swept'
  BY <1>1 DEF IInv, AtInLive, AtPositive, EntryLive, Swept
<1> QED
  BY <1>3, <1>5, <1>7, <1>8 DEF IInv

LEMMA StutterKeeps == IInv /\ UNCHANGED vars => IInv'
<1> SUFFICES ASSUME IInv, UNCHANGED vars PROVE IInv'
  OBVIOUS
<1>1. UNCHANGED <<label, pc, todo, live, comeFrom, dom, pdom, idom, iterate, at>>
  BY DEF vars
<1>2. \A b : PdomOf(b)' = PdomOf(b) /\ DomOf(b)' = DomOf(b) /\ IsExit(b)' = IsExit(b)
  BY <1>1 DEF PdomOf, DomOf, Common, Targets, Live, IsExit
<1>3. TypeOK' /\ AtInLive' /\ AtPositive' /\ EntryLive'
  BY <1>1 DEF IInv, TypeOK, AtInLive, AtPositive, EntryLive
<1>5. DomSolved'
  BY <1>1, <1>2 DEF IInv, DomSolved, DomOf, Live
<1>4. Above' /\ Swept'
  BY <1>1, <1>2 DEF IInv, Above, Swept, Live
<1> QED
  BY <1>3, <1>4, <1>5 DEF IInv

LEMMA NextKeeps == IInv /\ [Next]_vars => IInv'
<1> SUFFICES ASSUME IInv, [Next]_vars PROVE IInv'
  OBVIOUS
<1> QED
  BY WalkKeeps, BeginPdomKeeps, PdomStepKeeps, PdomAgainKeeps, BeginDomKeeps,
     DomStepKeeps, DomAgainKeeps, EndDomKeeps, StutterKeeps
  DEF Next, Step, Terminated

(* What the sweeps rely on holds throughout, for every graph.              *)
THEOREM Inductive == Spec => []IInv
BY InitIInv, NextKeeps, PTL DEF Spec

-----------------------------------------------------------------------------
(* rebuild_cfg and rebuild_dom keep their data well-typed.                 *)
THEOREM TypeCorrect == Spec => []TypeOK
<1>1. IInv => TypeOK
  BY DEF IInv
<1> QED
  BY <1>1, Inductive, PTL

(* rebuild_dom tests "tdom.size() != dom.size()" to see whether a set has  *)
(* changed: that is enough, because no sweep ever adds to a set.           *)
THEOREM SizesTellChange == Spec => SweepShrinks
<1>1. ASSUME IInv, [Next]_vars
      PROVE  [pc' = pc => \A b \in Blocks : dom'[b] \subseteq dom[b]]_vars
  <2>1. CASE pdomStep
    BY <1>1, <2>1, PdomStepKeeps
  <2>2. CASE domStep
    BY <1>1, <2>2, DomStepKeeps
  <2>3. CASE walk \/ pdomAgain \/ domAgain \/ Terminated \/ UNCHANGED vars
    BY <2>3 DEF walk, pdomAgain, domAgain, Terminated, vars
  <2>4. CASE beginPdom \/ beginDom \/ endDom
    BY <2>4 DEF beginPdom, beginDom, endDom
  <2> QED
    BY <1>1, <2>1, <2>2, <2>3, <2>4 DEF Next, Step
<1> QED
  BY <1>1, Inductive, PTL DEF Spec, SweepShrinks

(* When rebuild_dom is done, its sets solve the equations of dominance.    *)
THEOREM SolvesEquations == Spec => []DomSolved
<1>1. IInv => DomSolved
  BY DEF IInv
<1> QED
  BY <1>1, Inductive, PTL

-----------------------------------------------------------------------------
(* The sets found are the greatest solution: none other names more.        *)

Solution(D) ==
    /\ D[1] \subseteq {1}
    /\ \A b \in Live \ {1} : \A s \in comeFrom[b] : D[b] \subseteq D[s] \cup {b}

AboveSolutions ==
    pc \in {"dom", "done"} =>
        \A D \in [Blocks -> SUBSET Live] : Solution(D) =>
            \A b \in Live : D[b] \subseteq dom[b]

SourcesLive == \A b \in Blocks : comeFrom[b] \subseteq Live

LEMMA SourcesLiveKept == IInv /\ SourcesLive /\ [Next]_vars => SourcesLive'
<1> SUFFICES ASSUME IInv, SourcesLive, [Next]_vars PROVE SourcesLive'
  OBVIOUS
<1>1. CASE walk
  <2>1. todo \in Seq(Blocks) /\ live \in Seq(Blocks) /\ todo[Len(todo)] \in Blocks
    BY <1>1 DEF IInv, TypeOK, walk
  <2>2. NewLabels(todo[Len(todo)]) \in Seq(Blocks)
    BY <2>1, NewLabelsType DEF IInv
  <2>a. live' = live \o NewLabels(todo[Len(todo)])
    BY <1>1 DEF walk
  <2>b. \A n \in 1..Len(live) : n \in 1..Len(live') /\ live'[n] = live[n]
    BY <2>1, <2>2, <2>a
  <2>c. live' \in Seq(Blocks)
    BY <2>1, <2>2, <2>a
  <2>3. Live \subseteq Live'
    BY <2>1, <2>b, <2>c DEF Live
  <2> QED
    BY <1>1, <2>3 DEF SourcesLive, walk
<1>2. CASE beginPdom
  BY <1>2 DEF SourcesLive, beginPdom, Live
<1>3. CASE pdomStep \/ pdomAgain \/ beginDom \/ domStep \/ domAgain \/ endDom
  BY <1>3 DEF SourcesLive, pdomStep, pdomAgain, beginDom, domStep, domAgain, endDom, Live
<1>4. CASE Terminated \/ UNCHANGED vars
  BY <1>4 DEF SourcesLive, Terminated, vars, Live
<1> QED
  BY <1>1, <1>2, <1>3, <1>4 DEF Next, Step

LEMMA AboveSolutionsKept ==
    IInv /\ SourcesLive /\ AboveSolutions /\ [Next]_vars => AboveSolutions'
<1> SUFFICES ASSUME IInv, SourcesLive, AboveSolutions, [Next]_vars PROVE AboveSolutions'
  OBVIOUS
<1>1. CASE walk \/ beginPdom \/ pdomStep \/ pdomAgain
  BY <1>1 DEF AboveSolutions, walk, beginPdom, pdomStep, pdomAgain
<1>2. CASE beginDom
  <2>1. Live' = Live /\ Live \subseteq Blocks
    BY <1>2, LiveInBlocks DEF IInv, TypeOK, beginDom, Live
  <2> SUFFICES ASSUME NEW D \in [Blocks -> SUBSET Live], Solution(D)', NEW b \in Live
               PROVE  D[b] \subseteq dom'[b]
    BY <2>1 DEF AboveSolutions
  <2>2. b \in Blocks /\ D[b] \subseteq Live
    BY <2>1
  <2> QED
    BY <1>2, <2>1, <2>2 DEF Solution, beginDom
<1>3. CASE domStep
  <2>1. /\ Live' = Live /\ Live \subseteq Blocks /\ live \in Seq(Blocks) /\ TypeOK
        /\ comeFrom' = comeFrom /\ pc = "dom" /\ at \in 1..Len(live)
    BY <1>3, LiveInBlocks DEF IInv, AtPositive, TypeOK, domStep, Live
  <2> SUFFICES ASSUME NEW D \in [Blocks -> SUBSET Live], Solution(D)', NEW c \in Live
               PROVE  D[c] \subseteq dom'[c]
    BY <2>1 DEF AboveSolutions
  <2>2. Solution(D)
    BY <2>1 DEF Solution
  <2>3. \A x \in Live : D[x] \subseteq dom[x]
    BY <2>1, <2>2 DEF AboveSolutions
  <2> DEFINE b == live[at]
  <2>4. b \in Live /\ b \in Blocks
    BY <2>1, Positions
  <2>5. CASE b = 1
    BY <1>3, <2>3, <2>5 DEF domStep
  <2>6. CASE b # 1
    <3>1. Update(b, DomOf(b)) /\ DomOf(b) \subseteq dom[b]
      BY <1>3, <2>1, <2>4, <2>6 DEF domStep, DomOf, IInv, Above
    <3>2. dom'[b] = DomOf(b) /\ \A x \in Blocks \ {b} : dom'[x] = dom[x]
      BY <2>1, <2>4, <3>1, UpdateShrinks
    <3>3. D[b] \subseteq DomOf(b)
      <4> SUFFICES ASSUME NEW x \in D[b], x # b PROVE x \in Common(comeFrom[b])
        BY DEF DomOf
      <4>1. x \in Live
        BY <2>4
      <4>2. ASSUME NEW s \in comeFrom[b] PROVE x \in dom[s]
        <5>1. s \in Live /\ x \in D[s]
          BY <2>2, <2>4, <2>6, <4>2 DEF Solution, SourcesLive
        <5> QED
          BY <2>3, <5>1
      <4> QED
        BY <4>1, <4>2 DEF Common
    <3> QED
      BY <2>1, <2>3, <3>2, <3>3
  <2> QED
    BY <2>5, <2>6
<1>4. CASE domAgain \/ endDom
  BY <1>4 DEF AboveSolutions, Solution, domAgain, endDom, Live
<1>5. CASE Terminated \/ UNCHANGED vars
  BY <1>5 DEF AboveSolutions, Solution, Terminated, vars, Live
<1> QED
  BY <1>1, <1>2, <1>3, <1>4, <1>5 DEF Next, Step

(* Every family of sets that satisfies the equations of dominance, the     *)
(* true dominators among them, stays below the sets rebuild_dom computes:  *)
(* no dominator is ever lost, whatever the graph.                          *)
THEOREM NoSolutionLost == Spec => []AboveSolutions
<1>1. Init => SourcesLive /\ AboveSolutions
  BY DEF Init, SourcesLive, AboveSolutions
<1>2. IInv /\ SourcesLive /\ AboveSolutions /\ [Next]_vars
        => (SourcesLive /\ AboveSolutions)'
  BY SourcesLiveKept, AboveSolutionsKept
<1> QED
  BY <1>1, <1>2, Inductive, PTL DEF Spec

-----------------------------------------------------------------------------
(* Paths.                                                                  *)

(* No edge leaves S, but to a block to avoid.                              *)
Closed(S, avoid) == \A b \in S : Targets(b) \ avoid \subseteq S

(* One more edge.                                                          *)
Onwards(r, avoid) == r \cup ((UNION { Targets(b) : b \in r }) \ avoid)

LEMMA TargetsAreBlocks ==
    ASSUME label \in [Blocks -> Seq(Blocks)], NEW b \in Blocks
    PROVE  Targets(b) \subseteq Blocks
<1>1. label[b] \in Seq(Blocks)
  OBVIOUS
<1> QED
  BY <1>1 DEF Targets

(* The blocks found within n edges exist, and the last of them are Reach.  *)
LEMMA ReachRecursion ==
    ASSUME label \in [Blocks -> Seq(Blocks)], NEW from \in Blocks, NEW avoid
    PROVE  \E found \in [0..Cardinality(Blocks) -> SUBSET Blocks] :
              /\ found[0] = {from} \ avoid
              /\ \A n \in 1..Cardinality(Blocks) : found[n] = Onwards(found[n - 1], avoid)
              /\ Reach(from, avoid) = found[Cardinality(Blocks)]
<1> DEFINE N == Cardinality(Blocks)
           D == SUBSET Blocks
           c == {from} \ avoid
           G == [n \in 1..N |-> [r \in D |-> Onwards(r, avoid)]]
<1>1. N \in Nat
  BY BlocksAssumption, FS_CardinalityType
<1>2. \A r \in D : Onwards(r, avoid) \in D
  BY TargetsAreBlocks DEF Onwards
<1>3. G \in [1..N -> [D -> D]]
  <2> HIDE DEF D
  <2> QED
    BY <1>2
<1>4. c \in D
  OBVIOUS
<1>5. PICK f \in [0..N -> D] : f[0] = c /\ \A n \in 1..N : f[n] = G[n][f[n - 1]]
  <2> HIDE DEF N, G, D, c
  <2>1. Recursive(D, c, N, G) # {}
    BY <1>1, <1>3, <1>4, RecursionExists
  <2> QED
    BY <2>1 DEF Recursive
<1>6. \A n \in 1..N : f[n] = Onwards(f[n - 1], avoid)
  <2> HIDE DEF N, D, c
  <2>1. \A n \in 1..N : n - 1 \in 0..N
    BY <1>1
  <2>2. \A n \in 1..N : f[n - 1] \in D
    BY <2>1, <1>5
  <2>3. \A n \in 1..N, x \in D : G[n][x] = Onwards(x, avoid)
    OBVIOUS
  <2> HIDE DEF G
  <2> QED
    BY <1>5, <2>2, <2>3
<1> HIDE DEF G
<1> DEFINE Unfold(h) == [n \in 0..N |-> IF n = 0 THEN {from} \ avoid
              ELSE LET r == h[n - 1]
                   IN  r \cup ((UNION { Targets(b) : b \in r }) \ avoid)]
<1>7. f = Unfold(f)
  <2>1. \A n \in 0..N : f[n] = Unfold(f)[n]
    BY <1>1, <1>5, <1>6 DEF Onwards
  <2> QED
    BY <2>1
<1> DEFINE g == CHOOSE h : h = Unfold(h)
<1>8. g = Unfold(g)
  <2> HIDE DEF Unfold
  <2> QED
    BY <1>7
<1>9. Reach(from, avoid) = g[N]
  BY DEF Reach
<1> HIDE DEF g
<1>10. /\ DOMAIN g = 0..N /\ g[0] = c
       /\ \A n \in 1..N : g[n] = Onwards(g[n - 1], avoid)
  <2>1. DOMAIN Unfold(g) = 0..N /\ Unfold(g)[0] = c
    BY <1>1
  <2>2. \A n \in 1..N : Unfold(g)[n] = Onwards(g[n - 1], avoid)
    BY <1>1 DEF Onwards
  <2> HIDE DEF Unfold, c, N
  <2> QED
    BY <2>1, <2>2, <1>8
<1>11. g \in [0..N -> D]
  <2> DEFINE S == { n \in Nat : n <= N => g[n] \in D }
  <2> HIDE DEF c, D, N
  <2>1. 0 \in S
    BY <1>4, <1>10
  <2>2. \A n \in Nat : n \in S => n + 1 \in S
    <3> SUFFICES ASSUME NEW n \in Nat, n \in S, n + 1 <= N
                 PROVE  g[n + 1] \in D
      OBVIOUS
    <3>1. n + 1 \in 1..N /\ (n + 1) - 1 = n /\ g[n] \in D
      BY <1>1
    <3>2. g[n + 1] = Onwards(g[n], avoid)
      BY <3>1, <1>10
    <3> QED
      BY <3>1, <3>2, <1>2
  <2>3. \A n \in Nat : n \in S
    <3> HIDE DEF S
    <3> QED
      BY <2>1, <2>2, SetOfAllNumbers
  <2>4. \A n \in 0..N : g[n] \in D
    BY <2>3, <1>1
  <2>5. g = [n \in DOMAIN g |-> g[n]]
    BY <1>8
  <2> HIDE DEF D
  <2> QED
    BY <2>4, <2>5, <1>10
<1> QED
  BY <1>9, <1>10, <1>11

-----------------------------------------------------------------------------
(* Reach is the least set that holds the block to start from and that no   *)
(* edge leaves, the blocks to avoid apart.                                 *)
LEMMA OnwardsElements ==
    ASSUME NEW r, NEW avoid
    PROVE  \A y : y \in Onwards(r, avoid) <=>
              y \in r \/ (y \notin avoid /\ \E x \in r : y \in Targets(x))
BY DEF Onwards

LEMMA OnwardsFacts ==
    ASSUME NEW r, NEW avoid
    PROVE  /\ r \subseteq Onwards(r, avoid)
           /\ Onwards(r, avoid) = r <=> Closed(r, avoid)
           /\ \A X : r \subseteq X /\ Closed(X, avoid) => Onwards(r, avoid) \subseteq X
<1>1. r \subseteq Onwards(r, avoid)
  BY OnwardsElements
<1>2. ASSUME Closed(r, avoid)
      PROVE  Onwards(r, avoid) = r
  <2>1. ASSUME NEW y \in Onwards(r, avoid)
        PROVE  y \in r
    BY <1>2, <2>1, OnwardsElements DEF Closed
  <2> QED
    BY <1>1, <2>1
<1>3. ASSUME Onwards(r, avoid) = r
      PROVE  Closed(r, avoid)
  BY <1>3, OnwardsElements DEF Closed
<1>4. ASSUME NEW X, r \subseteq X, Closed(X, avoid)
      PROVE  Onwards(r, avoid) \subseteq X
  <2>1. ASSUME NEW y \in Onwards(r, avoid)
        PROVE  y \in X
    BY <1>4, <2>1, OnwardsElements DEF Closed
  <2> QED
    BY <2>1
<1>5. Onwards(r, avoid) = r <=> Closed(r, avoid)
  BY <1>2, <1>3
<1> HIDE DEF Onwards
<1> QED
  BY <1>1, <1>4, <1>5

LEMMA ReachClosed ==
    ASSUME label \in [Blocks -> Seq(Blocks)], NEW from \in Blocks, NEW avoid
    PROVE  /\ Reach(from, avoid) \subseteq Blocks
           /\ from \notin avoid => from \in Reach(from, avoid)
           /\ Closed(Reach(from, avoid), avoid)
<1> DEFINE N == Cardinality(Blocks)
<1>1. N \in Nat /\ IsFiniteSet(Blocks)
  BY BlocksAssumption, FS_CardinalityType
<1>2. PICK f \in [0..N -> SUBSET Blocks] :
        /\ f[0] = {from} \ avoid
        /\ \A n \in 1..N : f[n] = Onwards(f[n - 1], avoid)
        /\ Reach(from, avoid) = f[N]
  BY ReachRecursion
<1> HIDE DEF N
<1>3. \A n \in Nat : n + 1 <= N =>
        n \in 0..N /\ f[n] \subseteq Blocks /\ f[n + 1] \subseteq Blocks
          /\ f[n + 1] = Onwards(f[n], avoid)
  <2> SUFFICES ASSUME NEW n \in Nat, n + 1 <= N
               PROVE  /\ n \in 0..N /\ f[n] \subseteq Blocks /\ f[n + 1] \subseteq Blocks
                      /\ f[n + 1] = Onwards(f[n], avoid)
    OBVIOUS
  <2>1. n \in 0..N /\ n + 1 \in 1..N /\ n + 1 \in 0..N /\ (n + 1) - 1 = n
    BY <1>1
  <2> QED
    BY <2>1, <1>2
<1>4. \A n \in Nat : n <= N => Closed(f[n], avoid) \/ Cardinality(f[n]) >= n + 1
  <2> DEFINE S == { n \in Nat : n <= N => Closed(f[n], avoid) \/ Cardinality(f[n]) >= n + 1 }
  <2>1. 0 \in S
    <3>1. CASE f[0] = {}
      BY <3>1 DEF Closed
    <3>2. CASE f[0] = {from}
      <4>1. Cardinality(f[0]) = 1
        BY <3>2, FS_Singleton
      <4> QED
        BY <4>1
    <3> QED
      BY <3>1, <3>2, <1>2
  <2>2. ASSUME NEW n \in Nat, n \in S
        PROVE  n + 1 \in S
    <3> SUFFICES ASSUME n + 1 <= N
                 PROVE  Closed(f[n + 1], avoid) \/ Cardinality(f[n + 1]) >= n + 2
      BY DEF S
    <3>1. /\ f[n] \subseteq Blocks /\ f[n + 1] \subseteq Blocks
          /\ f[n + 1] = Onwards(f[n], avoid)
          /\ Closed(f[n], avoid) \/ Cardinality(f[n]) >= n + 1
      BY <1>1, <1>3, <2>2
    <3>2. CASE Closed(f[n], avoid)
      <4>1. f[n + 1] = f[n]
        BY <3>1, <3>2, OnwardsFacts
      <4> QED
        BY <3>2, <4>1
    <3>3. CASE ~Closed(f[n], avoid) /\ Cardinality(f[n]) >= n + 1
      <4>1. f[n] \subseteq f[n + 1] /\ f[n] # f[n + 1]
        BY <3>1, <3>3, OnwardsFacts
      <4>2. IsFiniteSet(f[n + 1]) /\ IsFiniteSet(f[n])
        BY <1>1, <3>1, FS_Subset
      <4>3. Cardinality(f[n]) < Cardinality(f[n + 1])
        BY <4>1, <4>2, FS_Subset, FS_CardinalityType
      <4> QED
        BY <3>3, <4>2, <4>3, FS_CardinalityType
    <3> QED
      BY <3>1, <3>2, <3>3
  <2> HIDE DEF S
  <2>3. \A n \in Nat : n \in S
    BY <2>1, <2>2, SetOfAllNumbers
  <2> QED
    BY <2>3 DEF S
<1>5. \A n \in Nat : n <= N => {from} \ avoid \subseteq f[n]
  <2> DEFINE S == { n \in Nat : n <= N => {from} \ avoid \subseteq f[n] }
  <2>1. 0 \in S
    BY <1>2
  <2>2. ASSUME NEW n \in Nat, n \in S
        PROVE  n + 1 \in S
    BY <1>1, <1>3, <2>2 DEF Onwards
  <2> HIDE DEF S
  <2>3. \A n \in Nat : n \in S
    BY <2>1, <2>2, SetOfAllNumbers
  <2> QED
    BY <2>3 DEF S
<1>6. f[N] \subseteq Blocks
  BY <1>1, <1>2
<1>7. Closed(f[N], avoid)
  <2>1. Cardinality(f[N]) <= N
    BY <1>1, <1>6, FS_Subset DEF N
  <2>2. Cardinality(f[N]) \in Nat
    BY <1>1, <1>6, FS_Subset, FS_CardinalityType
  <2> QED
    BY <1>1, <1>4, <2>1, <2>2
<1> QED
  BY <1>1, <1>2, <1>5, <1>6, <1>7

LEMMA ReachLeast ==
    ASSUME label \in [Blocks -> Seq(Blocks)], NEW from \in Blocks, NEW avoid,
           NEW X, {from} \ avoid \subseteq X, Closed(X, avoid)
    PROVE  Reach(from, avoid) \subseteq X
<1> DEFINE N == Cardinality(Blocks)
<1>1. N \in Nat
  BY BlocksAssumption, FS_CardinalityType
<1>2. PICK f \in [0..N -> SUBSET Blocks] :
        /\ f[0] = {from} \ avoid
        /\ \A n \in 1..N : f[n] = Onwards(f[n - 1], avoid)
        /\ Reach(from, avoid) = f[N]
  BY ReachRecursion
<1> HIDE DEF N
<1> DEFINE S == { n \in Nat : n <= N => f[n] \subseteq X }
<1>3. 0 \in S
  BY <1>2
<1>4. ASSUME NEW n \in Nat, n \in S
      PROVE  n + 1 \in S
  <2> SUFFICES ASSUME n + 1 <= N
               PROVE  f[n + 1] \subseteq X
    OBVIOUS
  <2>1. n + 1 \in 1..N /\ (n + 1) - 1 = n /\ f[n] \subseteq X
    BY <1>1, <1>4
  <2>2. f[n + 1] = Onwards(f[n], avoid)
    BY <2>1, <1>2
  <2> QED
    BY <2>1, <2>2, OnwardsFacts
<1> HIDE DEF S
<1>5. N \in S
  BY <1>1, <1>3, <1>4, SetOfAllNumbers
<1> QED
  BY <1>1, <1>2, <1>5 DEF S

Graph == label \in [Blocks -> Seq(Blocks)]

LEMMA ReachAvoids ==
    ASSUME Graph, NEW from \in Blocks, NEW avoid
    PROVE  \A d \in avoid : d \notin Reach(from, avoid)
<1> DEFINE X == Reach(from, avoid) \ avoid
<1>1. {from} \ avoid \subseteq X /\ Closed(X, avoid)
  BY ReachClosed DEF Graph, Closed
<1> HIDE DEF X
<1>2. Reach(from, avoid) \subseteq X
  BY <1>1, ReachLeast DEF Graph
<1> QED
  BY <1>2 DEF X

LEMMA ReachNone ==
    ASSUME Graph, NEW from \in Blocks
    PROVE  Reach(from, {from}) = {}
<1>1. {from} \ {from} \subseteq {} /\ Closed({}, {from})
  BY DEF Closed
<1> QED
  BY <1>1, ReachLeast DEF Graph

LEMMA ReachOn ==
    ASSUME Graph, NEW from \in Blocks, NEW avoid, NEW d \in Reach(from, avoid)
    PROVE  Reach(d, avoid) \subseteq Reach(from, avoid)
<1>1. d \in Blocks /\ {d} \ avoid \subseteq Reach(from, avoid)
      /\ Closed(Reach(from, avoid), avoid)
  BY ReachClosed DEF Graph
<1> QED
  BY <1>1, ReachLeast DEF Graph

(* What is reached off e is reached off d, or from d.                      *)
LEMMA ReachThrough ==
    ASSUME Graph, NEW from \in Blocks, NEW d \in Blocks, NEW e \in Blocks
    PROVE  Reach(from, {e}) \subseteq Reach(from, {d}) \cup Reach(d, {e})
<1> DEFINE X == Reach(from, {d}) \cup Reach(d, {e})
<1>1. /\ from # d => from \in Reach(from, {d})
      /\ d # e => d \in Reach(d, {e})
      /\ Closed(Reach(from, {d}), {d}) /\ Closed(Reach(d, {e}), {e})
  BY ReachClosed DEF Graph
<1>2. {from} \ {e} \subseteq X
  BY <1>1
<1>3. Closed(X, {e})
  BY <1>1 DEF Closed
<1> HIDE DEF X
<1>4. Reach(from, {e}) \subseteq X
  BY <1>2, <1>3, ReachLeast DEF Graph
<1> QED
  BY <1>4 DEF X

(* If no way off e meets d, every way off e is one off d.                  *)
LEMMA ReachOff ==
    ASSUME Graph, NEW from \in Blocks, NEW d \in Blocks, NEW e \in Blocks,
           d \notin Reach(from, {e})
    PROVE  Reach(from, {e}) \subseteq Reach(from, {d})
<1> DEFINE X == Reach(from, {e}) \cap Reach(from, {d})
<1>1. /\ from # d => from \in Reach(from, {d})
      /\ from # e => from \in Reach(from, {e})
      /\ Closed(Reach(from, {d}), {d}) /\ Closed(Reach(from, {e}), {e})
  BY ReachClosed DEF Graph
<1>2. {from} \ {e} \subseteq X
  BY <1>1
<1>3. Closed(X, {e})
  BY <1>1 DEF Closed
<1> HIDE DEF X
<1>4. Reach(from, {e}) \subseteq X
  BY <1>2, <1>3, ReachLeast DEF Graph
<1> QED
  BY <1>4 DEF X

(* If each of two blocks can be reached off the other, no block needs both.*)
LEMMA ReachEither ==
    ASSUME Graph, NEW from \in Blocks, NEW d \in Blocks, NEW e \in Blocks, d # e,
           d \in Reach(from, {e}), e \in Reach(from, {d})
    PROVE  Reach(from, {}) \subseteq Reach(from, {d}) \cup Reach(from, {e})
<1> DEFINE X == Reach(from, {d}) \cup Reach(from, {e})
<1>1. /\ from # d => from \in Reach(from, {d})
      /\ from # e => from \in Reach(from, {e})
      /\ Closed(Reach(from, {d}), {d}) /\ Closed(Reach(from, {e}), {e})
  BY ReachClosed DEF Graph
<1>2. {from} \ {} \subseteq X
  BY <1>1
<1>3. Closed(X, {})
  BY <1>1 DEF Closed
<1> HIDE DEF X
<1>4. Reach(from, {}) \subseteq X
  BY <1>2, <1>3, ReachLeast DEF Graph
<1> QED
  BY <1>4 DEF X

(* If neither of two blocks can be reached off the other, neither can be.  *)
LEMMA ReachNeither ==
    ASSUME Graph, NEW from \in Blocks, NEW d \in Blocks, NEW e \in Blocks, d # e,
           from # d, from # e, d \notin Reach(from, {e}), e \notin Reach(from, {d})
    PROVE  Reach(from, {}) \subseteq Reach(from, {d}) \cap Reach(from, {e})
<1> DEFINE X == Reach(from, {d}) \cap Reach(from, {e})
<1>1. /\ from \in Reach(from, {d}) /\ from \in Reach(from, {e})
      /\ Closed(Reach(from, {d}), {d}) /\ Closed(Reach(from, {e}), {e})
  BY ReachClosed DEF Graph
<1>2. {from} \ {} \subseteq X
  BY <1>1
<1>3. Closed(X, {})
  BY <1>1 DEF Closed
<1> HIDE DEF X
<1>4. Reach(from, {}) \subseteq X
  BY <1>2, <1>3, ReachLeast DEF Graph
<1> QED
  BY <1>4 DEF X

LEMMA ReachBack ==
    ASSUME Graph, NEW from \in Blocks, NEW d \in Blocks, d # from
    PROVE  Reach(from, {}) \subseteq Reach(from, {d}) \cup Reach(d, {from})
<1> DEFINE X == Reach(from, {d}) \cup Reach(d, {from})
<1>1. /\ from \in Reach(from, {d}) /\ d \in Reach(d, {from})
      /\ Closed(Reach(from, {d}), {d}) /\ Closed(Reach(d, {from}), {from})
  BY ReachClosed DEF Graph
<1>2. {from} \ {} \subseteq X
  BY <1>1
<1>3. Closed(X, {})
  BY <1>1 DEF Closed
<1> HIDE DEF X
<1>4. Reach(from, {}) \subseteq X
  BY <1>2, <1>3, ReachLeast DEF Graph
<1> QED
  BY <1>4 DEF X

LEMMA ReachMore ==
    ASSUME Graph, NEW from \in Blocks, NEW avoid
    PROVE  Reach(from, avoid) \subseteq Reach(from, {})
<1>1. from \in Reach(from, {}) /\ Closed(Reach(from, {}), {})
  BY ReachClosed DEF Graph
<1>2. Closed(Reach(from, {}), avoid)
  BY <1>1 DEF Closed
<1> QED
  BY <1>1, <1>2, ReachLeast DEF Graph

-----------------------------------------------------------------------------
(* The dominators of a block are a chain: what dominates both it and       *)
(* another one that does not dominate the first stands between them.       *)

LEMMA DomChain ==
    ASSUME Graph, NEW b \in Reach(1, {})
    PROVE  /\ b \in TrueDom(b)
           /\ \A d \in TrueDom(b) : TrueDom(d) \subseteq TrueDom(b)
           /\ \A d \in TrueDom(b) \ {b} : b \notin TrueDom(d)
           /\ \A d, e \in TrueDom(b) : d \in TrueDom(e) \/ e \in TrueDom(d)
<1>1. 1 \in Blocks /\ Reach(1, {}) \subseteq Blocks
  BY BlocksAssumption, ReachClosed DEF Graph
<1>2. b \in TrueDom(b)
  BY <1>1, ReachAvoids DEF TrueDom, Dominates
<1>3. ASSUME NEW d \in TrueDom(b), NEW e \in TrueDom(d)
      PROVE  e \in TrueDom(b)
  <2>1. d \in Blocks /\ e \in Reach(1, {}) /\ e \in Blocks
        /\ d \notin Reach(1, {e}) /\ b \notin Reach(1, {d})
    BY <1>1, <1>3 DEF TrueDom, Dominates
  <2>2. Reach(1, {e}) \subseteq Reach(1, {d})
    BY <1>1, <2>1, ReachOff
  <2> QED
    BY <2>1, <2>2 DEF TrueDom, Dominates
<1>4. ASSUME NEW d \in TrueDom(b) \ {b}, b \in TrueDom(d)
      PROVE  FALSE
  <2>1. d \in Blocks /\ b \in Blocks /\ d # b /\ b \notin Reach(1, {d}) /\ d \notin Reach(1, {b})
    BY <1>1, <1>4 DEF TrueDom, Dominates
  <2>2. 1 # d /\ 1 # b
    BY <1>1, <2>1, ReachClosed DEF Graph
  <2>3. Reach(1, {}) \subseteq Reach(1, {d}) \cap Reach(1, {b})
    BY <1>1, <2>1, <2>2, ReachNeither
  <2> QED
    BY <2>1, <2>3
<1>5. ASSUME NEW d \in TrueDom(b), NEW e \in TrueDom(b),
             d \notin TrueDom(e), e \notin TrueDom(d)
      PROVE  FALSE
  <2>1. d \in Blocks /\ e \in Blocks /\ d \in Reach(1, {e}) /\ e \in Reach(1, {d})
        /\ b \notin Reach(1, {d}) /\ b \notin Reach(1, {e})
    BY <1>1, <1>5 DEF TrueDom, Dominates
  <2>2. d # e
    BY <1>1, <2>1, ReachAvoids
  <2>3. Reach(1, {}) \subseteq Reach(1, {d}) \cup Reach(1, {e})
    BY <1>1, <2>1, <2>2, ReachEither
  <2> QED
    BY <2>1, <2>3
<1> QED
  BY <1>2, <1>3, <1>4, <1>5

LEMMA PdomPartial ==
    ASSUME Graph, NEW b \in Reach(1, {})
    PROVE  /\ b \in TruePdom(b)
           /\ \A d \in TruePdom(b) : TruePdom(d) \subseteq TruePdom(b)
<1>1. 1 \in Blocks /\ Reach(1, {}) \subseteq Blocks /\ b \in Blocks
  BY BlocksAssumption, ReachClosed DEF Graph
<1>2. b \in TruePdom(b)
  BY <1>1, ReachNone DEF TruePdom, PostDominates
<1>3. ASSUME NEW d \in TruePdom(b), NEW e \in TruePdom(d)
      PROVE  e \in TruePdom(b)
  <2>1. d \in Blocks /\ e \in Reach(1, {}) /\ e \in Blocks
    BY <1>1, <1>3 DEF TruePdom
  <2>2. Reach(b, {e}) \subseteq Reach(b, {d}) \cup Reach(d, {e})
    BY <1>1, <2>1, ReachThrough
  <2> QED
    BY <1>3, <2>1, <2>2 DEF TruePdom, PostDominates
<1> QED
  BY <1>2, <1>3

(* So are the post-dominators of a block that can reach an exit.           *)
LEMMA PdomChain ==
    ASSUME Graph, NEW b \in Reach(1, {}), CanExit(b)
    PROVE  /\ \A d \in TruePdom(b) \ {b} : b \notin TruePdom(d)
           /\ \A d, e \in TruePdom(b) : d \in TruePdom(e) \/ e \in TruePdom(d)
<1>1. 1 \in Blocks /\ Reach(1, {}) \subseteq Blocks /\ b \in Blocks
  BY BlocksAssumption, ReachClosed DEF Graph
<1>4. ASSUME NEW d \in TruePdom(b) \ {b}, b \in TruePdom(d)
      PROVE  FALSE
  <2>1. d \in Blocks /\ d # b
    BY <1>1, <1>4 DEF TruePdom
  <2>2. Reach(b, {}) \subseteq Reach(b, {d}) \cup Reach(d, {b})
    BY <1>1, <2>1, ReachBack
  <2> QED
    BY <1>4, <2>2 DEF TruePdom, PostDominates, CanExit
<1>5. ASSUME NEW d \in TruePdom(b), NEW e \in TruePdom(b),
             d \notin TruePdom(e), e \notin TruePdom(d)
      PROVE  FALSE
  <2>1. d \in Reach(1, {}) /\ e \in Reach(1, {}) /\ d \in Blocks /\ e \in Blocks
    BY <1>1, <1>5 DEF TruePdom
  <2>2. PICK x \in Reach(e, {d}), y \in Reach(d, {e}) : IsExit(x) /\ IsExit(y)
    BY <1>5, <2>1 DEF TruePdom, PostDominates
  <2>3. /\ \A z \in Reach(b, {d}) : ~IsExit(z)
        /\ \A z \in Reach(b, {e}) : ~IsExit(z)
    BY <1>5 DEF TruePdom, PostDominates
  <2>4. e \notin Reach(b, {d})
    BY <1>1, <2>1, <2>2, <2>3, ReachOn
  <2>5. d \notin Reach(b, {e})
    BY <1>1, <2>1, <2>2, <2>3, ReachOn
  <2>6. d # e
    BY <2>1, <2>2, ReachNone
  <2>7. b # d /\ b # e
    BY <1>5
  <2>8. Reach(b, {}) \subseteq Reach(b, {d}) \cap Reach(b, {e})
    BY <1>1, <2>1, <2>4, <2>5, <2>6, <2>7, ReachNeither
  <2> QED
    BY <2>3, <2>8 DEF CanExit
<1> QED
  BY <1>4, <1>5

-----------------------------------------------------------------------------
(* Immediate finds the next one of a chain.                                *)

Chain(b) ==
    /\ b \in dom[b]
    /\ \A d \in dom[b] : d \in dom[d] /\ \A e \in dom[d] : dom[e] \subseteq dom[d]
    /\ \A d \in dom[b] \ {b} : b \notin dom[d]
    /\ \A d, e \in dom[b] : d \in dom[e] \/ e \in dom[d]

LEMMA DomSize ==
    ASSUME TypeOK, NEW b \in Blocks
    PROVE  IsFiniteSet(dom[b]) /\ Cardinality(dom[b]) \in Nat /\ dom[b] \subseteq Blocks
BY BlocksAssumption, FS_Subset, FS_CardinalityType DEF TypeOK

LEMMA LargestBelow ==
    ASSUME TypeOK, NEW b \in Blocks, dom[b] # {b}, b \in dom[b]
    PROVE  \E d \in dom[b] \ {b} : \A e \in dom[b] \ {b} :
              Cardinality(dom[e]) <= Cardinality(dom[d])
<1> DEFINE N == Cardinality(Blocks)
           T == { N - Cardinality(dom[d]) : d \in dom[b] \ {b} }
<1>1. N \in Nat /\ dom[b] \subseteq Blocks
  BY DomSize, BlocksAssumption, FS_CardinalityType
<1>2. \A d \in dom[b] : Cardinality(dom[d]) \in Nat /\ Cardinality(dom[d]) <= N
  BY <1>1, DomSize, BlocksAssumption, FS_Subset
<1> HIDE DEF N
<1>3. T \subseteq Nat /\ T # {}
  BY <1>1, <1>2
<1>4. PICK x \in T : \A y \in T : x <= y
  <2> HIDE DEF T
  <2> QED
    BY <1>3, LeastNumber
<1>5. PICK d \in dom[b] \ {b} : x = N - Cardinality(dom[d])
  OBVIOUS
<1>6. ASSUME NEW e \in dom[b] \ {b}
      PROVE  Cardinality(dom[e]) <= Cardinality(dom[d])
  <2>1. N - Cardinality(dom[d]) <= N - Cardinality(dom[e])
    BY <1>4, <1>5
  <2> QED
    BY <1>1, <1>2, <2>1
<1> QED
  BY <1>6

LEMMA ImmediateFacts ==
    ASSUME TypeOK, NEW b \in Blocks, NEW none, Chain(b)
    PROVE  /\ dom[b] = {b} => Immediate(b, none) = none
           /\ dom[b] # {b} => /\ Immediate(b, none) \in dom[b] \ {b}
                              /\ dom[Immediate(b, none)] = dom[b] \ {b}
<1>1. /\ IsFiniteSet(dom[b]) /\ Cardinality(dom[b]) \in Nat /\ dom[b] \subseteq Blocks
      /\ Cardinality(dom[b] \ {b}) = Cardinality(dom[b]) - 1
      /\ IsFiniteSet(dom[b] \ {b})
  BY DomSize, FS_RemoveElement DEF Chain
<1>2. \A d \in dom[b] : dom[d] \subseteq dom[b] /\ Cardinality(dom[d]) \in Nat
                        /\ IsFiniteSet(dom[d]) /\ Cardinality(dom[d]) # 0
  BY <1>1, DomSize, FS_EmptySet DEF Chain
<1>3. ASSUME dom[b] = {b}
      PROVE  Immediate(b, none) = none
  <2>1. Cardinality(dom[b]) = 1
    BY <1>3, FS_Singleton
  <2>2. OneLess(b) = {}
    BY <1>2, <2>1 DEF OneLess
  <2> QED
    BY <2>2 DEF Immediate
<1>4. ASSUME NEW d \in OneLess(b)
      PROVE  d \in dom[b] \ {b} /\ dom[d] = dom[b] \ {b}
  <2>1. d \in dom[b] /\ Cardinality(dom[d]) = Cardinality(dom[b]) - 1
    BY DEF OneLess
  <2>2. d # b
    BY <1>1, <2>1
  <2>3. dom[d] \subseteq dom[b] \ {b}
    BY <1>2, <2>1, <2>2 DEF Chain
  <2>4. dom[d] = dom[b] \ {b}
    BY <1>1, <2>1, <2>3, FS_Subset
  <2> QED
    BY <2>1, <2>2, <2>4
<1>5. ASSUME dom[b] # {b}
      PROVE  OneLess(b) # {}
  <2>1. PICK d \in dom[b] \ {b} : \A e \in dom[b] \ {b} :
           Cardinality(dom[e]) <= Cardinality(dom[d])
    BY <1>5, LargestBelow DEF Chain
  <2>2. dom[d] \subseteq dom[b] \ {b}
    BY <1>2 DEF Chain
  <2>3. ASSUME NEW e \in dom[b] \ {b}
        PROVE  e \in dom[d]
    <3>1. CASE d \in dom[e]
      <4>1. dom[d] \subseteq dom[e]
        BY <3>1 DEF Chain
      <4>2. Cardinality(dom[d]) <= Cardinality(dom[e])
        BY <1>2, <4>1, FS_Subset
      <4>3. Cardinality(dom[d]) = Cardinality(dom[e])
        BY <1>2, <2>1, <4>2
      <4>4. dom[d] = dom[e]
        BY <1>2, <4>1, <4>3, FS_Subset
      <4> QED
        BY <4>4 DEF Chain
    <3> QED
      BY <3>1 DEF Chain
  <2>4. dom[d] = dom[b] \ {b}
    BY <2>2, <2>3
  <2>5. d \in OneLess(b)
    BY <1>1, <2>4 DEF OneLess
  <2> QED
    BY <2>5
<1>6. dom[b] # {b} => Immediate(b, none) \in OneLess(b)
  BY <1>5 DEF Immediate
<1> QED
  BY <1>3, <1>4, <1>6

-----------------------------------------------------------------------------
(* The inductive invariant, beside IInv.                                   *)

(* rebuild_cfg only finds blocks on a path from the entry, and the targets *)
(* of each one that does not wait in todo.  When none waits it has found   *)
(* all, and sweeps only name what it has found.                            *)
CfgInv ==
    /\ label \in Graphs /\ Live \subseteq Reach(1, {})
    /\ pc = "cfg" =>
         /\ \A n \in 1..Len(todo) : todo[n] \in Live
         /\ \A b \in Live : Targets(b) \subseteq Live \/ \E n \in 1..Len(todo) : todo[n] = b
    /\ pc # "cfg" => /\ Live = Reach(1, {})
                     /\ comeFrom = [b \in Blocks |-> { s \in Live : b \in Targets(s) }]
                     /\ \A b \in Live : dom[b] \subseteq Live

(* A backward sweep loses no post-dominator, and one that has not changed  *)
(* anything leaves solved blocks behind.                                   *)
PdomInv ==
    pc = "pdom" =>
        /\ \A b \in Live : TruePdom(b) \subseteq dom[b] /\ (IsExit(b) => dom[b] = {b})
        /\ ~iterate => \A n \in 1..Len(live) :
              n > at /\ ~IsExit(live[n]) => dom[live[n]] = PdomOf(live[n])

IdomInv == pc = "done" => \A b \in Live : idom[b] = Immediate(b, 1)

GraphInv == CfgInv /\ PdomInv /\ PdomCorrect /\ IdomInv

(* These are about the labels, which nothing changes.                      *)
LEMMA SameGraph ==
    ASSUME UNCHANGED label
    PROVE  /\ \A x, a : Reach(x, a)' = Reach(x, a)
           /\ \A x : TrueDom(x)' = TrueDom(x) /\ TruePdom(x)' = TruePdom(x)
           /\ \A x : Targets(x)' = Targets(x) /\ IsExit(x)' = IsExit(x)
           /\ \A x : CanExit(x)' = CanExit(x)
<1>1. \A x, a : Reach(x, a)' = Reach(x, a)
  <2>1. ASSUME NEW x, NEW a
        PROVE  Reach(x, a)' = Reach(x, a)
    BY DEF Reach, Targets
  <2> QED
    BY <2>1
<1>2. \A x : Targets(x)' = Targets(x) /\ IsExit(x)' = IsExit(x)
  BY DEF Targets, IsExit
<1>3. \A x : TrueDom(x)' = TrueDom(x)
  BY <1>1 DEF TrueDom, Dominates
<1>4. \A x : TruePdom(x)' = TruePdom(x)
  BY <1>1, <1>2 DEF TruePdom, PostDominates
<1>5. \A x : CanExit(x)' = CanExit(x)
  BY <1>1, <1>2 DEF CanExit
<1> QED
  BY <1>1, <1>2, <1>3, <1>4, <1>5

LEMMA Concatenation ==
    ASSUME NEW S, NEW s \in Seq(S), NEW t \in Seq(S)
    PROVE  /\ s \o t \in Seq(S)
           /\ \A n \in 1..Len(s) : n \in 1..Len(s \o t) /\ (s \o t)[n] = s[n]
           /\ \A n \in 1..Len(t) : Len(s) + n \in 1..Len(s \o t) /\ (s \o t)[Len(s) + n] = t[n]
           /\ \A n \in 1..Len(s \o t) : n \in 1..Len(s) \/ \E k \in 1..Len(t) : n = Len(s) + k
<1>1. s \o t \in Seq(S) /\ Len(s \o t) = Len(s) + Len(t) /\ Len(s) \in Nat /\ Len(t) \in Nat
  OBVIOUS
<1>2. \A n \in 1..Len(s) : n \in 1..Len(s \o t) /\ (s \o t)[n] = s[n]
  BY <1>1
<1>3. \A n \in 1..Len(t) : Len(s) + n \in 1..Len(s \o t) /\ (s \o t)[Len(s) + n] = t[n]
  BY <1>1
<1>4. ASSUME NEW n \in 1..Len(s \o t), n \notin 1..Len(s)
      PROVE  n - Len(s) \in 1..Len(t) /\ n = Len(s) + (n - Len(s))
  <2>1. \A a, c \in Nat : \A x \in 1..(a + c) : x \in 1..a \/ (x - a \in 1..c /\ x = a + (x - a))
    OBVIOUS
  <2> QED
    BY <1>1, <1>4, <2>1
<1> QED
  BY <1>1, <1>2, <1>3, <1>4

LEMMA AllButLast ==
    ASSUME NEW S, NEW s \in Seq(S), Len(s) > 0
    PROVE  LET front == SubSeq(s, 1, Len(s) - 1)
           IN  /\ front \in Seq(S) /\ Len(front) = Len(s) - 1
               /\ \A n \in 1..(Len(s) - 1) : front[n] = s[n]
<1> DEFINE m == Len(s) - 1
<1>1. m \in Nat /\ m <= Len(s) /\ Len(s) \in Nat
  OBVIOUS
<1> HIDE DEF m
<1>2. SubSeq(s, 1, m) = [n \in 1..m |-> s[n]]
  BY <1>1
<1>3. \A n \in 1..m : s[n] \in S
  BY <1>1
<1>4. [n \in 1..m |-> s[n]] \in Seq(S) /\ Len([n \in 1..m |-> s[n]]) = m
  BY <1>1, <1>3
<1>5. \A n \in 1..m : SubSeq(s, 1, m)[n] = s[n]
  BY <1>2
<1> QED
  BY <1>2, <1>4, <1>5 DEF m

LEMMA NewLabelsCover ==
    ASSUME label \in Graphs, NEW b \in Blocks
    PROVE  /\ \A n \in 1..Len(NewLabels(b)) : NewLabels(b)[n] \in Targets(b)
           /\ \A t \in Targets(b) : t \in Live \/ \E n \in 1..Len(NewLabels(b)) : NewLabels(b)[n] = t
<1>a. label \in [Blocks -> Seq(Blocks)] /\ \A c \in Blocks : Len(label[c]) <= 2
  BY GraphsAssumption
<1>b. label[b] \in Seq(Blocks) /\ Len(label[b]) <= 2
  BY <1>a
<1>c. Len(label[b]) \in Nat /\ DOMAIN label[b] = 1..Len(label[b])
  BY <1>b
<1>1. label[b] \in Seq(Blocks) /\ Len(label[b]) \in 0..2 /\ DOMAIN label[b] = 1..Len(label[b])
  <2>1. \A m \in Nat : m <= 2 => m \in 0..2
    OBVIOUS
  <2> QED
    BY <1>b, <1>c, <2>1
<1> DEFINE new == { k \in DOMAIN label[b] : /\ label[b][k] \notin Live
                                            /\ k = 2 => label[b][1] # label[b][2] }
<1>2. /\ \A k \in DOMAIN label[b] : k = 1 \/ k = 2
      /\ new \subseteq DOMAIN label[b]
  <2>1. \A m \in 0..2 : \A k \in 1..m : k = 1 \/ k = 2
    OBVIOUS
  <2> QED
    BY <1>1, <2>1
<1>3. NewLabels(b) = IF new = {} THEN << >> ELSE IF new = {1, 2} THEN label[b]
                     ELSE <<label[b][CHOOSE k \in new : TRUE]>>
  BY DEF NewLabels
<1>4. \A k \in DOMAIN label[b] : label[b][k] \in Live \/ \E j \in new : label[b][j] = label[b][k]
  <2> SUFFICES ASSUME NEW k \in DOMAIN label[b], label[b][k] \notin Live
               PROVE  \E j \in new : label[b][j] = label[b][k]
    OBVIOUS
  <2>1. CASE k \in new
    BY <2>1
  <2>2. CASE k \notin new
    <3>1. k = 2 /\ label[b][1] = label[b][2] /\ 1 \in DOMAIN label[b]
      BY <1>1, <2>2
    <3>2. 1 \in new
      BY <3>1
    <3> QED
      BY <3>1, <3>2
  <2> QED
    BY <2>1, <2>2
<1>5. ASSUME new # {}, new # {1, 2}
      PROVE  \A j \in new : j = CHOOSE k \in new : TRUE
  BY <1>2, <1>5
<1> HIDE DEF new
<1>6. CASE new = {}
  BY <1>3, <1>4, <1>6 DEF Targets
<1>7. CASE new = {1, 2}
  BY <1>1, <1>3, <1>4, <1>7 DEF Targets
<1>8. CASE new # {} /\ new # {1, 2}
  <2> DEFINE j == CHOOSE k \in new : TRUE
  <2>1. j \in new
    BY <1>8
  <2>2. NewLabels(b) = <<label[b][j]>>
    BY <1>3, <1>8
  <2>3. Len(NewLabels(b)) = 1 /\ NewLabels(b)[1] = label[b][j]
    BY <2>2
  <2>4. \A k \in new : k = j
    BY <1>5, <1>8
  <2> HIDE DEF j
  <2> QED
    BY <1>2, <1>4, <2>1, <2>3, <2>4 DEF Targets
<1> QED
  BY <1>6, <1>7, <1>8

LEMMA InitGraph == Init => GraphInv
<1> SUFFICES ASSUME Init PROVE GraphInv
  OBVIOUS
<1>1. label \in Graphs /\ Graph /\ 1 \in Blocks
  BY GraphsAssumption, BlocksAssumption DEF Init, Graph
<1>2. Live = {1} /\ Len(todo) = 1 /\ todo[1] = 1 /\ pc = "cfg"
  BY DEF Init, Live
<1>3. 1 \in Reach(1, {})
  BY <1>1, ReachClosed DEF Graph
<1> QED
  BY <1>1, <1>2, <1>3 DEF GraphInv, CfgInv, PdomInv, PdomCorrect, IdomInv

LEMMA GraphTyped == IInv => Graph /\ live \in Seq(Blocks) /\ Live \subseteq Blocks /\ TypeOK
BY LiveInBlocks DEF IInv, TypeOK, Graph

LEMMA WalkGraph == IInv /\ GraphInv /\ walk => GraphInv'
<1> SUFFICES ASSUME IInv, GraphInv, walk PROVE GraphInv'
  OBVIOUS
<1> DEFINE b == todo[Len(todo)]
           new == NewLabels(b)
           front == SubSeq(todo, 1, Len(todo) - 1)
<1>1. /\ Graph /\ live \in Seq(Blocks) /\ todo \in Seq(Blocks) /\ TypeOK
      /\ label' = label /\ pc = "cfg" /\ pc' = "cfg" /\ Len(todo) \in Nat \ {0}
      /\ todo' = front \o new /\ live' = live \o new
  BY GraphTyped DEF walk, IInv, TypeOK
<1>2. /\ label \in Graphs /\ Live \subseteq Reach(1, {})
      /\ \A n \in 1..Len(todo) : todo[n] \in Live
      /\ \A c \in Live : Targets(c) \subseteq Live \/ \E n \in 1..Len(todo) : todo[n] = c
  BY <1>1 DEF GraphInv, CfgInv
<1>3. b \in Blocks /\ b \in Live
  BY <1>1, <1>2
<1>4. new \in Seq(Blocks)
  BY <1>1, <1>3, NewLabelsType
<1>5. /\ \A n \in 1..Len(new) : new[n] \in Targets(b)
      /\ \A t \in Targets(b) : t \in Live \/ \E n \in 1..Len(new) : new[n] = t
  BY <1>2, <1>3, NewLabelsCover
<1>6. /\ front \in Seq(Blocks) /\ Len(front) = Len(todo) - 1
      /\ \A n \in 1..(Len(todo) - 1) : front[n] = todo[n]
  BY <1>1, AllButLast
<1> HIDE DEF new, front
<1>7. /\ \A x \in Live' : x \in Live \/ \E n \in 1..Len(new) : new[n] = x
      /\ Live \subseteq Live' /\ \A n \in 1..Len(new) : new[n] \in Live'
  <2>1. /\ live' \in Seq(Blocks)
        /\ \A n \in 1..Len(live) : n \in 1..Len(live') /\ live'[n] = live[n]
        /\ \A n \in 1..Len(new) : Len(live) + n \in 1..Len(live') /\ live'[Len(live) + n] = new[n]
        /\ \A n \in 1..Len(live') : n \in 1..Len(live) \/ \E k \in 1..Len(new) : n = Len(live) + k
    BY <1>1, <1>4, Concatenation
  <2>2. DOMAIN live' = 1..Len(live') /\ DOMAIN live = 1..Len(live)
    <3>1. live \in Seq(Blocks) /\ live' \in Seq(Blocks)
      BY <1>1, <2>1
    <3> QED
      BY <3>1
  <2>3. \A x : x \in Live <=> \E n \in 1..Len(live) : live[n] = x
    BY <2>2 DEF Live
  <2>4. \A x : x \in Live' <=> \E n \in 1..Len(live') : live'[n] = x
    BY <2>2 DEF Live
  <2>5. \A x \in Live : x \in Live'
    BY <2>1, <2>3, <2>4
  <2>6. \A n \in 1..Len(new) : new[n] \in Live'
    BY <2>1, <2>4
  <2>7. ASSUME NEW x \in Live'
        PROVE  x \in Live \/ \E n \in 1..Len(new) : new[n] = x
    <3>1. PICK n \in 1..Len(live') : live'[n] = x
      BY <2>4
    <3>2. CASE n \in 1..Len(live)
      <4>1. live[n] = x
        BY <2>1, <3>1, <3>2
      <4> QED
        BY <2>3, <3>2, <4>1
    <3>3. ASSUME NEW k \in 1..Len(new), n = Len(live) + k
          PROVE  new[k] = x
      BY <2>1, <3>1, <3>3
    <3> QED
      BY <2>1, <3>2, <3>3
  <2> QED
    BY <2>5, <2>6, <2>7
<1>8. /\ \A n \in 1..Len(todo') : todo'[n] \in Live \/ \E k \in 1..Len(new) : new[k] = todo'[n]
      /\ \A n \in 1..(Len(todo) - 1) : n \in 1..Len(todo') /\ todo'[n] = todo[n]
      /\ \A n \in 1..Len(new) : \E k \in 1..Len(todo') : todo'[k] = new[n]
  <2>1. /\ \A n \in 1..Len(front) : n \in 1..Len(todo') /\ todo'[n] = front[n]
        /\ \A n \in 1..Len(new) : Len(front) + n \in 1..Len(todo') /\ todo'[Len(front) + n] = new[n]
        /\ \A n \in 1..Len(todo') : n \in 1..Len(front) \/ \E k \in 1..Len(new) : n = Len(front) + k
    <3>1. todo' = front \o new
      BY <1>1
    <3>2. front \in Seq(Blocks) /\ new \in Seq(Blocks)
      BY <1>4, <1>6
    <3> HIDE DEF b
    <3> QED
      BY <3>1, <3>2, Concatenation
  <2>2. \A n \in 1..(Len(todo) - 1) : n \in 1..Len(todo)
    BY <1>1
  <2>3. ASSUME NEW n \in 1..Len(todo')
        PROVE  todo'[n] \in Live \/ \E k \in 1..Len(new) : new[k] = todo'[n]
    <3>1. CASE n \in 1..Len(front)
      <4>1. n \in 1..(Len(todo) - 1)
        BY <1>6, <3>1
      <4> QED
        BY <2>1, <2>2, <4>1, <3>1, <1>2, <1>6
    <3>2. ASSUME NEW k \in 1..Len(new), n = Len(front) + k
          PROVE  new[k] = todo'[n]
      BY <2>1, <3>2
    <3> QED
      BY <2>1, <3>1, <3>2
  <2>4. \A n \in 1..(Len(todo) - 1) : n \in 1..Len(todo') /\ todo'[n] = todo[n]
    BY <2>1, <1>6
  <2>5. \A n \in 1..Len(new) : \E k \in 1..Len(todo') : todo'[k] = new[n]
    BY <2>1
  <2> QED
    BY <2>3, <2>4, <2>5
<1>9. Live' \subseteq Reach(1, {})
  <2>1. Targets(b) \subseteq Reach(1, {})
    BY <1>1, <1>2, <1>3, ReachClosed, BlocksAssumption DEF Closed, Graph
  <2> QED
    BY <1>2, <1>5, <1>7, <2>1
<1>10. Targets(b) \subseteq Live'
  BY <1>5, <1>7
<1>11. ASSUME NEW c \in Live'
       PROVE  Targets(c) \subseteq Live' \/ \E n \in 1..Len(todo') : todo'[n] = c
  <2>1. CASE \E n \in 1..Len(new) : new[n] = c
    BY <1>8, <2>1
  <2>2. CASE Targets(c) \subseteq Live
    BY <1>7, <2>2
  <2>3. ASSUME NEW n \in 1..Len(todo), todo[n] = c
        PROVE  Targets(c) \subseteq Live' \/ \E k \in 1..Len(todo') : todo'[k] = c
    <3>1. CASE n = Len(todo)
      BY <1>10, <2>3, <3>1
    <3>2. CASE n # Len(todo)
      <4>1. n \in 1..(Len(todo) - 1)
        BY <1>1, <3>2
      <4> QED
        BY <1>8, <2>3, <4>1
    <3> QED
      BY <3>1, <3>2
  <2> QED
    BY <1>2, <1>7, <2>1, <2>2, <2>3
<1>12. /\ \A n \in 1..Len(todo') : todo'[n] \in Live'
  BY <1>7, <1>8
<1>13. CfgInv'
  BY <1>1, <1>2, <1>9, <1>11, <1>12, SameGraph DEF CfgInv
<1> QED
  BY <1>1, <1>13 DEF GraphInv, PdomInv, PdomCorrect, IdomInv

-----------------------------------------------------------------------------
(* The sweeps.                                                             *)

(* What is known of the graph when the sweeps begin.                       *)
Walked ==
    /\ Graph /\ TypeOK /\ Live = Reach(1, {}) /\ Live \subseteq Blocks /\ 1 \in Live
    /\ \A b \in Live : Targets(b) \subseteq Live /\ dom[b] \subseteq Live
    /\ \A b \in Live : comeFrom[b] = { s \in Live : b \in Targets(s) }

LEMMA IsWalked == IInv /\ GraphInv /\ pc # "cfg" => Walked
<1> SUFFICES ASSUME IInv, GraphInv, pc # "cfg" PROVE Walked
  OBVIOUS
<1>1. /\ Graph /\ TypeOK /\ Live = Reach(1, {}) /\ Live \subseteq Blocks
      /\ comeFrom = [b \in Blocks |-> { s \in Live : b \in Targets(s) }]
      /\ \A b \in Live : dom[b] \subseteq Live
  BY GraphTyped DEF GraphInv, CfgInv
<1>2. 1 \in Live /\ \A b \in Live : Targets(b) \subseteq Live
  BY <1>1, ReachClosed, BlocksAssumption DEF Closed, Graph
<1> QED
  BY <1>1, <1>2 DEF Walked

(* A step of the backward sweep keeps the post-dominators.                 *)
LEMMA PdomStepLosesNone ==
    ASSUME Walked, \A c \in Live : TruePdom(c) \subseteq dom[c],
           NEW b \in Live, ~IsExit(b)
    PROVE  TruePdom(b) \subseteq PdomOf(b)
<1> SUFFICES ASSUME NEW d \in TruePdom(b), d # b, NEW t \in Targets(b)
             PROVE  d \in Live /\ d \in dom[t]
  BY DEF PdomOf, Common, Walked, TruePdom
<1>1. /\ d \in Live /\ d \in Blocks /\ b \in Blocks /\ t \in Live /\ t \in Blocks
      /\ \A e \in Reach(b, {d}) : ~IsExit(e)
  BY DEF Walked, TruePdom, PostDominates
<1>2. CASE t = d
  <2>1. t \in TruePdom(t)
    BY <1>1, PdomPartial DEF Walked
  <2> QED
    BY <1>1, <1>2, <2>1
<1>3. CASE t # d
  <2>1. b \in Reach(b, {d}) /\ Closed(Reach(b, {d}), {d})
    BY <1>1, ReachClosed DEF Walked, Graph
  <2>2. t \in Reach(b, {d})
    BY <1>3, <2>1 DEF Closed
  <2>3. Reach(t, {d}) \subseteq Reach(b, {d})
    BY <1>1, <2>2, ReachOn DEF Walked
  <2>4. d \in TruePdom(t)
    BY <1>1, <2>3 DEF TruePdom, PostDominates, Walked
  <2> QED
    BY <1>1, <2>4
<1> QED
  BY <1>2, <1>3

(* Solved sets only name post-dominators.                                  *)
LEMMA SolvedArePdoms ==
    ASSUME Walked,
           \A b \in Live : dom[b] = IF IsExit(b) THEN {b} ELSE PdomOf(b),
           NEW b \in Live
    PROVE  dom[b] \subseteq TruePdom(b)
<1> SUFFICES ASSUME NEW d \in dom[b]
             PROVE  \A e \in Reach(b, {d}) : ~IsExit(e)
  BY DEF TruePdom, PostDominates, Walked
<1> DEFINE X == { x \in Live : d \in dom[x] /\ x # d }
<1>1. \A x \in X : ~IsExit(x)
  OBVIOUS
<1>2. Closed(X, {d})
  <2> SUFFICES ASSUME NEW x \in X, NEW t \in Targets(x), t # d
               PROVE  t \in Live /\ d \in dom[t]
    BY DEF Closed
  <2>1. t \in Live /\ x \in Live /\ d \in PdomOf(x) /\ d # x
    BY <1>1 DEF Walked
  <2> QED
    BY <2>1 DEF PdomOf, Common
<1>3. {b} \ {d} \subseteq X
  OBVIOUS
<1> HIDE DEF X
<1>4. Reach(b, {d}) \subseteq X
  BY <1>2, <1>3, ReachLeast DEF Walked, Graph
<1> QED
  BY <1>1, <1>4

LEMMA BeginPdomGraph == IInv /\ GraphInv /\ beginPdom => GraphInv'
<1> SUFFICES ASSUME IInv, GraphInv, beginPdom PROVE GraphInv'
  OBVIOUS
<1>1. /\ Graph /\ TypeOK /\ Live \subseteq Blocks /\ label \in Graphs /\ Live \subseteq Reach(1, {})
      /\ \A b \in Live : Targets(b) \subseteq Live \/ \E n \in 1..Len(todo) : todo[n] = b
      /\ todo = << >> /\ 1 \in Live
      /\ label' = label /\ live' = live /\ pc' = "pdom" /\ iterate' = FALSE /\ at' = Len(live)
      /\ comeFrom' = [b \in Blocks |-> { s \in Live : b \in Targets(s) }]
      /\ dom' = [b \in Blocks |->
                IF b \notin Live THEN dom[b] ELSE IF IsExit(b) THEN {b} ELSE Live]
  BY GraphTyped DEF GraphInv, CfgInv, beginPdom, IInv, EntryLive, Live
<1>2. 1 \in Blocks
  BY BlocksAssumption
<1>3. Live = Reach(1, {})
  <2>1. \A b \in Live : Targets(b) \subseteq Live
    BY <1>1
  <2>2. Closed(Live, {}) /\ {1} \ {} \subseteq Live
    BY <1>1, <2>1 DEF Closed
  <2>3. Reach(1, {}) \subseteq Live
    BY <1>1, <1>2, <2>2, ReachLeast DEF Graph
  <2> QED
    BY <1>1, <2>3
<1>4. Live' = Live
  BY <1>1 DEF Live
<1>5. \A b \in Live : dom'[b] = IF IsExit(b) THEN {b} ELSE Live
  BY <1>1
<1>6. CfgInv'
  <2>1. \A b \in Live : dom'[b] \subseteq Live
    BY <1>5
  <2>2. \A s : Targets(s)' = Targets(s)
    BY <1>1, SameGraph
  <2>3. comeFrom' = [b \in Blocks |-> { s \in Live' : b \in Targets(s)' }]
    BY <1>1, <1>4, <2>2
  <2>4. Reach(1, {})' = Reach(1, {})
    BY <1>1, SameGraph
  <2> QED
    BY <1>1, <1>3, <1>4, <2>1, <2>3, <2>4 DEF CfgInv
<1>7. PdomInv'
  <2>1. ASSUME NEW b \in Live
        PROVE  TruePdom(b) \subseteq dom'[b]
    <3>1. b \in Blocks /\ TruePdom(b) \subseteq Live
      BY <1>1, <1>3 DEF TruePdom
    <3>2. CASE IsExit(b)
      <4> SUFFICES ASSUME NEW d \in TruePdom(b), d # b
                   PROVE  FALSE
        BY <1>5, <3>2
      <4>1. b \in Reach(b, {d})
        BY <1>1, <3>1, ReachClosed DEF Graph
      <4> QED
        BY <3>2, <4>1 DEF TruePdom, PostDominates
    <3>3. CASE ~IsExit(b)
      BY <1>5, <3>1, <3>3
    <3> QED
      BY <3>2, <3>3
  <2>2. \A b : TruePdom(b)' = TruePdom(b) /\ IsExit(b)' = IsExit(b)
    BY <1>1, SameGraph
  <2>3. \A n \in 1..Len(live) : ~(n > Len(live))
    BY <1>1 DEF TypeOK
  <2> QED
    BY <1>1, <1>4, <1>5, <2>1, <2>2, <2>3 DEF PdomInv
<1> QED
  BY <1>1, <1>6, <1>7 DEF GraphInv, PdomCorrect, IdomInv

LEMMA PdomStepGraph == IInv /\ GraphInv /\ pdomStep => GraphInv'
<1> SUFFICES ASSUME IInv, GraphInv, pdomStep PROVE GraphInv'
  OBVIOUS
<1> DEFINE b == live[at]
<1>1. /\ Walked /\ live \in Seq(Blocks) /\ Len(live) \in Nat /\ at \in 1..Len(live)
      /\ pc = "pdom" /\ pc' = "pdom" /\ at' = at - 1
      /\ label' = label /\ live' = live /\ comeFrom' = comeFrom
  BY IsWalked, GraphTyped DEF IInv, AtInLive, TypeOK, pdomStep
<1>2. Live' = Live
  BY <1>1 DEF Live
<1>3. b \in Live /\ b \in Blocks
  BY <1>1, Positions DEF Walked
<1>4. /\ \A c \in Live : TruePdom(c) \subseteq dom[c] /\ (IsExit(c) => dom[c] = {c})
      /\ ~iterate => \A n \in 1..Len(live) :
            n > at /\ ~IsExit(live[n]) => dom[live[n]] = PdomOf(live[n])
  BY <1>1 DEF GraphInv, PdomInv
<1>5. ~IsExit(b) => PdomOf(b) \subseteq dom[b] /\ Update(b, PdomOf(b))
  BY <1>1, <1>3 DEF IInv, Above, pdomStep, PdomOf
<1>6. /\ \A c \in Blocks \ {b} : dom'[c] = dom[c]
      /\ ~IsExit(b) => dom'[b] = PdomOf(b)
      /\ IsExit(b) => dom' = dom
  <2>1. CASE IsExit(b)
    BY <1>1, <2>1 DEF pdomStep
  <2>2. CASE ~IsExit(b)
    BY <1>1, <1>3, <1>5, <2>2, UpdateShrinks DEF Walked
  <2> QED
    BY <2>1, <2>2
<1>7. TruePdom(b) \subseteq dom'[b]
  <2>1. CASE IsExit(b)
    BY <1>3, <1>4, <1>6, <2>1
  <2>2. CASE ~IsExit(b)
    BY <1>1, <1>3, <1>4, <1>6, <2>2, PdomStepLosesNone
  <2> QED
    BY <2>1, <2>2
<1>8. CfgInv'
  <2>1. PdomOf(b) \subseteq Live
    BY <1>3 DEF PdomOf, Common
  <2>2. \A c \in Live : dom'[c] \subseteq Live
    <3>1. ASSUME NEW c \in Live
          PROVE  dom'[c] \subseteq Live
      <4>1. c \in Blocks /\ dom[c] \subseteq Live
        BY <1>1 DEF Walked
      <4>2. CASE c = b
        BY <1>6, <2>1, <4>1, <4>2
      <4>3. CASE c # b
        BY <1>6, <4>1, <4>3
      <4> QED
        BY <4>2, <4>3
    <3> QED
      BY <3>1
  <2>3. /\ \A s : Targets(s)' = Targets(s)
        /\ Reach(1, {})' = Reach(1, {})
    BY <1>1, SameGraph
  <2> QED
    BY <1>1, <1>2, <2>2, <2>3 DEF CfgInv, GraphInv
<1>9. ASSUME ~iterate', NEW n \in 1..Len(live), n > at - 1, ~IsExit(live[n])
      PROVE  dom'[live[n]] = PdomOf(live[n])'
  <2>1. dom' = dom /\ ~iterate
    <3>1. CASE IsExit(b)
      BY <1>1, <1>9, <3>1 DEF pdomStep
    <3>2. CASE ~IsExit(b)
      BY <1>1, <1>3, <1>5, <1>9, <3>2, SameSize DEF Walked
    <3> QED
      BY <3>1, <3>2
  <2>2. PdomOf(live[n])' = PdomOf(live[n])
    <3>1. \A x : Targets(x)' = Targets(x)
      BY <1>1, SameGraph
    <3> QED
      BY <1>1, <1>2, <2>1, <3>1 DEF PdomOf, Common
  <2>3. CASE n = at
    BY <1>6, <1>9, <2>1, <2>2, <2>3
  <2>4. CASE n > at
    BY <1>4, <1>9, <2>1, <2>2, <2>4
  <2> QED
    BY <1>1, <1>9, <2>3, <2>4
<1>10. PdomInv'
  <2>1. \A c : TruePdom(c)' = TruePdom(c) /\ IsExit(c)' = IsExit(c)
    BY <1>1, SameGraph
  <2>2. \A c \in Live : TruePdom(c) \subseteq dom'[c] /\ (IsExit(c) => dom'[c] = {c})
    <3>1. ASSUME NEW c \in Live
          PROVE  TruePdom(c) \subseteq dom'[c] /\ (IsExit(c) => dom'[c] = {c})
      <4>1. c \in Blocks
        BY <1>1 DEF Walked
      <4>2. CASE c = b
        BY <1>3, <1>4, <1>6, <1>7, <4>2
      <4>3. CASE c # b
        BY <1>4, <1>6, <4>1, <4>3
      <4> QED
        BY <4>2, <4>3
    <3> QED
      BY <3>1
  <2> QED
    BY <1>1, <1>2, <1>9, <2>1, <2>2 DEF PdomInv
<1> QED
  BY <1>1, <1>8, <1>10 DEF GraphInv, PdomCorrect, IdomInv

LEMMA PdomAgainGraph == IInv /\ GraphInv /\ pdomAgain => GraphInv'
<1> SUFFICES ASSUME IInv, GraphInv, pdomAgain PROVE GraphInv'
  OBVIOUS
<1>1. /\ live \in Seq(Blocks) /\ Len(live) \in Nat
      /\ pc = "pdom" /\ pc' = "pdom" /\ at' = Len(live) /\ iterate' = FALSE
      /\ label' = label /\ live' = live /\ comeFrom' = comeFrom /\ dom' = dom
  BY GraphTyped DEF pdomAgain
<1>2. /\ Live' = Live
      /\ \A s : Targets(s)' = Targets(s) /\ TruePdom(s)' = TruePdom(s) /\ IsExit(s)' = IsExit(s)
      /\ Reach(1, {})' = Reach(1, {})
  BY <1>1, SameGraph DEF Live
<1>3. CfgInv'
  BY <1>1, <1>2 DEF GraphInv, CfgInv
<1>4. \A n \in 1..Len(live) : ~(n > Len(live))
  BY <1>1
<1>5. PdomInv'
  BY <1>1, <1>2, <1>4 DEF GraphInv, PdomInv
<1> QED
  BY <1>1, <1>3, <1>5 DEF GraphInv, PdomCorrect, IdomInv

LEMMA BeginDomGraph == IInv /\ GraphInv /\ beginDom => GraphInv'
<1> SUFFICES ASSUME IInv, GraphInv, beginDom PROVE GraphInv'
  OBVIOUS
<1>1. /\ Walked /\ live \in Seq(Blocks) /\ Len(live) \in Nat
      /\ pc = "pdom" /\ pc' = "dom" /\ at = 0 /\ ~iterate
      /\ label' = label /\ live' = live /\ comeFrom' = comeFrom
      /\ pdom' = [b \in Blocks |-> IF b \in Live THEN Immediate(b, noVal) ELSE pdom[b]]
      /\ dom' = [b \in Blocks |->
                IF b \notin Live THEN dom[b] ELSE IF b = 1 THEN {1} ELSE Live]
  BY IsWalked, GraphTyped DEF beginDom
<1>2. Live' = Live /\ 1 \in Live /\ Live \subseteq Blocks
  BY <1>1 DEF Live, Walked
<1>3. CfgInv'
  <2>1. \A b \in Live : dom'[b] \subseteq Live
    BY <1>1, <1>2
  <2>2. /\ \A s : Targets(s)' = Targets(s)
        /\ Reach(1, {})' = Reach(1, {})
    BY <1>1, SameGraph
  <2> QED
    BY <1>1, <1>2, <2>1, <2>2 DEF CfgInv, GraphInv
<1>4. \A b \in Live : dom[b] = IF IsExit(b) THEN {b} ELSE PdomOf(b)
  <2> SUFFICES ASSUME NEW b \in Live
               PROVE  dom[b] = IF IsExit(b) THEN {b} ELSE PdomOf(b)
    OBVIOUS
  <2>1. PICK n \in 1..Len(live) : live[n] = b
    BY <1>1, Positions
  <2>2. n > at
    BY <1>1
  <2> QED
    BY <1>1, <2>1, <2>2 DEF GraphInv, PdomInv
<1>5. \A b \in Live : dom[b] = TruePdom(b)
  <2>1. \A b \in Live : TruePdom(b) \subseteq dom[b]
    BY <1>1 DEF GraphInv, PdomInv
  <2>2. \A b \in Live : dom[b] \subseteq TruePdom(b)
    BY <1>1, <1>4, SolvedArePdoms
  <2> QED
    BY <2>1, <2>2
<1>6. ASSUME NEW b \in Live, CanExit(b)
      PROVE  LET strict == TruePdom(b) \ {b}
             IN  IF strict = {} THEN pdom'[b] = noVal
                 ELSE pdom'[b] \in strict /\ strict \subseteq TruePdom(pdom'[b])
  <2>1. /\ b \in Blocks /\ Graph /\ TypeOK /\ Live = Reach(1, {}) /\ b \in Reach(1, {})
        /\ TruePdom(b) \subseteq Live
    BY <1>1 DEF Walked, TruePdom
  <2>2. /\ b \in TruePdom(b)
        /\ \A d \in TruePdom(b) \ {b} : b \notin TruePdom(d)
        /\ \A d, e \in TruePdom(b) : d \in TruePdom(e) \/ e \in TruePdom(d)
    BY <1>6, <2>1, PdomChain, PdomPartial
  <2>3. \A d \in TruePdom(b) : d \in TruePdom(d) /\ \A e \in TruePdom(d) : TruePdom(e) \subseteq TruePdom(d)
    BY <2>1, PdomPartial
  <2>4. \A d \in Live : TruePdom(d) \subseteq Live
    BY <2>1 DEF TruePdom
  <2>5. Chain(b)
    BY <1>5, <2>1, <2>2, <2>3, <2>4 DEF Chain
  <2>6. pdom'[b] = Immediate(b, noVal)
    BY <1>1, <2>1
  <2>7. /\ dom[b] = {b} => Immediate(b, noVal) = noVal
        /\ dom[b] # {b} => /\ Immediate(b, noVal) \in dom[b] \ {b}
                           /\ dom[Immediate(b, noVal)] = dom[b] \ {b}
    BY <2>1, <2>5, ImmediateFacts
  <2>8. CASE TruePdom(b) \ {b} = {}
    BY <1>5, <2>2, <2>6, <2>7, <2>8
  <2>9. CASE TruePdom(b) \ {b} # {}
    <3>1. dom[b] = TruePdom(b) /\ dom[b] # {b}
      BY <1>5, <2>9
    <3>2. pdom'[b] \in TruePdom(b) \ {b} /\ dom[pdom'[b]] = TruePdom(b) \ {b}
      BY <2>6, <2>7, <3>1
    <3>3. pdom'[b] \in Live
      BY <2>1, <3>2
    <3> QED
      BY <1>5, <2>9, <3>2, <3>3
  <2> QED
    BY <2>8, <2>9
<1>7. PdomCorrect'
  <2>1. \A x : TruePdom(x)' = TruePdom(x) /\ CanExit(x)' = CanExit(x)
    BY <1>1, SameGraph
  <2> QED
    BY <1>2, <1>6, <2>1 DEF PdomCorrect
<1> QED
  BY <1>1, <1>3, <1>7 DEF GraphInv, PdomInv, IdomInv

LEMMA DomStepGraph == IInv /\ GraphInv /\ domStep => GraphInv'
<1> SUFFICES ASSUME IInv, GraphInv, domStep PROVE GraphInv'
  OBVIOUS
<1> DEFINE b == live[at]
<1>1. /\ Walked /\ live \in Seq(Blocks) /\ Len(live) \in Nat /\ at \in 1..Len(live)
      /\ pc = "dom" /\ pc' = "dom" /\ label' = label /\ live' = live /\ comeFrom' = comeFrom
      /\ pdom' = pdom
  BY IsWalked, GraphTyped DEF IInv, AtPositive, TypeOK, domStep
<1>2. Live' = Live
  BY <1>1 DEF Live
<1>3. b \in Live /\ b \in Blocks
  BY <1>1, Positions DEF Walked
<1>4. \A c \in Live : dom'[c] \subseteq Live
  <2>1. CASE b = 1
    BY <1>1, <2>1 DEF domStep, Walked
  <2>2. CASE b # 1
    <3>1. Update(b, DomOf(b)) /\ DomOf(b) \subseteq dom[b]
      BY <1>1, <1>3, <2>2 DEF IInv, Above, domStep, DomOf
    <3>2. \A c \in Blocks : dom'[c] \subseteq dom[c]
      BY <1>1, <1>3, <3>1, UpdateShrinks DEF Walked
    <3> QED
      BY <1>1, <3>2 DEF Walked
  <2> QED
    BY <2>1, <2>2
<1>5. CfgInv'
  <2>1. /\ \A s : Targets(s)' = Targets(s)
        /\ Reach(1, {})' = Reach(1, {})
    BY <1>1, SameGraph
  <2> QED
    BY <1>1, <1>2, <1>4, <2>1 DEF CfgInv, GraphInv
<1>6. PdomCorrect'
  <2>1. \A x : TruePdom(x)' = TruePdom(x) /\ CanExit(x)' = CanExit(x)
    BY <1>1, SameGraph
  <2> QED
    BY <1>1, <1>2, <2>1 DEF PdomCorrect, GraphInv
<1> QED
  BY <1>1, <1>5, <1>6 DEF GraphInv, PdomInv, IdomInv

LEMMA QuietGraph ==
    ASSUME GraphInv, UNCHANGED <<label, live, dom, pdom, comeFrom>>,
           pc \in {"dom", "done"}, pc' \in {"dom", "done"}
    PROVE  CfgInv' /\ PdomInv' /\ PdomCorrect'
<1>1. /\ \A x : Targets(x)' = Targets(x)
      /\ \A x : TruePdom(x)' = TruePdom(x) /\ CanExit(x)' = CanExit(x)
      /\ Reach(1, {})' = Reach(1, {}) /\ Live' = Live
  BY SameGraph DEF Live
<1>2. CfgInv'
  BY <1>1 DEF CfgInv, GraphInv
<1>3. PdomCorrect'
  BY <1>1 DEF PdomCorrect, GraphInv
<1> QED
  BY <1>2, <1>3 DEF PdomInv

LEMMA EndDomGraph == IInv /\ GraphInv /\ (domAgain \/ endDom) => GraphInv'
<1> SUFFICES ASSUME IInv, GraphInv, domAgain \/ endDom PROVE GraphInv'
  OBVIOUS
<1>1. /\ UNCHANGED <<label, live, dom, pdom, comeFrom>>
      /\ pc = "dom" /\ pc' \in {"dom", "done"} /\ Live \subseteq Blocks
  BY GraphTyped DEF domAgain, endDom
<1>2. CfgInv' /\ PdomInv' /\ PdomCorrect'
  BY <1>1, QuietGraph
<1>3. IdomInv'
  <2>1. CASE domAgain
    BY <2>1 DEF domAgain, IdomInv
  <2>2. CASE endDom
    <3>1. \A b : Immediate(b, 1)' = Immediate(b, 1) /\ Live' = Live
      BY <1>1 DEF Immediate, OneLess, Live
    <3> QED
      BY <1>1, <2>2, <3>1 DEF endDom, IdomInv
  <2> QED
    BY <2>1, <2>2
<1> QED
  BY <1>2, <1>3 DEF GraphInv

LEMMA StutterGraph == GraphInv /\ UNCHANGED vars => GraphInv'
<1> SUFFICES ASSUME GraphInv, UNCHANGED vars PROVE GraphInv'
  OBVIOUS
<1>1. UNCHANGED <<label, pc, todo, live, comeFrom, dom, pdom, idom, iterate, at>>
  BY DEF vars
<1>2. /\ \A x : Targets(x)' = Targets(x) /\ IsExit(x)' = IsExit(x)
      /\ \A x : TruePdom(x)' = TruePdom(x) /\ CanExit(x)' = CanExit(x)
      /\ Reach(1, {})' = Reach(1, {}) /\ Live' = Live
  BY <1>1, SameGraph DEF Live
<1>3. \A x : Immediate(x, 1)' = Immediate(x, 1) /\ PdomOf(x)' = PdomOf(x)
  BY <1>1, <1>2 DEF Immediate, OneLess, PdomOf, Common
<1>4. CfgInv'
  BY <1>1, <1>2 DEF CfgInv, GraphInv
<1>5. PdomInv'
  BY <1>1, <1>2, <1>3 DEF PdomInv, GraphInv
<1>6. PdomCorrect' /\ IdomInv'
  BY <1>1, <1>2, <1>3 DEF PdomCorrect, IdomInv, GraphInv
<1> QED
  BY <1>4, <1>5, <1>6 DEF GraphInv

LEMMA GraphKept == IInv /\ GraphInv /\ [Next]_vars => GraphInv'
BY WalkGraph, BeginPdomGraph, PdomStepGraph, PdomAgainGraph, BeginDomGraph,
   DomStepGraph, EndDomGraph, StutterGraph
DEF Next, Step, Terminated

LEMMA GraphAlways == Spec => [](IInv /\ GraphInv)
<1>1. Init => IInv /\ GraphInv
  BY InitIInv, InitGraph
<1>2. (IInv /\ GraphInv) /\ [Next]_vars => (IInv /\ GraphInv)'
  BY NextKeeps, GraphKept
<1> QED
  BY <1>1, <1>2, PTL DEF Spec

(* The immediate post-dominator of a block is its closest strict one, and  *)
(* there is none when no block but itself post-dominates it: for every     *)
(* block that can reach an exit, in every graph.                           *)
THEOREM ImmediatePostDominators == Spec => []PdomCorrect
<1>1. IInv /\ GraphInv => PdomCorrect
  BY DEF GraphInv
<1> QED
  BY <1>1, GraphAlways, PTL

-----------------------------------------------------------------------------
(* The dominators are a solution of the equations, and every solution only *)
(* names dominators.                                                       *)

LEMMA DominatorsSolve ==
    ASSUME Walked
    PROVE  LET D == [b \in Blocks |-> IF b \in Live THEN TrueDom(b) ELSE {}]
           IN  D \in [Blocks -> SUBSET Live] /\ Solution(D)
<1> DEFINE D == [b \in Blocks |-> IF b \in Live THEN TrueDom(b) ELSE {}]
<1>1. \A b \in Live : D[b] = TrueDom(b) /\ TrueDom(b) \subseteq Live
  BY DEF Walked, TrueDom
<1>2. D \in [Blocks -> SUBSET Live]
  BY <1>1
<1>3. /\ 1 \in Live /\ Live = Reach(1, {}) /\ Live \subseteq Blocks /\ Graph
      /\ \A b \in Live : comeFrom[b] = { s \in Live : b \in Targets(s) }
  BY DEF Walked
<1> HIDE DEF D
<1>4. D[1] \subseteq {1}
  <2> SUFFICES ASSUME NEW d \in TrueDom(1), d # 1
               PROVE  FALSE
    BY <1>1, <1>3
  <2>1. 1 \in Reach(1, {d})
    BY <1>3, ReachClosed DEF Graph
  <2> QED
    BY <2>1 DEF TrueDom, Dominates
<1>5. ASSUME NEW b \in Live \ {1}, NEW s \in comeFrom[b]
      PROVE  D[b] \subseteq D[s] \cup {b}
  <2>1. s \in Live /\ b \in Targets(s)
    BY <1>3
  <2> SUFFICES ASSUME NEW d \in TrueDom(b), d # b
               PROVE  d \in TrueDom(s)
    BY <1>1, <2>1
  <2>2. Closed(Reach(1, {d}), {d})
    BY <1>3, ReachClosed DEF Graph
  <2>3. s \notin Reach(1, {d})
    BY <2>1, <2>2 DEF Closed, TrueDom, Dominates
  <2> QED
    BY <2>3 DEF TrueDom, Dominates
<1>6. Solution(D)
  BY <1>4, <1>5 DEF Solution
<1> QED
  BY <1>2, <1>6 DEF D

LEMMA SolvedAreDominators ==
    ASSUME Walked, dom[1] = {1}, \A b \in Live \ {1} : dom[b] = DomOf(b), NEW b \in Live
    PROVE  dom[b] \subseteq TrueDom(b)
<1> SUFFICES ASSUME NEW d \in dom[b]
             PROVE  b \notin Reach(1, {d})
  BY DEF TrueDom, Dominates, Walked
<1> DEFINE X == { x \in Live : d \notin dom[x] }
<1>1. /\ 1 \in Live /\ Live = Reach(1, {}) /\ Live \subseteq Blocks /\ Graph
      /\ \A c \in Live : comeFrom[c] = { s \in Live : c \in Targets(s) }
      /\ \A c \in Live : Targets(c) \subseteq Live
  BY DEF Walked
<1>2. {1} \ {d} \subseteq X
  BY <1>1
<1>3. Closed(X, {d})
  <2> SUFFICES ASSUME NEW x \in X, NEW t \in Targets(x), t # d
               PROVE  t \in Live /\ d \notin dom[t]
    BY DEF Closed
  <2>1. x \in Live /\ d \notin dom[x] /\ t \in Live
    BY <1>1
  <2>2. CASE t = 1
    BY <2>1, <2>2
  <2>3. CASE t # 1
    <3>1. x \in comeFrom[t]
      BY <1>1, <2>1
    <3>2. d \notin DomOf(t)
      BY <2>1, <3>1 DEF DomOf, Common
    <3> QED
      BY <2>1, <2>3, <3>2
  <2> QED
    BY <2>2, <2>3
<1> HIDE DEF X
<1>4. Reach(1, {d}) \subseteq X
  BY <1>1, <1>2, <1>3, ReachLeast DEF Graph
<1> QED
  BY <1>4 DEF X

LEMMA DoneIsCorrect == IInv /\ GraphInv /\ AboveSolutions => DomCorrect
<1> SUFFICES ASSUME IInv, GraphInv, AboveSolutions, pc = "done", NEW b \in Live
             PROVE  dom[b] = TrueDom(b)
  BY DEF DomCorrect
<1>1. Walked
  BY IsWalked
<1>2. dom[1] = {1} /\ \A c \in Live \ {1} : dom[c] = DomOf(c)
  BY DEF IInv, DomSolved, DomOf
<1>3. dom[b] \subseteq TrueDom(b)
  BY <1>1, <1>2, SolvedAreDominators
<1> DEFINE D == [c \in Blocks |-> IF c \in Live THEN TrueDom(c) ELSE {}]
<1>4. D \in [Blocks -> SUBSET Live] /\ Solution(D)
  BY <1>1, DominatorsSolve
<1>5. D[b] = TrueDom(b)
  BY <1>1 DEF Walked
<1> HIDE DEF D
<1>6. D[b] \subseteq dom[b]
  BY <1>4 DEF AboveSolutions
<1> QED
  BY <1>3, <1>5, <1>6

(* In the end the sets of rebuild_dom are the dominators: a block is in    *)
(* the set of another one iff it is on every path there, in every graph.   *)
THEOREM DominatorsFound == Spec => []DomCorrect
BY DoneIsCorrect, GraphAlways, NoSolutionLost, PTL

LEMMA IdomIsClosest == IInv /\ GraphInv /\ DomCorrect => IdomOrdersDom
<1> SUFFICES ASSUME IInv, GraphInv, DomCorrect, pc = "done", NEW b \in Live \ {1}
             PROVE  idom[b] \in dom[b] \ {b} /\ dom[b] = {b} \cup dom[idom[b]]
  BY DEF IdomOrdersDom
<1>1. /\ Graph /\ TypeOK /\ Live = Reach(1, {}) /\ Live \subseteq Blocks /\ 1 \in Live
      /\ \A c \in Live : dom[c] = TrueDom(c) /\ dom[c] \subseteq Live
  BY IsWalked DEF Walked, DomCorrect
<1>2. b \in Blocks /\ b \in Reach(1, {}) /\ \A d \in TrueDom(b) : d \in Reach(1, {})
  BY <1>1 DEF TrueDom
<1>3. Chain(b)
  <2>1. /\ b \in TrueDom(b)
        /\ \A d \in TrueDom(b) \ {b} : b \notin TrueDom(d)
        /\ \A d, e \in TrueDom(b) : d \in TrueDom(e) \/ e \in TrueDom(d)
    BY <1>1, <1>2, DomChain
  <2>2. \A d \in TrueDom(b) : d \in TrueDom(d) /\ \A e \in TrueDom(d) : TrueDom(e) \subseteq TrueDom(d)
    BY <1>1, <1>2, DomChain
  <2> QED
    BY <1>1, <1>2, <2>1, <2>2 DEF Chain
<1>4. dom[b] # {b}
  <2>1. Reach(1, {1}) = {}
    BY <1>1, ReachNone
  <2>2. 1 \in TrueDom(b)
    BY <1>1, <2>1 DEF TrueDom, Dominates
  <2> QED
    BY <1>1, <2>2
<1>5. idom[b] = Immediate(b, 1)
  BY DEF GraphInv, IdomInv
<1>6. Immediate(b, 1) \in dom[b] \ {b} /\ dom[Immediate(b, 1)] = dom[b] \ {b}
  BY <1>1, <1>2, <1>3, <1>4, ImmediateFacts
<1> QED
  BY <1>3, <1>5, <1>6 DEF Chain

(* Every block but the entry has an immediate dominator, the set of which  *)
(* is that of the block without itself: following idom visits exactly the  *)
(* dominators, closest first, in every graph.                              *)
THEOREM DominatorsAreATree == Spec => []IdomOrdersDom
BY IdomIsClosest, GraphAlways, DominatorsFound, PTL
=============================================================================
