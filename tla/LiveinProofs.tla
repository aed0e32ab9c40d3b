---------------------------- MODULE LiveinProofs ----------------------------
(***************************************************************************)
(* rebuild_livein finds exactly the live values, for any procedure that    *)
(* has the shape which Proc::sanity checks, in the loop of opt().          *)
(*                                                                         *)
(* The sets of blocks only grow, and what is in them is live, since use    *)
(* counts are zero between blocks; so a round that changes no size changes *)
(* no set, and leaves a solution of the equations of live values.  The     *)
(* blocks a value is live into are the least solution.                     *)
(***************************************************************************)
EXTENDS Sink, SetInduction

-----------------------------------------------------------------------------
(* LiveInto is the least set with the blocks that use a value and with     *)
(* each block that jumps to one of the set, but the one that computes it.  *)

Others(v) == ToSet(live) \ {ops[v].block}
Using(v) == { b \in ToSet(live) : v \in UsedIn(b) } \ {ops[v].block}

Onto(v, r) ==
    r \cup { b \in ToSet(live) \ {ops[v].block} : Targets(ops, blocks, b) \cap r # {} }

Closed(v, r) == \A b \in Others(v) : Targets(ops, blocks, b) \cap r # {} => b \in r

(* The blocks found within n edges.                                        *)
FoundBack(f, v, N) ==
    /\ f[0] = Using(v)
    /\ \A n \in 1..N : f[n] = Onto(v, f[n - 1])
    /\ LiveInto(v) = f[N]

LEMMA BackRecursion ==
    ASSUME NEW N \in Nat, N = Len(blocks), NEW B, ToSet(live) \subseteq B, NEW v
    PROVE  \E f \in [0..N -> SUBSET B] : FoundBack(f, v, N)
<1> DEFINE D == SUBSET B
           c == Using(v)
           G == [n \in 1..N |-> [r \in D |-> Onto(v, r)]]
<1>1. \A r \in D : Onto(v, r) \in D
  BY DEF Onto
<1>2. G \in [1..N -> [D -> D]]
  <2> HIDE DEF D
  <2> QED
    BY <1>1
<1>3. c \in D
  BY DEF Using
<1>4. PICK f \in [0..N -> D] : f[0] = c /\ \A n \in 1..N : f[n] = G[n][f[n - 1]]
  <2> HIDE DEF G, D, c
  <2>1. Recursive(D, c, N, G) # {}
    BY <1>2, <1>3, RecursionExists
  <2> QED
    BY <2>1 DEF Recursive
<1>5. \A n \in 1..N : f[n] = Onto(v, f[n - 1])
  <2> HIDE DEF D, c
  <2>1. \A n \in 1..N : n - 1 \in 0..N
    OBVIOUS
  <2>2. \A n \in 1..N : f[n - 1] \in D
    BY <2>1, <1>4
  <2>3. \A n \in 1..N, x \in D : G[n][x] = Onto(v, x)
    OBVIOUS
  <2> HIDE DEF G
  <2> QED
    BY <1>4, <2>2, <2>3
<1> HIDE DEF G
<1> DEFINE Unfold(h) ==
              [n \in 0..N |->
                IF n = 0 THEN { b \in ToSet(live) : v \in UsedIn(b) } \ {ops[v].block}
                ELSE LET s == h[n - 1]
                     IN  s \cup { b \in ToSet(live) \ {ops[v].block} :
                                    Targets(ops, blocks, b) \cap s # {} }]
<1>6. \A h : /\ DOMAIN Unfold(h) = 0..N /\ Unfold(h)[0] = c
             /\ \A n \in 1..N : Unfold(h)[n] = Onto(v, h[n - 1])
  BY DEF Onto, Using
<1>7. f = Unfold(f)
  <2> HIDE DEF Unfold, c
  <2>1. \A n \in 0..N : f[n] = Unfold(f)[n]
    <3>1. \A n \in 0..N : n = 0 \/ n \in 1..N
      OBVIOUS
    <3> QED
      BY <3>1, <1>4, <1>5, <1>6
  <2>2. Unfold(f) = [n \in 0..N |-> Unfold(f)[n]]
    BY DEF Unfold
  <2> QED
    BY <2>1, <2>2
<1> DEFINE g == CHOOSE h : h = Unfold(h)
<1>8. g = Unfold(g)
  <2> HIDE DEF Unfold
  <2> QED
    BY <1>7
<1>9. LiveInto(v) = g[N]
  BY DEF LiveInto
<1> HIDE DEF g, Unfold, c
<1>10. /\ DOMAIN g = 0..N /\ g[0] = c
       /\ \A n \in 1..N : g[n] = Onto(v, g[n - 1])
  BY <1>6, <1>8
<1>11. g \in [0..N -> D]
  <2> DEFINE S == { n \in Nat : n <= N => g[n] \in D }
  <2> HIDE DEF D
  <2>1. 0 \in S
    BY <1>3, <1>10
  <2>2. ASSUME NEW n \in Nat, n \in S
        PROVE  n + 1 \in S
    <3> SUFFICES ASSUME n + 1 <= N
                 PROVE  g[n + 1] \in D
      OBVIOUS
    <3>1. n + 1 \in 1..N /\ (n + 1) - 1 = n /\ g[n] \in D
      BY <2>2
    <3>2. g[n + 1] = Onto(v, g[n])
      BY <3>1, <1>10
    <3> QED
      BY <3>1, <3>2, <1>1
  <2>3. \A n \in Nat : n \in S
    <3> HIDE DEF S
    <3> QED
      BY <2>1, <2>2, SetOfAllNumbers
  <2>4. \A n \in 0..N : g[n] \in D
    BY <2>3
  <2>5. g = [n \in DOMAIN g |-> g[n]]
    BY <1>8 DEF Unfold
  <2> QED
    BY <2>4, <2>5, <1>10
<1>12. FoundBack(g, v, N)
  BY <1>9, <1>10 DEF c, FoundBack
<1> QED
  BY <1>11, <1>12

LEMMA OntoGrows ==
    ASSUME NEW B, ToSet(live) \subseteq B, NEW v
    PROVE  \A r \in SUBSET B : /\ Onto(v, r) \in SUBSET B /\ r \subseteq Onto(v, r)
                               /\ Onto(v, r) = r => Closed(v, r)
<1> SUFFICES ASSUME NEW r \in SUBSET B
             PROVE  /\ Onto(v, r) \in SUBSET B /\ r \subseteq Onto(v, r)
                    /\ Onto(v, r) = r => Closed(v, r)
  OBVIOUS
<1>1. Onto(v, r) \in SUBSET B /\ r \subseteq Onto(v, r)
  BY DEF Onto
<1>2. ASSUME Onto(v, r) = r, NEW b \in Others(v), Targets(ops, blocks, b) \cap r # {}
      PROVE  b \in r
  <2>1. b \in Onto(v, r)
    BY <1>2 DEF Onto, Others
  <2> QED
    BY <1>2, <2>1
<1> QED
  BY <1>1, <1>2 DEF Closed

LEMMA NumbersTo ==
    ASSUME NEW N \in Nat
    PROVE  IsFiniteSet(1..N) /\ Cardinality(1..N) = N
<1>1. IsFiniteSet(1..N) /\ Cardinality(1..N) = IF 1 > N THEN 0 ELSE N - 1 + 1
  BY FS_Interval
<1> QED
  BY <1>1

OntoStep(B, v) == [r \in SUBSET B |-> Onto(v, r)]

LEMMA FoundByStep ==
    ASSUME NEW N \in Nat, NEW B, ToSet(live) \subseteq B, NEW v,
           NEW f \in [0..N -> SUBSET B], FoundBack(f, v, N)
    PROVE  /\ OntoStep(B, v) \in GrowingSteps(B)
           /\ f \in Iterations(B, Using(v), N, OntoStep(B, v))
<1>1. \A r \in SUBSET B : Onto(v, r) \in SUBSET B /\ r \subseteq Onto(v, r)
  BY OntoGrows
<1>2. OntoStep(B, v) \in GrowingSteps(B)
  BY <1>1 DEF OntoStep, GrowingSteps
<1>3. \A n \in 1..N : f[n - 1] \in SUBSET B
  OBVIOUS
<1>4. \A n \in 1..N : f[n] = OntoStep(B, v)[f[n - 1]]
  BY <1>3 DEF OntoStep, FoundBack
<1> QED
  BY <1>2, <1>4 DEF Iterations, FoundBack

LEMMA FoundClosed ==
    ASSUME NEW N \in Nat, ToSet(live) \subseteq 1..N, NEW v,
           NEW f \in [0..N -> SUBSET (1..N)], FoundBack(f, v, N)
    PROVE  Using(v) \subseteq f[N] /\ Closed(v, f[N])
<1>1. IsFiniteSet(1..N) /\ Cardinality(1..N) <= N
  BY NumbersTo
<1>2. /\ OntoStep(1..N, v) \in GrowingSteps(1..N)
      /\ f \in Iterations(1..N, Using(v), N, OntoStep(1..N, v))
  BY FoundByStep
<1>3. Using(v) \subseteq f[N] /\ OntoStep(1..N, v)[f[N]] = f[N]
  BY <1>1, <1>2, GrowingStops
<1>4. f[N] \in SUBSET (1..N)
  OBVIOUS
<1>5. Onto(v, f[N]) = f[N]
  BY <1>3, <1>4 DEF OntoStep
<1> QED
  BY <1>3, <1>4, <1>5, OntoGrows

LEMMA FoundLeast ==
    ASSUME NEW N \in Nat, ToSet(live) \subseteq 1..N, NEW v,
           NEW f \in [0..N -> SUBSET (1..N)], FoundBack(f, v, N),
           NEW X, Using(v) \subseteq X, Closed(v, X)
    PROVE  f[N] \subseteq X
<1>1. /\ OntoStep(1..N, v) \in [SUBSET (1..N) -> SUBSET (1..N)]
      /\ f \in Iterations(1..N, Using(v), N, OntoStep(1..N, v))
  BY FoundByStep DEF GrowingSteps
<1>2. ASSUME NEW r \in SUBSET (1..N), r \subseteq X, NEW b \in Onto(v, r)
      PROVE  b \in X
  BY <1>2 DEF Onto, Closed, Others
<1>3. OntoStep(1..N, v) \in StepsWithin(1..N, X)
  BY <1>1, <1>2 DEF OntoStep, StepsWithin
<1> QED
  BY <1>1, <1>3, GrowingStays

LEMMA LiveIntoIsLeast ==
    ASSUME live \in Seq(1..Len(blocks)), Len(blocks) \in Nat, NEW v
    PROVE  /\ Using(v) \subseteq LiveInto(v) /\ Closed(v, LiveInto(v))
           /\ \A X : Using(v) \subseteq X /\ Closed(v, X) => LiveInto(v) \subseteq X
<1>1. PICK N \in Nat : N = Len(blocks)
  OBVIOUS
<1>2. ToSet(live) \subseteq 1..N
  BY <1>1 DEF ToSet
<1>3. PICK f \in [0..N -> SUBSET (1..N)] : FoundBack(f, v, N)
  BY <1>1, <1>2, BackRecursion
<1>4. LiveInto(v) = f[N]
  BY <1>3 DEF FoundBack
<1>5. Using(v) \subseteq f[N] /\ Closed(v, f[N])
  BY <1>2, <1>3, FoundClosed
<1>6. ASSUME NEW X, Using(v) \subseteq X, Closed(v, X)
      PROVE  f[N] \subseteq X
  BY <1>2, <1>3, <1>6, FoundLeast
<1> QED
  BY <1>4, <1>5, <1>6

-----------------------------------------------------------------------------
(* Counting backwards through a block finds what is used.                  *)

(* What the type says of an operation and of a block.                      *)
TypedOp(o) ==
    /\ o.in \in Seq(1..Len(ops)) /\ Len(o.in) <= 2
    /\ o.label \in Seq(1..Len(blocks)) /\ o.block \in 1..Len(blocks)
    /\ o.opcode \in Jumps => Len(o.label) \in 1..2

Alternatives == [phi : 1..Len(ops), src : 1..Len(blocks), val : 1..Len(ops)]

TypedBlock(x) == x.code \in Seq(1..Len(ops)) /\ x.alts \in Seq(Alternatives)

LEMMA Typed ==
    ASSUME WellTyped
    PROVE  /\ Len(ops) \in Nat /\ Len(blocks) \in Nat
           /\ \A v \in 1..Len(ops) : TypedOp(ops[v])
           /\ \A b \in 1..Len(blocks) : TypedBlock(blocks[b])
<1> DEFINE O == [opcode : STRING, in : Seq(1..Len(ops)), imm : Int,
                 label : Seq(1..Len(blocks)), block : 1..Len(blocks),
                 phiIndex : Nat, noOpt : BOOLEAN]
           X == [code : Seq(1..Len(ops)), args : Seq(0..Len(ops)), live : BOOLEAN,
                 alts : Seq(Alternatives)]
<1>1. /\ ops \in Seq(O) /\ blocks \in Seq(X)
      /\ \A v \in 1..Len(ops) : /\ Len(ops[v].in) <= 2
                                /\ ops[v].opcode \in Jumps => Len(ops[v].label) \in 1..2
  BY DEF WellTyped, Alternatives
<1>2. \A o \in O : /\ o.in \in Seq(1..Len(ops)) /\ o.label \in Seq(1..Len(blocks))
                  /\ o.block \in 1..Len(blocks)
  OBVIOUS
<1>3. \A x \in X : TypedBlock(x)
  BY DEF TypedBlock
<1> HIDE DEF O, X
<1>4. /\ Len(ops) \in Nat /\ Len(blocks) \in Nat
      /\ \A v \in 1..Len(ops) : ops[v] \in O
      /\ \A b \in 1..Len(blocks) : blocks[b] \in X
  BY <1>1
<1>5. \A v \in 1..Len(ops) : TypedOp(ops[v])
  BY <1>1, <1>2, <1>4 DEF TypedOp
<1> QED
  BY <1>3, <1>4, <1>5

LEMMA SetOfSequence ==
    ASSUME NEW T, NEW s \in Seq(T)
    PROVE  \A x : x \in ToSet(s) <=> \E k \in 1..Len(s) : x = s[k]
BY DEF ToSet

LEMMA NoneCounted ==
    ASSUME NEW S, IsFiniteSet(S)
    PROVE  Cardinality(S) \in Nat /\ (Cardinality(S) = 0 <=> S = {})
BY FS_CardinalityType, FS_EmptySet

(* Block b has v as operand; a value is needed on an edge out of b.        *)
Takes(b, v) == \E c \in 1..Len(blocks[b].code) : v \in ToSet(ops[blocks[b].code[c]].in)
Chooses(b, t, v) == \E a \in ToSet(blocks[t].alts) : a.src = b /\ a.val = v
NeededAfter(b, v) == \E t \in Targets(ops, blocks, b) : Chooses(b, t, v) \/ v \in livein[t]

LEMMA UsedInIs ==
    ASSUME WellTyped, NEW b \in 1..Len(blocks), NEW v
    PROVE  v \in UsedIn(b) <=> Takes(b, v) \/ \E t \in Targets(ops, blocks, b) : Chooses(b, t, v)
<1>1. blocks[b].code \in Seq(1..Len(ops))
  BY Typed DEF TypedBlock
<1>2. PICK code \in Seq(1..Len(ops)) : code = blocks[b].code
  BY <1>1
<1>3. ToSet(code) = { code[c] : c \in 1..Len(code) }
  BY DEF ToSet
<1>4. PICK taken : taken = UNION { ToSet(ops[c].in) : c \in ToSet(blocks[b].code) }
  OBVIOUS
<1>5. v \in taken <=> Takes(b, v)
  BY <1>2, <1>3, <1>4 DEF Takes
<1>6. PICK chosen : chosen = { a.val : a \in UNION { { x \in ToSet(blocks[t].alts) : x.src = b } :
                                        t \in Targets(ops, blocks, b) } }
  OBVIOUS
<1>7. v \in chosen <=> \E t \in Targets(ops, blocks, b) : Chooses(b, t, v)
  BY <1>6 DEF Chooses
<1>8. UsedIn(b) = taken \cup chosen
  BY <1>4, <1>6 DEF UsedIn
<1> QED
  BY <1>5, <1>7, <1>8

(* The uses of v on the edge from b to t.                                  *)
EdgeUses(b, t, v) ==
    Cardinality({ n \in 1..Len(blocks[t].alts) :
        blocks[t].alts[n].src = b /\ blocks[t].alts[n].val = v })
    + (IF v \in livein[t] THEN 1 ELSE 0)

LEMMA EdgeUsesCount ==
    ASSUME WellTyped, NEW b, NEW t \in 1..Len(blocks), NEW v
    PROVE  /\ EdgeUses(b, t, v) \in Nat
           /\ EdgeUses(b, t, v) = 0 <=> ~Chooses(b, t, v) /\ v \notin livein[t]
<1>1. PICK alts : alts = blocks[t].alts
  OBVIOUS
<1>2. PICK S : S = { n \in 1..Len(alts) : alts[n].src = b /\ alts[n].val = v }
  OBVIOUS
<1>3. Len(alts) \in Nat /\ DOMAIN alts = 1..Len(alts)
  BY <1>1, Typed DEF TypedBlock
<1>4. IsFiniteSet(S)
  BY <1>2, <1>3, NumbersTo, FS_Subset
<1>5. Cardinality(S) \in Nat /\ (Cardinality(S) = 0 <=> S = {})
  BY <1>4, NoneCounted
<1>6. Chooses(b, t, v) <=> S # {}
  BY <1>1, <1>2, <1>3 DEF Chooses, ToSet
<1>7. EdgeUses(b, t, v) = Cardinality(S) + (IF v \in livein[t] THEN 1 ELSE 0)
  BY <1>1, <1>2 DEF EdgeUses
<1> QED
  BY <1>5, <1>6, <1>7

LEMMA JumpUsesCount ==
    ASSUME WellTyped, NEW b \in 1..Len(blocks), blocks[b].code # << >>, NEW v
    PROVE  LET n == JumpUses(b, LastOp(ops, blocks, b), v)
           IN  n \in Nat /\ (n = 0 <=> ~NeededAfter(b, v))
<1>1. PICK o : o = LastOp(ops, blocks, b)
  OBVIOUS
<1>2. PICK i \in 1..Len(ops) : o = ops[i]
  <2>1. blocks[b].code \in Seq(1..Len(ops))
    BY Typed DEF TypedBlock
  <2>2. blocks[b].code[Len(blocks[b].code)] \in 1..Len(ops)
    BY <2>1
  <2> QED
    BY <1>1, <2>2 DEF LastOp
<1>3. Targets(ops, blocks, b) = IF o.opcode \in Jumps THEN ToSet(o.label) ELSE {}
  BY <1>1 DEF Targets
<1>4. CASE o.opcode \notin Jumps
  BY <1>1, <1>3, <1>4 DEF JumpUses, NeededAfter
<1>5. CASE o.opcode \in Jumps
  <2>1. o.label \in Seq(1..Len(blocks)) /\ Len(o.label) \in 1..2
    BY <1>2, <1>5, Typed DEF TypedOp
  <2>2. JumpUses(b, o, v) = EdgeUses(b, o.label[1], v)
                            + (IF Len(o.label) = 2 THEN EdgeUses(b, o.label[2], v) ELSE 0)
    BY <1>5 DEF JumpUses, EdgeUses
  <2>3. \A t \in 1..Len(blocks) :
          /\ EdgeUses(b, t, v) \in Nat
          /\ EdgeUses(b, t, v) = 0 <=> ~Chooses(b, t, v) /\ v \notin livein[t]
    BY EdgeUsesCount
  <2>4. \A t : t \in ToSet(o.label) <=> \E k \in 1..Len(o.label) : t = o.label[k]
    BY <2>1, SetOfSequence
  <2>5. NeededAfter(b, v) <=>
            \E k \in 1..Len(o.label) : Chooses(b, o.label[k], v) \/ v \in livein[o.label[k]]
    <3>1. \A t : t \in Targets(ops, blocks, b) <=> \E k \in 1..Len(o.label) : t = o.label[k]
      BY <1>3, <1>5, <2>4
    <3> QED
      BY <3>1 DEF NeededAfter
  <2>6. \A k \in 1..Len(o.label) : o.label[k] \in 1..Len(blocks)
    BY <2>1
  <2>7. CASE Len(o.label) = 2
    <3>1. \A k : k \in 1..Len(o.label) <=> k = 1 \/ k = 2
      BY <2>7
    <3> QED
      <4>1. 1 \in 1..Len(o.label) /\ 2 \in 1..Len(o.label)
        BY <3>1
      <4>2. PICK m \in Nat, n \in Nat : /\ m = EdgeUses(b, o.label[1], v)
                                       /\ n = EdgeUses(b, o.label[2], v)
        BY <2>3, <2>6, <4>1
      <4>3. m + n = 0 <=> m = 0 /\ n = 0
        BY <4>2
      <4>4. JumpUses(b, o, v) = m + n
        BY <2>2, <2>7, <4>2
      <4>5. /\ m = 0 <=> ~Chooses(b, o.label[1], v) /\ v \notin livein[o.label[1]]
            /\ n = 0 <=> ~Chooses(b, o.label[2], v) /\ v \notin livein[o.label[2]]
        BY <2>3, <2>6, <4>1, <4>2
      <4>6. m + n = 0 <=> ~NeededAfter(b, v)
        BY <2>5, <3>1, <4>3, <4>5
      <4> QED
        BY <1>1, <4>2, <4>4, <4>6
  <2>8. CASE Len(o.label) = 1
    <3>1. \A k : k \in 1..Len(o.label) <=> k = 1
      BY <2>8
    <3> QED
      BY <1>1, <2>2, <2>3, <2>5, <2>6, <2>8, <3>1
  <2> QED
    BY <2>1, <2>7, <2>8
<1> QED
  BY <1>4, <1>5

LEMMA UsesAtCount ==
    ASSUME WellTyped, NEW b \in 1..Len(blocks), NEW v, NEW cs \in SUBSET (1..Len(blocks[b].code))
    PROVE  /\ UsesAt(b, cs, v) \in Nat
           /\ UsesAt(b, cs, v) = 0 <=>
                 /\ \A c \in cs : v \notin ToSet(ops[blocks[b].code[c]].in)
                 /\ Len(blocks[b].code) \in cs => ~NeededAfter(b, v)
<1>1. PICK code : code = blocks[b].code
  OBVIOUS
<1>2. code \in Seq(1..Len(ops))
  BY <1>1, Typed DEF TypedBlock
<1>3. \A c \in cs : c \in 1..Len(code) /\ code[c] \in 1..Len(ops)
  BY <1>1, <1>2
<1>4. PICK S : S = { u \in cs \X (1..2) : u[2] <= Len(ops[code[u[1]]].in)
                                         /\ ops[code[u[1]]].in[u[2]] = v }
  OBVIOUS
<1>5. PICK j : j = IF Len(code) \in cs THEN JumpUses(b, ops[code[Len(code)]], v) ELSE 0
  OBVIOUS
<1>6. UsesAt(b, cs, v) = Cardinality(S) + j
  BY <1>1, <1>4, <1>5 DEF UsesAt
<1>7. IsFiniteSet(S)
  <2>1. IsFiniteSet(cs)
    <3>1. Len(code) \in Nat /\ cs \in SUBSET (1..Len(code))
      BY <1>1, <1>2
    <3>2. IsFiniteSet(1..Len(code))
      BY <3>1, NumbersTo
    <3> QED
      BY <3>1, <3>2, FS_Subset
  <2>2. IsFiniteSet(1..2)
    BY NumbersTo
  <2>3. IsFiniteSet(cs \X (1..2))
    BY <2>1, <2>2, FS_Product
  <2>4. S \in SUBSET (cs \X (1..2))
    BY <1>4
  <2> QED
    BY <2>3, <2>4, FS_Subset
<1>8. S = {} <=> \A c \in cs : v \notin ToSet(ops[code[c]].in)
  <2>1. \A c \in cs : ops[code[c]].in \in Seq(1..Len(ops)) /\ Len(ops[code[c]].in) <= 2
    BY <1>3, Typed DEF TypedOp
  <2>2. ASSUME NEW c \in cs, v \in ToSet(ops[code[c]].in)
        PROVE  S # {}
    <3>1. PICK k \in 1..Len(ops[code[c]].in) : ops[code[c]].in[k] = v
      BY <2>1, <2>2, SetOfSequence
    <3>2. k \in 1..2 /\ k <= Len(ops[code[c]].in)
      BY <2>1, <3>1
    <3>3. <<c, k>> \in S
      BY <1>4, <3>1, <3>2
    <3> QED
      BY <3>3
  <2>3. ASSUME NEW u \in S
        PROVE  u[1] \in cs /\ v \in ToSet(ops[code[u[1]]].in)
    <3>1. u[1] \in cs /\ u[2] \in 1..2 /\ u[2] <= Len(ops[code[u[1]]].in)
          /\ ops[code[u[1]]].in[u[2]] = v
      BY <1>4, <2>3
    <3>2. u[2] \in 1..Len(ops[code[u[1]]].in)
      BY <2>1, <3>1
    <3> QED
      BY <2>1, <3>1, <3>2 DEF ToSet
  <2> QED
    BY <2>2, <2>3
<1>9. j \in Nat /\ (j = 0 <=> (Len(code) \in cs => ~NeededAfter(b, v)))
  <2>1. CASE Len(code) \in cs
    <3>1. code # << >> /\ ops[code[Len(code)]] = LastOp(ops, blocks, b)
      BY <1>1, <1>2, <1>3, <2>1 DEF LastOp
    <3> QED
      BY <1>1, <1>5, <2>1, <3>1, JumpUsesCount
  <2> QED
    BY <1>5, <2>1
<1> QED
  BY <1>1, <1>6, <1>7, <1>8, <1>9, NoneCounted

-----------------------------------------------------------------------------
(* The sets as the pass goes on.                                           *)

(* The values an earlier block has to provide, by what is known to be live *)
(* into the blocks b jumps to.                                             *)
Flow(b, L) ==
    { v \in 1..Len(ops) :
        /\ hasOutput(ops[v].opcode) /\ ops[v].block # b
        /\ v \in UsedIn(b) \/ \E t \in Targets(ops, blocks, b) : v \in L[t] }

(* What the pass finds for block b.                                        *)
Found(b) ==
    { v \in 1..Len(ops) : hasOutput(ops[v].opcode) /\ findUsesBlock(b)[v] # 0 }

(* What is in a set is a value and is computed where its operation says.   *)
Computed(v) == hasOutput(ops[v].opcode) /\ v \in ToSet(blocks[ops[v].block].code)

Clean ==
    /\ \A v \in 1..Len(ops) : hasOutput(ops[v].opcode) => nUse[v] = 0
    /\ \A b \in ToSet(live) : \A v \in livein[b] : v \in 1..Len(ops) /\ Computed(v)

LEMMA LiveBlocks ==
    ASSUME WellTyped, NEW b \in ToSet(live)
    PROVE  b \in 1..Len(blocks)
<1>1. live \in Seq(1..Len(blocks))
  BY DEF WellTyped
<1> QED
  BY <1>1 DEF ToSet

LEMMA DefsAre ==
    ASSUME Ready, NEW b \in ToSet(live), NEW v \in 1..Len(ops), hasOutput(ops[v].opcode)
    PROVE  /\ Defs(b, v) = { c \in 1..Len(blocks[b].code) : blocks[b].code[c] = v }
           /\ ops[v].block # b => Defs(b, v) = {}
           /\ ops[v].block = b /\ Computed(v) => Defs(b, v) # {}
<1>1. b \in 1..Len(blocks)
  BY LiveBlocks DEF Ready
<1>2. PICK code \in Seq(1..Len(ops)) : code = blocks[b].code
  BY <1>1, Typed DEF Ready, TypedBlock
<1>3. Defs(b, v) = { c \in 1..Len(code) : code[c] = v }
  BY <1>2 DEF Defs
<1>4. \A c \in 1..Len(code) : ops[code[c]].block = b
  BY <1>2 DEF Ready, DefsDominate
<1>5. ASSUME ops[v].block = b, Computed(v)
      PROVE  Defs(b, v) # {}
  <2>1. v \in ToSet(code)
    BY <1>2, <1>5 DEF Computed
  <2>2. PICK c \in 1..Len(code) : code[c] = v
    BY <1>2, <2>1 DEF ToSet
  <2> QED
    BY <1>3, <2>2
<1> QED
  BY <1>2, <1>3, <1>4, <1>5

(* Going backwards, no use of a value is left where it is computed.        *)
LEMMA NoUseBefore ==
    ASSUME Ready, NEW b \in ToSet(live), NEW v \in 1..Len(ops), hasOutput(ops[v].opcode),
           Defs(b, v) # {}
    PROVE  UsesAt(b, { c \in 1..Len(blocks[b].code) : \A d \in Defs(b, v) : c < d }, v) = 0
<1>1. b \in 1..Len(blocks)
  BY LiveBlocks DEF Ready
<1>2. PICK code \in Seq(1..Len(ops)) : code = blocks[b].code
  BY <1>1, Typed DEF Ready, TypedBlock
<1>3. PICK cs : cs = { c \in 1..Len(code) : \A d \in Defs(b, v) : c < d }
  OBVIOUS
<1>4. Defs(b, v) = { c \in 1..Len(code) : code[c] = v } /\ ops[v].block = b
  BY <1>2, DefsAre
<1>5. PICK p : p = Position(v)
  OBVIOUS
<1>6. p \in Defs(b, v)
  <2>1. p = CHOOSE c \in 1..Len(code) : code[c] = v
    BY <1>2, <1>4, <1>5 DEF Position
  <2> QED
    BY <1>4, <2>1
<1>7. \A c \in cs : v \notin ToSet(ops[code[c]].in)
  <2> SUFFICES ASSUME NEW c \in cs, v \in ToSet(ops[code[c]].in)
               PROVE  FALSE
    OBVIOUS
  <2>1. c \in 1..Len(code) /\ c < p
    BY <1>3, <1>6
  <2>2. p < c
    BY <1>2, <1>4, <1>5, <2>1 DEF Ready, DefsDominate
  <2> QED
    BY <1>4, <1>6, <2>1, <2>2
<1>8. Len(code) \notin cs
  BY <1>2, <1>3, <1>4, <1>6
<1>9. cs \in SUBSET (1..Len(blocks[b].code))
  BY <1>2, <1>3
<1>10. UsesAt(b, cs, v) = 0
  BY <1>1, <1>2, <1>7, <1>8, <1>9, UsesAtCount DEF Ready
<1> QED
  BY <1>2, <1>3, <1>10

LEMMA FoundIsFlow ==
    ASSUME Ready, Clean, NEW b \in ToSet(live)
    PROVE  Found(b) = Flow(b, livein)
<1>1. b \in 1..Len(blocks) /\ WellTyped
  BY LiveBlocks DEF Ready
<1>2. Targets(ops, blocks, b) \subseteq ToSet(live)
  BY DEF Ready
<1> SUFFICES ASSUME NEW v \in 1..Len(ops), hasOutput(ops[v].opcode)
             PROVE  findUsesBlock(b)[v] # 0 <=> v \in Flow(b, livein)
  BY DEF Found, Flow
<1>3. findUsesBlock(b)[v] =
        IF Defs(b, v) = {} THEN nUse[v] + UsesAt(b, 1..Len(blocks[b].code), v)
        ELSE UsesAt(b, { c \in 1..Len(blocks[b].code) : \A d \in Defs(b, v) : c < d }, v)
  BY DEF findUsesBlock
<1>4. CASE Defs(b, v) # {}
  <2>1. ops[v].block = b
    BY <1>4, DefsAre
  <2>2. findUsesBlock(b)[v] = 0
    BY <1>3, <1>4, NoUseBefore
  <2> QED
    BY <2>1, <2>2 DEF Flow
<1>5. CASE Defs(b, v) = {}
  <2>1. nUse[v] = 0
    BY DEF Clean
  <2>2. PICK n : n = UsesAt(b, 1..Len(blocks[b].code), v)
    OBVIOUS
  <2>3. n \in Nat /\ (n = 0 <=> ~Takes(b, v) /\ ~NeededAfter(b, v))
    <3>1. PICK code \in Seq(1..Len(ops)) : code = blocks[b].code
      BY <1>1, Typed DEF TypedBlock
    <3>2. /\ n \in Nat
          /\ n = 0 <=> /\ \A c \in 1..Len(code) : v \notin ToSet(ops[code[c]].in)
                       /\ Len(code) \in 1..Len(code) => ~NeededAfter(b, v)
      BY <1>1, <2>2, <3>1, UsesAtCount
    <3>3. CASE code = << >>
      <4>1. Targets(ops, blocks, b) = {}
        BY <3>1, <3>3 DEF Targets
      <4> QED
        BY <3>1, <3>2, <3>3, <4>1 DEF Takes, NeededAfter
    <3>4. CASE code # << >>
      <4>1. Len(code) \in 1..Len(code)
        BY <3>4
      <4> QED
        BY <3>1, <3>2, <4>1 DEF Takes
    <3> QED
      BY <3>3, <3>4
  <2>4. Takes(b, v) \/ NeededAfter(b, v)
            <=> v \in UsedIn(b) \/ \E t \in Targets(ops, blocks, b) : v \in livein[t]
    BY <1>1, UsedInIs DEF NeededAfter
  <2>5. ASSUME v \in UsedIn(b) \/ \E t \in Targets(ops, blocks, b) : v \in livein[t]
        PROVE  ops[v].block # b
    <3>1. Computed(v)
      BY <1>2, <2>5 DEF Ready, Clean, Computed
    <3> QED
      BY <1>5, <3>1, DefsAre
  <2>6. findUsesBlock(b)[v] = n
    BY <1>3, <1>5, <2>1, <2>2, <2>3
  <2> QED
    BY <2>3, <2>4, <2>5, <2>6 DEF Flow
<1> QED
  BY <1>4, <1>5

(* A set only has live values, and those that the sets of the blocks after *)
(* it ask for.                                                             *)
Sound(L) ==
    \A b \in ToSet(live) :
        /\ L[b] \subseteq Flow(b, L)
        /\ \A v \in L[b] : Computed(v) /\ b \in LiveInto(v)

LEMMA FlowIsLive ==
    ASSUME Ready, NEW L, Sound(L), NEW b \in ToSet(live), NEW v \in Flow(b, L)
    PROVE  Computed(v) /\ b \in LiveInto(v)
<1>1. live \in Seq(1..Len(blocks)) /\ Len(blocks) \in Nat
  BY Typed DEF Ready, WellTyped
<1>2. Using(v) \subseteq LiveInto(v) /\ Closed(v, LiveInto(v))
  BY <1>1, LiveIntoIsLeast
<1>3. ops[v].block # b
  BY DEF Flow
<1>4. CASE v \in UsedIn(b)
  BY <1>2, <1>3, <1>4 DEF Ready, Computed, Using
<1>5. CASE v \notin UsedIn(b)
  <2>1. PICK t \in Targets(ops, blocks, b) : v \in L[t]
    BY <1>5 DEF Flow
  <2>2. t \in ToSet(live)
    BY <2>1 DEF Ready
  <2>3. Computed(v) /\ t \in LiveInto(v)
    BY <2>1, <2>2 DEF Sound
  <2>4. b \in Others(v) /\ Targets(ops, blocks, b) \cap LiveInto(v) # {}
    BY <1>3, <2>1, <2>3 DEF Others
  <2> QED
    BY <1>2, <2>3, <2>4 DEF Closed
<1> QED
  BY <1>4, <1>5

LEMMA FlowGrows ==
    ASSUME Ready, NEW L, NEW M, \A t \in ToSet(live) : L[t] \subseteq M[t], NEW b \in ToSet(live)
    PROVE  Flow(b, L) \subseteq Flow(b, M)
<1>1. Targets(ops, blocks, b) \subseteq ToSet(live)
  BY DEF Ready
<1> QED
  BY <1>1 DEF Flow

(* The sets stay so when one of them becomes what its block asks for.      *)
LEMMA StaysSound ==
    ASSUME Ready, NEW L, L \in [1..Len(blocks) -> SUBSET (1..Len(ops))], Sound(L),
           NEW b \in ToSet(live), NEW M, M = [L EXCEPT ![b] = Flow(b, L)]
    PROVE  M \in [1..Len(blocks) -> SUBSET (1..Len(ops))] /\ Sound(M)
<1>1. Flow(b, L) \in SUBSET (1..Len(ops))
  BY DEF Flow
<1>2. \A x \in ToSet(live) : x \in 1..Len(blocks)
  BY LiveBlocks DEF Ready
<1>3. M \in [1..Len(blocks) -> SUBSET (1..Len(ops))]
  BY <1>1
<1>4. \A x \in ToSet(live) : M[x] = IF x = b THEN Flow(b, L) ELSE L[x]
  BY <1>2
<1>5. \A x \in ToSet(live) : L[x] \subseteq M[x]
  BY <1>4 DEF Sound
<1>6. \A x \in ToSet(live) : Flow(x, L) \subseteq Flow(x, M)
  BY <1>5, FlowGrows
<1>7. \A x \in ToSet(live) : M[x] \subseteq Flow(x, L)
  BY <1>4 DEF Sound
<1>8. ASSUME NEW x \in ToSet(live)
      PROVE  /\ M[x] \subseteq Flow(x, M)
             /\ \A v \in M[x] : Computed(v) /\ x \in LiveInto(v)
  <2>1. M[x] \subseteq Flow(x, M)
    BY <1>6, <1>7
  <2>2. \A v \in M[x] : v \in Flow(x, L)
    BY <1>7
  <2> QED
    BY <2>1, <2>2, FlowIsLive
<1> QED
  BY <1>3, <1>8 DEF Sound

-----------------------------------------------------------------------------
(* The invariant, and the steps.                                           *)

Sets == [1..Len(blocks) -> SUBSET (1..Len(ops))]

Place == at = [NoPlace EXCEPT !.c = at.c] /\ at.c \in 0..Len(live)

(* Use counts are zero between blocks.                                     *)
Cleared == \A v \in 1..Len(ops) : hasOutput(ops[v].opcode) => nUse[v] = 0

(* In a round that has changed nothing so far, the blocks that are done    *)
(* have what they ask for.                                                 *)
Done == { live[n] : n \in { m \in 1..Len(live) : m > at.c } }
Settled == ~progress => \A b \in Done : livein[b] = Flow(b, livein)

LiveinInv ==
    pc = "livein" =>
        /\ Place /\ progress \in BOOLEAN /\ livein \in Sets
        /\ Cleared /\ Sound(livein) /\ Settled

LEMMA ReadyIs ==
    ASSUME LiveinReady, pc = "livein"
    PROVE  Ready
BY DEF LiveinReady

LEMMA SoundIsClean ==
    ASSUME Sound(livein), Cleared
    PROVE  Clean
BY DEF Sound, Clean, Cleared, Flow

(* In the end the sets are a solution, the least one.                      *)
LEMMA EndCorrect ==
    ASSUME LiveinReady, LiveinInv
    PROVE  LiveinCorrect
<1> SUFFICES ASSUME pc = "livein", at.c = 0, ~progress, NEW v \in 1..Len(ops)
             PROVE  { b \in ToSet(live) : v \in livein[b] } = LiveInto(v)
  BY DEF LiveinCorrect
<1>1. Ready
  BY ReadyIs
<1>2. live \in Seq(1..Len(blocks)) /\ Len(blocks) \in Nat
  BY <1>1, Typed DEF Ready, WellTyped
<1>3. Sound(livein) /\ \A b \in Done : livein[b] = Flow(b, livein)
  BY DEF LiveinInv, Settled
<1>4. ASSUME NEW b \in ToSet(live)
      PROVE  livein[b] = Flow(b, livein)
  <2>1. PICK n \in 1..Len(live) : b = live[n]
    BY <1>2 DEF ToSet
  <2>2. n > at.c
    BY <1>2
  <2> QED
    BY <1>3, <2>1, <2>2 DEF Done
<1>5. PICK X : X = { b \in ToSet(live) : v \in livein[b] }
  OBVIOUS
<1>6. X \subseteq LiveInto(v)
  BY <1>3, <1>5 DEF Sound
<1>7. Using(v) \subseteq X
  <2> SUFFICES ASSUME NEW b \in Using(v)
               PROVE  b \in X
    OBVIOUS
  <2>1. b \in ToSet(live) /\ v \in UsedIn(b) /\ ops[v].block # b
    BY DEF Using
  <2>2. v \in Flow(b, livein)
    BY <1>1, <2>1 DEF Flow, Ready
  <2> QED
    BY <1>4, <1>5, <2>1, <2>2
<1>8. Closed(v, X)
  <2> SUFFICES ASSUME NEW b \in Others(v), NEW t \in Targets(ops, blocks, b), t \in X
               PROVE  b \in X
    BY DEF Closed
  <2>1. b \in ToSet(live) /\ ops[v].block # b /\ t \in ToSet(live) /\ v \in livein[t]
    BY <1>5 DEF Others
  <2>2. hasOutput(ops[v].opcode)
    BY <1>3, <2>1 DEF Sound, Computed
  <2>3. v \in Flow(b, livein)
    BY <2>1, <2>2 DEF Flow
  <2> QED
    BY <1>4, <1>5, <2>1, <2>3
<1>9. LiveInto(v) \subseteq X
  BY <1>2, <1>7, <1>8, LiveIntoIsLeast
<1> QED
  BY <1>5, <1>6, <1>9

LEMMA SameProcedure ==
    ASSUME UNCHANGED <<ops, blocks, live>>
    PROVE  /\ \A b : UsedIn(b)' = UsedIn(b) /\ Flow(b, livein)' = Flow(b, livein')
           /\ \A v : LiveInto(v)' = LiveInto(v) /\ Computed(v)' = Computed(v)
           /\ Sets' = Sets
           /\ Sound(livein)' <=> Sound(livein')
<1>1. ASSUME NEW b
      PROVE  UsedIn(b)' = UsedIn(b)
  BY DEF UsedIn
<1>2. ASSUME NEW b
      PROVE  Flow(b, livein)' = Flow(b, livein')
  BY <1>1 DEF Flow
<1>3. ASSUME NEW v
      PROVE  LiveInto(v)' = LiveInto(v)
  BY DEF LiveInto, UsedIn
<1>4. ASSUME NEW v
      PROVE  Computed(v)' = Computed(v)
  BY DEF Computed
<1>5. Sets' = Sets
  BY DEF Sets
<1>6. Sound(livein)' <=> Sound(livein')
  BY <1>2, <1>3, <1>4 DEF Sound
<1> QED
  BY <1>1, <1>2, <1>3, <1>4, <1>5, <1>6

-----------------------------------------------------------------------------
(* What the steps do to the sets.                                          *)

LEMMA BeginStep ==
    ASSUME beginLivein, LiveinReady', pc' = "livein"
    PROVE  LiveinInv'
<1>1. WellTyped'
  BY DEF LiveinReady, Ready
<1>2. /\ live' \in Seq(1..Len(blocks')) /\ DOMAIN blocks' = 1..Len(blocks')
      /\ DOMAIN nUse' = 1..Len(ops')
  BY <1>1 DEF WellTyped
<1>3. /\ at' = [NoPlace EXCEPT !.c = Len(live)] /\ progress' = FALSE
      /\ nUse' = [v \in DOMAIN nUse |-> IF hasOutput(ops[v].opcode) THEN 0 ELSE nUse[v]]
      /\ livein' = [b \in 1..Len(blocks) |-> {}] /\ DOMAIN blocks' = 1..Len(blocks)
      /\ live' = live /\ ops' = ops
  BY DEF beginLivein
<1>4. Len(live') \in Nat /\ \A n \in 1..Len(live') : ~(n > Len(live'))
  BY <1>2
<1>5. at' = [NoPlace EXCEPT !.c = at'.c] /\ at'.c = Len(live')
  BY <1>3 DEF NoPlace
<1>6. Place' /\ Cleared' /\ Settled'
  <2>1. Cleared'
    BY <1>2, <1>3 DEF Cleared
  <2>2. Place'
    BY <1>3, <1>4, <1>5 DEF Place
  <2>3. Done' = {}
    BY <1>4, <1>5 DEF Done
  <2>4. Settled'
    BY <2>3 DEF Settled
  <2> QED
    BY <2>1, <2>2, <2>4
<1>7. livein' = [b \in 1..Len(blocks') |-> {}]
  BY <1>2, <1>3
<1>8. \A b \in ToSet(live') : livein'[b] = {}
  BY <1>2, <1>7 DEF ToSet
<1>9. Sound(livein)'
  BY <1>8 DEF Sound
<1>10. (livein \in Sets)'
  BY <1>7 DEF Sets
<1> QED
  BY <1>3, <1>6, <1>9, <1>10 DEF LiveinInv

LEMMA BlockStep ==
    ASSUME liveinBlock, LiveinReady, LiveinInv
    PROVE  /\ live[at.c] \in ToSet(live)
           /\ livein' = [livein EXCEPT ![live[at.c]] = Flow(live[at.c], livein)]
           /\ Cleared'
           /\ progress' \in BOOLEAN /\ (~progress' => ~progress /\ livein' = livein)
<1>1. pc = "livein" /\ at.c > 0
  BY DEF liveinBlock
<1>2. Ready
  BY <1>1, ReadyIs
<1>3. /\ at.c \in 0..Len(live) /\ livein \in Sets /\ Sound(livein) /\ progress \in BOOLEAN
      /\ Cleared
  BY <1>1 DEF LiveinInv, Place
<1>4. live \in Seq(1..Len(blocks)) /\ Len(ops) \in Nat
  BY <1>2, Typed DEF Ready, WellTyped
<1>5. PICK b : b = live[at.c]
  OBVIOUS
<1>6. b \in ToSet(live) /\ b \in 1..Len(blocks)
  <2>1. at.c \in 1..Len(live)
    BY <1>1, <1>3, <1>4
  <2> QED
    BY <1>4, <1>5, <2>1 DEF ToSet
<1>7. PICK uses : uses = findUsesBlock(b)
  OBVIOUS
<1>8. DOMAIN uses = 1..Len(ops)
  BY <1>7 DEF findUsesBlock
<1>9. PICK needed : needed = { v \in DOMAIN uses : hasOutput(ops[v].opcode) /\ uses[v] # 0 }
  OBVIOUS
<1>10. needed = Flow(b, livein)
  <2>1. needed = Found(b)
    BY <1>7, <1>8, <1>9 DEF Found
  <2>2. Clean
    BY <1>3, SoundIsClean
  <2> QED
    BY <1>2, <1>6, <2>1, <2>2, FoundIsFlow
<1>11. /\ livein' = [livein EXCEPT ![b] = needed]
       /\ nUse' = [v \in DOMAIN uses |-> IF v \in needed THEN 0 ELSE uses[v]]
       /\ progress' = (progress \/ Cardinality(needed) # Cardinality(livein[b]))
  <2>1. PICK u \in {findUsesBlock(live[at.c])} :
        \E n \in {{ v \in DOMAIN u : hasOutput(ops[v].opcode) /\ u[v] # 0 }} :
          /\ livein' = [livein EXCEPT ![live[at.c]] = n]
          /\ nUse' = [v \in DOMAIN u |-> IF v \in n THEN 0 ELSE u[v]]
          /\ progress' = (progress \/ Cardinality(n) # Cardinality(livein[live[at.c]]))
    BY Zenon DEF liveinBlock
  <2>2. u = uses
    BY <1>5, <1>7, <2>1
  <2> QED
    BY <1>5, <1>9, <2>1, <2>2, Zenon
<1>12. Cleared'
  <2>1. ops' = ops
    BY DEF liveinBlock
  <2> QED
    BY <1>8, <1>9, <1>11, <2>1 DEF Cleared
<1>13. ASSUME ~progress'
       PROVE  ~progress /\ livein' = livein
  <2>1. ~progress /\ Cardinality(needed) = Cardinality(livein[b])
    BY <1>11, <1>13
  <2>2. livein[b] \subseteq needed
    BY <1>3, <1>6, <1>10 DEF Sound
  <2>3. IsFiniteSet(needed)
    <3>1. IsFiniteSet(1..Len(ops)) /\ needed \in SUBSET (1..Len(ops))
      BY <1>4, <1>8, <1>9, NumbersTo
    <3> QED
      BY <3>1, FS_Subset
  <2>4. livein[b] = needed
    BY <2>1, <2>2, <2>3, FS_Subset
  <2> QED
    BY <1>3, <1>6, <1>11, <2>1, <2>4 DEF Sets
<1> QED
  BY <1>3, <1>5, <1>6, <1>10, <1>11, <1>12, <1>13

LEMMA BlockStepInv ==
    ASSUME liveinBlock, LiveinReady, LiveinInv
    PROVE  LiveinInv'
<1>1. /\ pc = "livein" /\ at.c > 0 /\ UNCHANGED <<ops, blocks, live>>
      /\ at' = [at EXCEPT !.c = @ - 1]
  BY DEF liveinBlock
<1>2. Ready
  BY <1>1, ReadyIs
<1>3. /\ at = [NoPlace EXCEPT !.c = at.c] /\ at.c \in 0..Len(live)
      /\ livein \in Sets /\ Sound(livein) /\ Settled
  BY <1>1 DEF LiveinInv, Place
<1>4. live \in Seq(1..Len(blocks)) /\ Len(live) \in Nat
  BY <1>2 DEF Ready, WellTyped
<1>5. PICK b : b = live[at.c]
  OBVIOUS
<1>6. /\ b \in ToSet(live) /\ livein' = [livein EXCEPT ![b] = Flow(b, livein)]
      /\ Cleared'
      /\ progress' \in BOOLEAN /\ (~progress' => ~progress /\ livein' = livein)
  BY <1>5, BlockStep
<1>7. livein' \in Sets /\ Sound(livein')
  BY <1>2, <1>3, <1>6, StaysSound DEF Sets
<1>8. /\ (livein \in Sets)' /\ Sound(livein)'
      /\ \A x : Flow(x, livein)' = Flow(x, livein')
  BY <1>1, <1>7, SameProcedure
<1>9. Place' /\ at'.c = at.c - 1
  <2>1. at'.c = at.c - 1 /\ at' = [NoPlace EXCEPT !.c = at'.c]
    BY <1>1, <1>3 DEF NoPlace
  <2>2. at'.c \in 0..Len(live')
    BY <1>1, <1>3, <1>4, <2>1
  <2> QED
    BY <2>1, <2>2 DEF Place
<1>10. \A x \in Done' : x = b \/ x \in Done
  <2> SUFFICES ASSUME NEW n \in 1..Len(live), n > at'.c
               PROVE  live[n] = b \/ live[n] \in Done
    BY <1>1 DEF Done
  <2>1. n = at.c \/ n > at.c
    BY <1>3, <1>4, <1>9
  <2> QED
    BY <1>5, <2>1 DEF Done
<1>11. ASSUME ~progress', NEW x \in Done'
       PROVE  livein'[x] = Flow(x, livein')
  <2>1. ~progress /\ livein' = livein
    BY <1>6, <1>11
  <2>2. CASE x = b
    <3>1. b \in 1..Len(blocks)
      BY <1>2, <1>6, LiveBlocks DEF Ready
    <3>2. livein'[b] = Flow(b, livein)
      BY <1>3, <1>6, <3>1 DEF Sets
    <3> QED
      BY <2>1, <2>2, <3>2
  <2>3. CASE x \in Done
    BY <1>3, <2>1, <2>3 DEF Settled
  <2> QED
    BY <1>10, <1>11, <2>2, <2>3
<1>12. Settled'
  BY <1>8, <1>11 DEF Settled
<1> QED
  BY <1>6, <1>8, <1>9, <1>12 DEF LiveinInv

LEMMA AgainStepInv ==
    ASSUME liveinAgain, LiveinReady, LiveinInv
    PROVE  LiveinInv'
<1>1. /\ pc = "livein" /\ progress' = FALSE /\ at' = [at EXCEPT !.c = Len(live)]
      /\ UNCHANGED <<ops, blocks, live, nUse, livein>>
  BY DEF liveinAgain
<1>2. at = [NoPlace EXCEPT !.c = at.c] /\ livein \in Sets /\ Sound(livein) /\ Cleared
  BY <1>1 DEF LiveinInv, Place
<1>3. Len(live) \in Nat /\ \A n \in 1..Len(live) : ~(n > Len(live))
  <2>1. live \in Seq(1..Len(blocks))
    BY <1>1 DEF LiveinReady, Ready, WellTyped
  <2> QED
    BY <2>1
<1>4. at' = [NoPlace EXCEPT !.c = at'.c] /\ at'.c = Len(live)
  BY <1>1, <1>2 DEF NoPlace
<1>5. (livein \in Sets)' /\ Sound(livein)'
  BY <1>1, <1>2, SameProcedure
<1>6. Cleared'
  BY <1>1, <1>2 DEF Cleared
<1>7. Place'
  BY <1>1, <1>3, <1>4 DEF Place
<1>8. Settled'
  <2>1. Done' = {}
    BY <1>1, <1>3, <1>4 DEF Done
  <2> QED
    BY <2>1 DEF Settled
<1> QED
  BY <1>1, <1>5, <1>6, <1>7, <1>8 DEF LiveinInv

(* No other step finds live values.                                        *)
LEMMA DceElsewhere ==
    ASSUME FrontEnd \/ Dce
    PROVE  pc' # "livein"
<1>1. CASE FrontEnd
  BY <1>1 DEF FrontEnd
<1>2. CASE compile
  BY <1>2 DEF compile
<1>3. CASE beginRound
  BY <1>3 DEF beginRound
<1>4. CASE endDce
  BY <1>4 DEF endDce
<1>5. CASE popBlock
  BY <1>5 DEF popBlock
<1>6. CASE visit
  BY <1>6 DEF visit
<1>7. CASE thread
  BY <1>7 DEF thread
<1>8. CASE follow
  BY <1>8 DEF follow
<1>9. CASE phiUses
  BY <1>9 DEF phiUses, NextLive
<1>10. CASE rename
  BY <1>10 DEF rename, NextLive
<1>11. CASE sweep
  BY <1>11 DEF sweep, NextLive
<1> QED
  BY <1>1, <1>2, <1>3, <1>4, <1>5, <1>6, <1>7, <1>8, <1>9, <1>10, <1>11 DEF Dce

LEMMA JumpElsewhere ==
    ASSUME OptJump, pc' = "livein"
    PROVE  beginLivein \/ liveinBlock \/ liveinAgain
<1>1. CASE beginJump
  BY <1>1 DEF beginJump, rebuild_cfg
<1>2. CASE liveinSteps
  BY <1>2 DEF liveinSteps, walkCfg
<1>3. CASE beginScan
  BY <1>3 DEF beginScan
<1>4. CASE merge
  BY <1>4 DEF merge, InScan
<1>5. CASE swapLabels
  BY <1>5 DEF swapLabels, InScan
<1>6. CASE selfLoop
  BY <1>6 DEF selfLoop, InScan
<1>7. CASE backEdge
  BY <1>7 DEF backEdge, InScan
<1>8. CASE nextScanned
  BY <1>8 DEF nextScanned, InScan
<1>9. CASE endScan
  BY <1>9 DEF endScan
<1>10. CASE beginClean
  BY <1>10 DEF beginClean
<1> QED
  BY <1>1, <1>2, <1>3, <1>4, <1>5, <1>6, <1>7, <1>8, <1>9, <1>10 DEF OptJump

LEMMA CseElsewhere ==
    ASSUME OptCse
    PROVE  pc' # "livein"
<1>1. ASSUME NEW w
      PROVE  End(w) # "livein"
  BY DEF End
<1>2. ASSUME NEW w, NEW phase, Goes(w, phase), phase # "livein"
      PROVE  pc' # "livein"
  BY <1>1, <1>2 DEF Goes
<1>3. ASSUME NEW w, Finish(w)
      PROVE  pc' # "livein"
  BY <1>1, <1>3 DEF Finish
<1>4. CASE beginCse
  BY <1>2, <1>4 DEF beginCse
<1>5. CASE hoistBlock
  BY <1>2, <1>5 DEF hoistBlock
<1>6. CASE noPairs
  BY <1>3, <1>6 DEF noPairs
<1>7. CASE sortPairs
  BY <1>2, <1>7 DEF sortPairs
<1>8. CASE checkPre
  BY <1>2, <1>8 DEF checkPre
<1>9. CASE csePairs
  BY <1>2, <1>9 DEF csePairs
<1>10. CASE renameAll
  BY <1>3, <1>10 DEF renameAll
<1> QED
  BY <1>4, <1>5, <1>6, <1>7, <1>8, <1>9, <1>10 DEF OptCse

LEMMA StepsThatFind ==
    ASSUME OptStep \/ OptTerminated, pc' = "livein"
    PROVE  beginLivein \/ liveinBlock \/ liveinAgain
<1>1. CASE FrontEnd \/ Dce
  BY <1>1, DceElsewhere
<1>2. CASE OptJump
  BY <1>2, JumpElsewhere
<1>3. CASE OptCse
  BY <1>3, CseElsewhere
<1>4. CASE beginSink
  BY <1>4 DEF beginSink, rebuild_cfg
<1>5. CASE addPhiInputs
  BY <1>5 DEF addPhiInputs
<1>6. CASE sinkBlock
  BY <1>6 DEF sinkBlock
<1>7. CASE endSink
  BY <1>7 DEF endSink
<1>8. CASE OptTerminated
  BY <1>8 DEF OptTerminated, OptEnds, optVars, cseVars, loopVars, liveinVars, vars
<1> QED
  BY <1>1, <1>2, <1>3, <1>4, <1>5, <1>6, <1>7, <1>8 DEF OptStep, OptLoop

LEMMA SameSets ==
    ASSUME LiveinInv, UNCHANGED optVars
    PROVE  LiveinInv'
<1>1. UNCHANGED <<pc, at, live, ops, blocks, nUse, progress, livein>>
  BY DEF optVars, cseVars, loopVars, liveinVars, vars, buildVars
<1>2. /\ Sets' = Sets /\ (Sound(livein)' <=> Sound(livein))
      /\ \A b : Flow(b, livein)' = Flow(b, livein)
  BY <1>1, SameProcedure
<1>3. (Place' <=> Place) /\ (Cleared' <=> Cleared) /\ Done' = Done
  BY <1>1 DEF Place, Cleared, Done
<1>4. Settled' <=> Settled
  BY <1>1, <1>2, <1>3 DEF Settled
<1> QED
  BY <1>1, <1>2, <1>3, <1>4 DEF LiveinInv

(* For every procedure that keeps what sanity() checks, whatever its loops *)
(* and however the other passes have changed it: when rebuild_livein ends, *)
(* each set has the values that are live into the block, and no other.     *)
THEOREM LiveValuesFound ==
    OptSpec /\ []LiveinReady => []LiveinCorrect
<1>1. OptInit => LiveinInv
  BY DEF OptInit, CseInit, LoopInit, Init, LiveinInv
<1>2. LiveinInv /\ LiveinReady /\ LiveinReady' /\ [OptStep \/ OptTerminated]_optVars
          => LiveinInv'
  <2> SUFFICES ASSUME LiveinInv, LiveinReady, LiveinReady', [OptStep \/ OptTerminated]_optVars,
                      pc' = "livein"
               PROVE  LiveinInv'
    BY DEF LiveinInv
  <2>1. CASE OptStep \/ OptTerminated
    BY <2>1, StepsThatFind, BeginStep, BlockStepInv, AgainStepInv
  <2>2. CASE UNCHANGED optVars
    BY <2>2, SameSets
  <2> QED
    BY <2>1, <2>2
<1>3. LiveinReady /\ LiveinInv => LiveinCorrect
  BY EndCorrect
<1> QED
  BY <1>1, <1>2, <1>3, PTL DEF OptSpec
=============================================================================
