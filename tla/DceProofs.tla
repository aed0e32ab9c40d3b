------------------------------ MODULE DceProofs ------------------------------
(***************************************************************************)
(* Dead code elimination leaves exact use counts, for every procedure that *)
(* the emitters make.                                                      *)
(*                                                                         *)
(* The counts that are left are those of the last round, the one that has  *)
(* changed nothing.  A round counts from zero, but only the operations of  *)
(* blocks that were live before it are set to zero: it needs that no block *)
(* comes back to life, that is, that live blocks are closed under jumps.   *)
(* The uses by alternatives of phis are counted only for phis which are    *)
(* not about to be replaced: it needs that in the last round there are no  *)
(* others, because these would be unused, and removed.                     *)
(***************************************************************************)
EXTENDS Dce, SetInduction

-----------------------------------------------------------------------------
(* The shape of a procedure.                                               *)

IsSeq(s) == s \in Seq(ToSet(s))

Distinct(s) == \A c, d \in 1..Len(s) : c < d => s[c] # s[d]

OpFields == {"opcode", "in", "imm", "label", "block", "phiIndex", "noOpt"}

(* An operation has as many inputs as its opcode asks for, whatever they   *)
(* are, and its labels are among the M blocks.                             *)
OpOk(op, M) ==
    /\ DOMAIN op = OpFields
    /\ IsSeq(op.in) /\ Len(op.in) = nInputs(op.opcode)
    /\ op.label \in Seq(1..M) /\ (op.opcode \in Jumps => op.label # << >>)
    /\ op.block \in 1..M

(* The operations o of a block are there once, and know their block.       *)
(* Before a phi there is none that uses anything.                          *)
CodeOk(o, code, b) ==
    /\ code \in Seq(1..Len(o)) /\ Distinct(code)
    /\ \A i \in ToSet(code) : o[i].block = b
    /\ \A c, d \in 1..Len(code) :
           c < d /\ o[code[d]].opcode = "phi" => o[code[c]].in = << >>

(* An alternative is for a phi of its block, or one that has been removed. *)
AltOk(o, code, a, b) ==
    /\ DOMAIN a = {"phi", "src", "val"}
    /\ a.phi \in 1..Len(o) /\ o[a.phi].block = b
    /\ o[a.phi].opcode # "nop" => o[a.phi].opcode = "phi" /\ a.phi \in ToSet(code)

BlockOk(o, x, b) ==
    /\ DOMAIN x = {"code", "args", "alts", "live"}
    /\ CodeOk(o, x.code, b)
    /\ IsSeq(x.alts) /\ \A a \in ToSet(x.alts) : AltOk(o, x.code, a, b)

ProcOk(o, bl) ==
    /\ IsSeq(o) /\ IsSeq(bl) /\ Len(bl) > 0
    /\ \A v \in 1..Len(o) : OpOk(o[v], Len(bl))
    /\ \A b \in 1..Len(bl) : BlockOk(o, bl[b], b)

Shape == ProcOk(ops, blocks)

(* While it is built, the variables are as many as the phis of a label.    *)
ArgsOk(b) ==
    /\ IsSeq(blocks[b].args)
    /\ \A p \in ToSet(blocks[b].args) :
           p \in 1..Len(ops) /\ ops[p].opcode = "phi" /\ p \in ToSet(blocks[b].code)

FrontInv ==
    pc = "build" =>
        /\ script \in Seq(Calls)
        /\ IsSeq(env) /\ currentBlock \in 1..Len(blocks)
        /\ \A b \in 1..Len(blocks) : ArgsOk(b)
        /\ live = << >> /\ todo = << >> /\ progress = TRUE

-----------------------------------------------------------------------------
(* The blocks that are live.                                               *)

CodeOf(B) == UNION { ToSet(blocks[b].code) : b \in B }

(* If operation i jumps, it jumps into L.                                  *)
Goes(i, L) == ops[i].opcode \in Jumps => ToSet(ops[i].label) \subseteq L

Places == [b : Nat, c : Nat, k : Nat, deadTail : BOOLEAN]

TypeInv ==
    /\ pc \in {"build", "round", "pop", "visit", "thread", "uses", "rename", "sweep", "done"}
    /\ at \in Places /\ progress \in BOOLEAN
    /\ pc # "build" => nUse \in [1..Len(ops) -> Int] /\ DOMAIN tmp = 1..Len(ops)

(* Once a round has begun, live blocks are listed once and marked.         *)
LiveInv ==
    /\ live \in Seq(1..Len(blocks)) /\ Distinct(live)
    /\ live # << >> => /\ 1 \in ToSet(live)
                       /\ \A b \in 1..Len(blocks) : blocks[b].live <=> b \in ToSet(live)
    /\ pc \in {"uses", "rename", "sweep", "done"} =>
            /\ live # << >>
            /\ \A i \in CodeOf(ToSet(live)) : Goes(i, ToSet(live))
    /\ pc \in {"uses", "rename", "sweep"} => at.c \in 1..Len(live)
    /\ pc = "round" =>
            IF live = << >> THEN progress /\ nUse = [v \in 1..Len(ops) |-> 0]
            ELSE \A i \in CodeOf(ToSet(live)) : Goes(i, ToSet(live))

-----------------------------------------------------------------------------
(* The walk.                                                               *)

Walking == pc \in {"pop", "visit", "thread"}

Walked == ToSet(live) \ (ToSet(todo) \cup (IF pc = "pop" THEN {} ELSE {at.b}))

(* The operations of the block that the walk is in, up to where it is.     *)
Passed(n) == { Code[c] : c \in 1..n }

Seen == CodeOf(Walked) \cup (IF pc = "pop" THEN {} ELSE Passed(at.c - 1))
Counted == Seen \cup (IF pc = "thread" THEN {Here} ELSE {})

WalkInv ==
    Walking =>
        /\ live # << >>
        /\ todo \in Seq(ToSet(live)) /\ Distinct(todo)
        /\ pc # "pop" => /\ at.b \in ToSet(live) \ ToSet(todo)
                         /\ at.c \in 1..(Len(Code) + 1)
        /\ pc = "thread" => /\ at.c <= Len(Code) /\ ops[Here].opcode \in Jumps
                            /\ at.k \in 1..Len(ops[Here].label)
                            /\ \A k \in 1..(at.k - 1) : ops[Here].label[k] \in ToSet(live)
        /\ \A i \in Seen : Goes(i, ToSet(live))

(* The uses of v by the operations S of o.                                 *)
InPlaces(o, S, v) ==
    { u \in S \X (1..2) : u[2] <= Len(o[u[1]].in) /\ o[u[1]].in[u[2]] = v }

InUses(o, S, v) == Cardinality(InPlaces(o, S, v))

(* W has the blocks that were live before: all that this round may find.   *)
CountsIn(W) ==
    /\ ToSet(live) \subseteq W
    /\ \A i \in CodeOf(W) : Goes(i, W)
    /\ \A v \in CodeOf(W) : nUse[v] = InUses(ops, Counted, v)

WalkCounts == Walking /\ ~progress => \E W \in SUBSET (1..Len(blocks)) : CountsIn(W)

-----------------------------------------------------------------------------
(* The later phases of a round that has changed nothing.                   *)

Before(n) == { live[m] : m \in 1..(n - 1) }

(* The uses of v by alternatives in the blocks B of bl, for phis that stay.*)
AltPlaces(bl, B) == UNION { {b} \X (1..Len(bl[b].alts)) : b \in B }

Counts(a, value, v) == a.val = v /\ value[a.phi] = a.phi

UsingAlts(bl, value, B, v) ==
    { u \in AltPlaces(bl, B) : Counts(bl[u[1]].alts[u[2]], value, v) }

AltUses(bl, value, B, v) == Cardinality(UsingAlts(bl, value, B, v))

CountedTo(B) ==
    \A v \in CodeOf(ToSet(live)) :
        nUse[v] = InUses(ops, CodeOf(ToSet(live)), v) + AltUses(blocks, tmp, B, v)

(* Only phis that are there have alternatives; a phi that has another name *)
(* is not used; everything has a purpose.                                  *)
Cleaned(b) == \A a \in ToSet(blocks[b].alts) : ops[a.phi].opcode # "nop"

Unused(p, b) ==
    /\ \A i \in ToSet(blocks[b].code) : p \notin ToSet(ops[i].in)
    /\ \A a \in ToSet(blocks[b].alts) : a.val # p

Unrenamed(b) ==
    \A p \in 1..Len(ops) : ops[p].opcode = "phi" /\ tmp[p] # p => Unused(p, b)

Needed(b) == \A i \in ToSet(blocks[b].code) : hasSideFX(ops[i].opcode) \/ nUse[i] # 0

PhaseInv ==
    /\ pc = "uses" => \A b \in Before(at.c) : Cleaned(b)
    /\ pc = "rename" => \A b \in ToSet(live) : Cleaned(b)
    /\ pc = "uses" /\ ~progress => CountedTo(Before(at.c))
    /\ pc \in {"rename", "sweep", "round", "done"} /\ ~progress => CountedTo(ToSet(live))
    /\ pc = "rename" /\ ~progress => \A b \in Before(at.c) : Unrenamed(b)
    /\ pc \in {"sweep", "round", "done"} /\ ~progress =>
            \A b \in ToSet(live) : Cleaned(b) /\ Unrenamed(b)
    /\ pc = "sweep" /\ ~progress => \A b \in Before(at.c) : Needed(b)
    /\ pc \in {"round", "done"} /\ ~progress => \A b \in ToSet(live) : Needed(b)
    /\ pc = "done" => ~progress

DceInv == TypeInv /\ Shape /\ FrontInv /\ LiveInv /\ WalkInv /\ WalkCounts /\ PhaseInv

-----------------------------------------------------------------------------
(* Sequences of whatever they contain.                                     *)

LEMMA SeqElements ==
    ASSUME NEW S, NEW s \in Seq(S)
    PROVE  /\ IsSeq(s) /\ ToSet(s) \subseteq S /\ Len(s) \in Nat /\ DOMAIN s = 1..Len(s)
           /\ \A k \in 1..Len(s) : s[k] \in ToSet(s)
           /\ \A x \in ToSet(s) : \E k \in 1..Len(s) : x = s[k]
<1>1. ToSet(s) = { s[k] : k \in 1..Len(s) } /\ DOMAIN s = 1..Len(s) /\ Len(s) \in Nat
  BY DEF ToSet
<1>2. s = [k \in 1..Len(s) |-> s[k]]
  OBVIOUS
<1>3. s \in [1..Len(s) -> ToSet(s)]
  BY <1>1, <1>2
<1>4. s \in Seq(ToSet(s))
  BY <1>1, <1>3
<1>5. \A k \in 1..Len(s) : s[k] \in S
  OBVIOUS
<1> QED
  BY <1>1, <1>4, <1>5 DEF IsSeq

LEMMA IsSeqElements ==
    ASSUME NEW s, IsSeq(s)
    PROVE  /\ Len(s) \in Nat /\ DOMAIN s = 1..Len(s)
           /\ \A k \in 1..Len(s) : s[k] \in ToSet(s)
           /\ \A x \in ToSet(s) : \E k \in 1..Len(s) : x = s[k]
<1>1. s \in Seq(ToSet(s))
  BY DEF IsSeq
<1> QED
  BY <1>1, SeqElements

LEMMA SeqOfSet ==
    ASSUME NEW S, NEW s, IsSeq(s), ToSet(s) \subseteq S
    PROVE  s \in Seq(S)
<1>1. s \in Seq(ToSet(s))
  BY DEF IsSeq
<1>2. \A k \in 1..Len(s) : s[k] \in S
  BY IsSeqElements
<1> QED
  BY <1>1, <1>2

LEMMA TupleIsSeq ==
    ASSUME NEW n \in Nat, NEW s, s = [k \in 1..n |-> s[k]]
    PROVE  IsSeq(s) /\ Len(s) = n
<1>1. s \in [1..n -> { s[k] : k \in 1..n }]
  OBVIOUS
<1>2. s \in Seq({ s[k] : k \in 1..n }) /\ Len(s) = n
  BY <1>1
<1> QED
  BY <1>2, SeqElements

LEMMA AppendElements ==
    ASSUME NEW s, IsSeq(s), NEW e
    PROVE  /\ IsSeq(Append(s, e)) /\ Len(Append(s, e)) = Len(s) + 1
           /\ ToSet(Append(s, e)) = ToSet(s) \cup {e}
           /\ \A k \in 1..Len(s) : Append(s, e)[k] = s[k]
           /\ Append(s, e)[Len(s) + 1] = e
<1> DEFINE S == ToSet(s) \cup {e}
           t == Append(s, e)
<1>1. s \in Seq(S)
  BY SeqOfSet
<1>2. /\ t \in Seq(S) /\ Len(t) = Len(s) + 1 /\ t[Len(s) + 1] = e
      /\ \A k \in 1..Len(s) : t[k] = s[k]
  <2> HIDE DEF S
  <2>1. e \in S
    BY DEF S
  <2> QED
    BY <1>1, <2>1
<1> HIDE DEF t
<1>3. IsSeq(t) /\ ToSet(t) \subseteq S /\ \A k \in 1..Len(t) : t[k] \in ToSet(t)
  <2> HIDE DEF S
  <2> QED
    BY <1>2, SeqElements
<1>4. Len(s) \in Nat /\ \A x \in ToSet(s) : \E k \in 1..Len(s) : x = s[k]
  BY IsSeqElements
<1>5. S \subseteq ToSet(t)
  <2>1. \A x \in ToSet(s) : x \in ToSet(t)
    <3>1. \A k \in 1..Len(s) : k \in 1..Len(t)
      BY <1>2, <1>4
    <3> QED
      BY <1>2, <1>3, <1>4, <3>1
  <2>2. Len(t) \in 1..Len(t)
    BY <1>2, <1>4
  <2> QED
    BY <2>1, <2>2, <1>2, <1>3
<1> QED
  BY <1>2, <1>3, <1>5 DEF t

LEMMA ConcatElements ==
    ASSUME NEW s, IsSeq(s), NEW t, IsSeq(t)
    PROVE  /\ IsSeq(s \o t) /\ Len(s \o t) = Len(s) + Len(t)
           /\ ToSet(s \o t) = ToSet(s) \cup ToSet(t)
           /\ \A k \in 1..Len(s) : (s \o t)[k] = s[k]
           /\ \A k \in 1..Len(t) : (s \o t)[Len(s) + k] = t[k]
<1> DEFINE S == ToSet(s) \cup ToSet(t)
           u == s \o t
<1>1. s \in Seq(S) /\ t \in Seq(S)
  BY SeqOfSet
<1>2. /\ u \in Seq(S) /\ Len(u) = Len(s) + Len(t)
      /\ \A k \in 1..Len(s) : u[k] = s[k]
      /\ \A k \in 1..Len(t) : u[Len(s) + k] = t[k]
  <2> HIDE DEF S
  <2>1. u \in Seq(S) /\ Len(u) = Len(s) + Len(t) /\ Len(s) \in Nat /\ Len(t) \in Nat
    BY <1>1
  <2>2. \A k \in 1..Len(s) : u[k] = s[k]
    BY <1>1, <2>1
  <2>3. \A k \in 1..Len(t) : u[Len(s) + k] = t[k]
    BY <1>1, <2>1
  <2> QED
    BY <2>1, <2>2, <2>3
<1> HIDE DEF u
<1>3. IsSeq(u) /\ ToSet(u) \subseteq S /\ \A k \in 1..Len(u) : u[k] \in ToSet(u)
  <2> HIDE DEF S
  <2> QED
    BY <1>2, SeqElements
<1>4. /\ Len(s) \in Nat /\ \A x \in ToSet(s) : \E k \in 1..Len(s) : x = s[k]
      /\ Len(t) \in Nat /\ \A x \in ToSet(t) : \E k \in 1..Len(t) : x = t[k]
  BY IsSeqElements
<1>5. \A x \in ToSet(s) : x \in ToSet(u)
  <2>1. \A k \in 1..Len(s) : k \in 1..Len(u)
    BY <1>2, <1>4
  <2> QED
    BY <1>2, <1>3, <1>4, <2>1
<1>6. \A x \in ToSet(t) : x \in ToSet(u)
  <2>1. \A k \in 1..Len(t) : Len(s) + k \in 1..Len(u)
    BY <1>2, <1>4
  <2> QED
    BY <1>2, <1>3, <1>4, <2>1
<1> QED
  BY <1>2, <1>3, <1>5, <1>6 DEF u

-----------------------------------------------------------------------------
(* What Keep keeps.                                                        *)

(* A sequence q is what is left of the first n elements of s, at places p. *)
LeftAt(q, s, S, n, p) ==
    /\ p \in [1..Len(q) -> 1..n]
    /\ \A c, d \in 1..Len(q) : c < d => p[c] < p[d]
    /\ \A c \in 1..Len(q) : q[c] = s[p[c]] /\ q[c] \in S
    /\ \A k \in 1..n : s[k] \in S => \E c \in 1..Len(q) : p[c] = k

Left(q, s, S, n) == \E p \in [1..Len(q) -> 1..n] : LeftAt(q, s, S, n, p)

KeepStep(s, S) ==
    [n \in 1..Len(s) |->
        [q \in Seq(ToSet(s)) |-> IF s[n] \in S THEN Append(q, s[n]) ELSE q]]

LEMMA KeepRecursion ==
    ASSUME NEW s, IsSeq(s), NEW S
    PROVE  \E f \in Recursive(Seq(ToSet(s)), << >>, Len(s), KeepStep(s, S)) :
                Keep(s, S) = f[Len(s)]
<1>1. PICK N \in Nat : N = Len(s)
  BY IsSeqElements
<1>2. PICK D : D = Seq(ToSet(s))
  OBVIOUS
<1>3. PICK G : G = KeepStep(s, S)
  OBVIOUS
<1>4. << >> \in D
  BY <1>2
<1>5. /\ G \in [1..N -> [D -> D]]
      /\ \A n \in 1..N, q \in D : G[n][q] = IF s[n] \in S THEN Append(q, s[n]) ELSE q
  <2>1. \A n \in 1..N : s[n] \in ToSet(s)
    BY <1>1, IsSeqElements
  <2>2. \A n \in 1..N, q \in D : Append(q, s[n]) \in D
    BY <1>2, <2>1
  <2> QED
    BY <1>1, <1>2, <1>3, <2>2 DEF KeepStep
<1> DEFINE Body(n, q) == IF s[n] \in S THEN Append(q, s[n]) ELSE q
           Unfold(h) == [n \in 0..N |-> IF n = 0 THEN << >> ELSE Body(n, h[n - 1])]
<1>6. PICK h : h \in Recursive(D, << >>, N, G)
  BY <1>4, <1>5, RecursionExists
<1>7. h \in [0..N -> D] /\ h[0] = << >> /\ \A n \in 1..N : h[n] = G[n][h[n - 1]]
  BY <1>6 DEF Recursive
<1>8. h = Unfold(h)
  <2>1. \A n \in 1..N : n - 1 \in 0..N
    OBVIOUS
  <2>2. \A n \in 1..N : h[n] = Body(n, h[n - 1])
    BY <1>5, <1>7, <2>1
  <2> HIDE DEF Body
  <2>3. \A n \in 0..N : n = 0 \/ n \in 1..N
    OBVIOUS
  <2>4. \A n \in 0..N : h[n] = Unfold(h)[n]
    BY <1>7, <2>2, <2>3
  <2> QED
    BY <1>7, <2>4
<1> DEFINE f == CHOOSE g : g = Unfold(g)
<1>9. f = Unfold(f)
  <2> HIDE DEF Unfold
  <2> QED
    BY <1>8
<1>10. Keep(s, S) = f[N]
  BY <1>1 DEF Keep
<1> HIDE DEF f
<1>11. /\ f = [n \in 0..N |-> f[n]] /\ f[0] = << >>
       /\ \A n \in 1..N : f[n] = Body(n, f[n - 1])
  <2> HIDE DEF Body
  <2>1. \A n \in 1..N : n \in 0..N /\ n # 0
    OBVIOUS
  <2>2. \A n \in 0..N : f[n] = IF n = 0 THEN << >> ELSE Body(n, f[n - 1])
    BY <1>9
  <2>3. DOMAIN f = 0..N
    BY <1>9
  <2>4. f = [n \in DOMAIN f |-> f[n]]
    BY <1>9
  <2> QED
    BY <2>1, <2>2, <2>3, <2>4
<1>12. f \in Recursive(D, << >>, N, G)
  <2>1. \A n \in 1..N : f[n - 1] \in D => f[n] = G[n][f[n - 1]]
    BY <1>5, <1>11
  <2> QED
    BY <1>4, <1>5, <1>11, <2>1, RecursionTyped
<1> QED
  BY <1>1, <1>2, <1>3, <1>10, <1>12

LEMMA LeftStep ==
    ASSUME NEW s, IsSeq(s), NEW S, NEW n \in 1..Len(s), NEW q \in Seq(ToSet(s)),
           Left(q, s, S, n - 1)
    PROVE  Left(IF s[n] \in S THEN Append(q, s[n]) ELSE q, s, S, n)
<1>1. PICK p \in [1..Len(q) -> 1..(n - 1)] : LeftAt(q, s, S, n - 1, p)
  BY DEF Left
<1>2. n \in Nat /\ Len(q) \in Nat /\ Len(s) \in Nat
  BY IsSeqElements
<1>3. PICK l \in Nat : l = Len(q)
  BY <1>2
<1>4. /\ p \in [1..l -> 1..(n - 1)]
      /\ \A c, d \in 1..l : c < d => p[c] < p[d]
      /\ \A c \in 1..l : q[c] = s[p[c]] /\ q[c] \in S
      /\ \A k \in 1..(n - 1) : s[k] \in S => \E c \in 1..l : p[c] = k
  BY <1>1, <1>3 DEF LeftAt
<1>5. CASE s[n] \notin S
  <2>1. LeftAt(q, s, S, n, p)
    <3>1. p \in [1..l -> 1..n]
      BY <1>2, <1>4
    <3>2. \A k \in 1..n : k = n \/ k \in 1..(n - 1)
      BY <1>2
    <3> QED
      BY <1>3, <1>4, <1>5, <3>1, <3>2 DEF LeftAt
  <2> QED
    BY <1>5, <2>1 DEF Left, LeftAt
<1>6. CASE s[n] \in S
  <2> DEFINE t == Append(q, s[n])
             r == [c \in 1..(l + 1) |-> IF c = l + 1 THEN n ELSE p[c]]
  <2>1. IsSeq(q)
    BY SeqElements
  <2>2. /\ Len(t) = l + 1 /\ t[l + 1] = s[n]
        /\ \A c \in 1..l : t[c] = q[c]
    BY <1>3, <2>1, AppendElements
  <2> HIDE DEF t
  <2>3. \A c \in 1..(l + 1) : c = l + 1 \/ c \in 1..l
    BY <1>3
  <2>4. l + 1 \in 1..(l + 1) /\ \A c \in 1..l : c \in 1..(l + 1) /\ c # l + 1
    BY <1>3
  <2>5. r[l + 1] = n /\ \A c \in 1..l : r[c] = p[c] /\ p[c] \in 1..(n - 1)
    BY <1>4, <2>4
  <2>6. r \in [1..(l + 1) -> 1..n]
    <3>1. \A c \in 1..l : p[c] \in 1..n
      BY <1>2, <1>4
    <3> QED
      BY <1>2, <2>3, <3>1
  <2> HIDE DEF r
  <2>7. \A c, d \in 1..(l + 1) : c < d => r[c] < r[d]
    <3> SUFFICES ASSUME NEW c \in 1..(l + 1), NEW d \in 1..(l + 1), c < d
                 PROVE  r[c] < r[d]
      OBVIOUS
    <3>1. c \in 1..l
      BY <2>3, <1>3
    <3>2. CASE d = l + 1
      BY <3>1, <3>2, <2>5, <1>2
    <3>3. CASE d \in 1..l
      BY <3>1, <3>3, <2>5, <1>4
    <3> QED
      BY <3>2, <3>3, <2>3
  <2>8. \A c \in 1..(l + 1) : t[c] = s[r[c]] /\ t[c] \in S
    BY <1>4, <1>6, <2>2, <2>3, <2>5
  <2>9. \A k \in 1..n : s[k] \in S => \E c \in 1..(l + 1) : r[c] = k
    <3> SUFFICES ASSUME NEW k \in 1..n, s[k] \in S
                 PROVE  \E c \in 1..(l + 1) : r[c] = k
      OBVIOUS
    <3>1. CASE k = n
      BY <3>1, <2>4, <2>5
    <3>2. CASE k # n
      <4>1. k \in 1..(n - 1)
        BY <1>2, <3>2
      <4>2. PICK c \in 1..l : p[c] = k
        BY <1>4, <4>1
      <4> QED
        BY <2>4, <2>5, <4>2
    <3> QED
      BY <3>1, <3>2
  <2>10. LeftAt(t, s, S, n, r)
    BY <2>2, <2>6, <2>7, <2>8, <2>9 DEF LeftAt
  <2> QED
    BY <1>6, <2>2, <2>6, <2>10 DEF Left, t
<1> QED
  BY <1>5, <1>6

LEMMA KeepIsLeft ==
    ASSUME NEW s, IsSeq(s), NEW S
    PROVE  Keep(s, S) \in Seq(ToSet(s)) /\ Left(Keep(s, S), s, S, Len(s))
<1>1. PICK N \in Nat : N = Len(s)
  BY IsSeqElements
<1>2. PICK D : D = Seq(ToSet(s))
  OBVIOUS
<1>3. PICK G : G = KeepStep(s, S)
  OBVIOUS
<1>4. PICK f \in Recursive(D, << >>, N, G) : Keep(s, S) = f[N]
  BY <1>1, <1>2, <1>3, KeepRecursion
<1>5. \A n \in 1..N, q \in D : G[n][q] = IF s[n] \in S THEN Append(q, s[n]) ELSE q
  BY <1>1, <1>2, <1>3 DEF KeepStep
<1>6. \A n \in 1..N, q \in D : Left(q, s, S, n - 1) => Left(G[n][q], s, S, n)
  <2>1. \A n \in 1..Len(s), q \in Seq(ToSet(s)) :
          Left(q, s, S, n - 1) => Left(IF s[n] \in S THEN Append(q, s[n]) ELSE q, s, S, n)
    BY LeftStep
  <2> QED
    BY <1>1, <1>2, <1>5, <2>1
<1>7. \A n \in 1..N, q \in D : G[n][q] \in D
  <2>1. \A n \in 1..N : s[n] \in ToSet(s)
    BY <1>1, IsSeqElements
  <2>2. \A n \in 1..N, q \in D : Append(q, s[n]) \in D
    BY <1>2, <2>1
  <2> QED
    BY <1>5, <2>2
<1> DEFINE X == [n \in 0..N |-> { q \in D : Left(q, s, S, n) }]
<1>8. << >> \in D /\ << >> \in X[0]
  <2>1. << >> \in D /\ Len(<< >>) = 0 /\ 1..0 = {}
    BY <1>2
  <2> DEFINE e == [c \in 1..0 |-> c]
  <2>2. LeftAt(<< >>, s, S, 0, e)
    BY <2>1 DEF LeftAt
  <2>3. e \in [1..0 -> 1..0]
    BY <2>1
  <2> HIDE DEF e
  <2>4. Left(<< >>, s, S, 0)
    BY <2>1, <2>2, <2>3 DEF Left
  <2> QED
    BY <2>1, <2>4
<1>9. \A n \in 1..N : \A q \in D : q \in X[n - 1] => G[n][q] \in X[n]
  <2>1. \A n \in 1..N : n - 1 \in 0..N /\ n \in 0..N
    OBVIOUS
  <2> QED
    BY <1>6, <1>7, <2>1
<1> HIDE DEF X
<1>10. f[N] \in D /\ f[N] \in X[N]
  BY <1>4, <1>8, <1>9, RecursionKeeps
<1> QED
  BY <1>1, <1>2, <1>4, <1>10 DEF X

(* Keep leaves the elements of S, in their order.                          *)
InOrder(q, s) ==
    \A c, d \in 1..Len(q) : c < d =>
        \E k, l \in 1..Len(s) : k < l /\ q[c] = s[k] /\ q[d] = s[l]

LEMMA KeepElements ==
    ASSUME NEW s, IsSeq(s), NEW S
    PROVE  /\ IsSeq(Keep(s, S)) /\ ToSet(Keep(s, S)) = ToSet(s) \cap S
           /\ InOrder(Keep(s, S), s)
<1>1. PICK q : q = Keep(s, S)
  OBVIOUS
<1>2. PICK N \in Nat : N = Len(s)
  BY IsSeqElements
<1>3. q \in Seq(ToSet(s)) /\ Left(q, s, S, N)
  BY <1>1, <1>2, KeepIsLeft
<1>4. PICK p \in [1..Len(q) -> 1..N] : LeftAt(q, s, S, N, p)
  BY <1>3 DEF Left
<1>5. /\ \A c, d \in 1..Len(q) : c < d => p[c] < p[d]
      /\ \A c \in 1..Len(q) : q[c] = s[p[c]] /\ q[c] \in S
      /\ \A k \in 1..N : s[k] \in S => \E c \in 1..Len(q) : p[c] = k
  BY <1>4 DEF LeftAt
<1>6. /\ IsSeq(q) /\ ToSet(q) \subseteq ToSet(s)
      /\ \A k \in 1..Len(q) : q[k] \in ToSet(q)
      /\ \A x \in ToSet(q) : \E k \in 1..Len(q) : x = q[k]
  BY <1>3, SeqElements
<1>7. \A x \in ToSet(s) : \E k \in 1..N : x = s[k]
  BY <1>2, IsSeqElements
<1>8. ToSet(q) = ToSet(s) \cap S
  <2>1. \A x \in ToSet(q) : x \in S
    BY <1>5, <1>6
  <2>2. ASSUME NEW x \in ToSet(s), x \in S
        PROVE  x \in ToSet(q)
    <3>1. PICK k \in 1..N : x = s[k]
      BY <1>7
    <3>2. PICK c \in 1..Len(q) : p[c] = k
      BY <2>2, <3>1, <1>5
    <3> QED
      BY <3>1, <3>2, <1>5, <1>6
  <2> QED
    BY <2>1, <2>2, <1>6
<1>9. \A c, d \in 1..Len(q) : c < d =>
            \E k, l \in 1..N : k < l /\ q[c] = s[k] /\ q[d] = s[l]
  BY <1>4, <1>5
<1> QED
  BY <1>1, <1>2, <1>6, <1>8, <1>9 DEF InOrder

-----------------------------------------------------------------------------
(* What the other recursions make.                                         *)

LEMMA FlattenElements ==
    ASSUME NEW N \in Nat \ {0}, NEW t, IsSeq(t), Len(t) = N, NEW U,
           \A n \in 1..N : t[n] \in Seq(U)
    PROVE  FlattenSeq(t) \in Seq(U)
<1>1. PICK D : D = Seq(U)
  OBVIOUS
<1> DEFINE G == [n \in 1..(N - 1) |-> [q \in D |-> q \o t[n + 1]]]
<1>2. \A n \in 1..N, q \in D : q \o t[n] \in D
  BY <1>1
<1>3. \A n \in 1..(N - 1) : n + 1 \in 1..N /\ n \in 0..(N - 1) /\ n - 1 \in 0..(N - 1)
  OBVIOUS
<1>4. /\ G \in [1..(N - 1) -> [D -> D]]
      /\ \A n \in 1..(N - 1), q \in D : G[n][q] = q \o t[n + 1]
  BY <1>2, <1>3
<1> HIDE DEF G
<1>5. N - 1 \in Nat /\ t[1] \in D /\ 1 \in 1..N
  BY <1>1
<1>6. PICK h : h \in Recursive(D, t[1], N - 1, G)
  <2>1. Recursive(D, t[1], N - 1, G) # {}
    BY <1>4, <1>5, RecursionExists
  <2> QED
    BY <2>1
<1>7. /\ h \in [0..(N - 1) -> D] /\ h[0] = t[1]
      /\ \A n \in 1..(N - 1) : h[n] = h[n - 1] \o t[n + 1]
  BY <1>3, <1>4, <1>6 DEF Recursive
<1> DEFINE Joined(q, n) == q \o t[n]
           Unfold(g) == [i \in 1..N |-> IF i = 1 THEN t[i] ELSE Joined(g[i - 1], i)]
           k == [i \in 1..N |-> h[i - 1]]
<1>8. k = Unfold(k)
  <2>1. \A i \in 1..N : i = 1 \/ (i - 1 \in 1..(N - 1) /\ i - 1 \in 1..N)
    OBVIOUS
  <2>2. ASSUME NEW i \in 1..N
        PROVE  k[i] = Unfold(k)[i]
    <3>1. CASE i = 1
      BY <1>7, <3>1
    <3>2. CASE i - 1 \in 1..(N - 1) /\ i - 1 \in 1..N
      <4>1. h[i - 1] = h[(i - 1) - 1] \o t[(i - 1) + 1]
        BY <1>7, <3>2
      <4>2. k[i] = h[i - 1] /\ k[i - 1] = h[(i - 1) - 1] /\ (i - 1) + 1 = i /\ i # 1
        BY <3>2
      <4>3. k[i] = Joined(k[i - 1], i)
        BY <4>1, <4>2
      <4> HIDE DEF k, Joined
      <4> QED
        BY <4>2, <4>3
    <3> QED
      BY <2>1, <3>1, <3>2
  <2> HIDE DEF Joined
  <2> QED
    BY <2>2
<1> DEFINE f == CHOOSE g : g = Unfold(g)
<1>9. f = Unfold(f)
  <2> HIDE DEF Unfold
  <2> QED
    BY <1>8
<1>10. FlattenSeq(t) = f[N]
  <2>1. Len(t) = N /\ N # 0
    OBVIOUS
  <2> QED
    BY <2>1 DEF FlattenSeq
<1> HIDE DEF f
<1> DEFINE g == [n \in 0..(N - 1) |-> f[n + 1]]
<1>11. g[0] = t[1] /\ \A n \in 1..(N - 1) : g[n] = g[n - 1] \o t[n + 1]
  <2>1. \A i \in 1..N : f[i] = IF i = 1 THEN t[i] ELSE Joined(f[i - 1], i)
    <3> HIDE DEF Joined
    <3> QED
      BY <1>9
  <2>2. f[1] = t[1]
    BY <2>1, <1>5
  <2>3. \A n \in 1..(N - 1) : n + 1 \in 1..N /\ n + 1 # 1 /\ (n + 1) - 1 = n
    OBVIOUS
  <2>4. \A n \in 1..(N - 1) : f[n + 1] = f[n] \o t[n + 1]
    BY <2>1, <2>3
  <2>5. \A n \in 1..(N - 1) : n \in 0..(N - 1) /\ n - 1 \in 0..(N - 1) /\ (n - 1) + 1 = n
    OBVIOUS
  <2>6. 0 \in 0..(N - 1) /\ 0 + 1 = 1
    OBVIOUS
  <2> QED
    BY <2>2, <2>4, <2>5, <2>6
<1>12. g = [n \in 0..(N - 1) |-> g[n]]
  OBVIOUS
<1>13. g[N - 1] = f[N]
  <2>1. N - 1 \in 0..(N - 1) /\ (N - 1) + 1 = N
    OBVIOUS
  <2> QED
    BY <2>1
<1> HIDE DEF g
<1>14. g \in Recursive(D, t[1], N - 1, G)
  <2>1. \A n \in 1..(N - 1) : g[n - 1] \in D => g[n] = G[n][g[n - 1]]
    BY <1>4, <1>11
  <2> QED
    BY <1>4, <1>5, <1>11, <1>12, <2>1, RecursionTyped
<1>15. g[N - 1] \in D
  BY <1>5, <1>14 DEF Recursive
<1> QED
  BY <1>1, <1>10, <1>13, <1>15

(* Jump threading gives the target alternatives for phis that have some.   *)
LEMMA PatchedElements ==
    ASSUME IsSeq(blocks[target].alts)
    PROVE  PatchedAlts \in Seq(ToSet(blocks[target].alts) \cup
                { Alt(a.phi, at.b, Resolved(a)) : a \in ToSet(blocks[target].alts) })
<1>1. PICK alts : alts = blocks[target].alts
  OBVIOUS
<1>2. PICK N \in Nat : N = Len(alts)
  BY <1>1, IsSeqElements
<1>3. PICK E : E = ToSet(alts) \cup { Alt(a.phi, at.b, Resolved(a)) : a \in ToSet(alts) }
  OBVIOUS
<1>4. PICK D : D = Seq(E)
  OBVIOUS
<1>5. alts \in D
  BY <1>1, <1>3, <1>4, SeqOfSet
<1>6. \A n \in 1..N : alts[n] \in ToSet(alts)
  BY <1>1, <1>2, IsSeqElements
<1>7. \A a \in ToSet(alts), q \in D : Patch(q, a) \in D
  <2> SUFFICES ASSUME NEW a \in ToSet(alts), NEW q \in D
               PROVE  Patch(q, a) \in D
    OBVIOUS
  <2>1. Alt(a.phi, at.b, Resolved(a)) \in E
    BY <1>3
  <2>2. Append(q, Alt(a.phi, at.b, Resolved(a))) \in D
    BY <1>4, <2>1
  <2> QED
    BY <2>2 DEF Patch
<1> DEFINE G == [n \in 1..N |-> [q \in D |-> Patch(q, alts[n])]]
<1>8. /\ G \in [1..N -> [D -> D]]
      /\ \A n \in 1..N, q \in D : G[n][q] = Patch(q, alts[n])
  BY <1>6, <1>7
<1> HIDE DEF G
<1>9. PICK h : h \in Recursive(D, alts, N, G)
  BY <1>5, <1>8, RecursionExists
<1>10. /\ h \in [0..N -> D] /\ h[0] = alts
       /\ \A n \in 1..N : h[n] = G[n][h[n - 1]]
  BY <1>9 DEF Recursive
<1> DEFINE Unfold(g) == [n \in 0..N |-> IF n = 0 THEN alts ELSE Patch(g[n - 1], alts[n])]
<1>11. h = Unfold(h)
  <2>1. \A n \in 1..N : n - 1 \in 0..N
    OBVIOUS
  <2>2. \A n \in 1..N : h[n] = Patch(h[n - 1], alts[n])
    BY <1>8, <1>10, <2>1
  <2>3. \A n \in 0..N : n = 0 \/ n \in 1..N
    OBVIOUS
  <2>4. \A n \in 0..N : h[n] = Unfold(h)[n]
    BY <1>10, <2>2, <2>3
  <2> QED
    BY <1>10, <2>4
<1> DEFINE f == CHOOSE g : g = Unfold(g)
<1>12. f = Unfold(f)
  <2> HIDE DEF Unfold
  <2> QED
    BY <1>11
<1>13. PatchedAlts = f[N]
  BY <1>1, <1>2 DEF PatchedAlts
<1> HIDE DEF f
<1>14. /\ f = [n \in 0..N |-> f[n]] /\ f[0] = alts
       /\ \A n \in 1..N : f[n] = Patch(f[n - 1], alts[n])
  <2>1. \A n \in 0..N : f[n] = IF n = 0 THEN alts ELSE Patch(f[n - 1], alts[n])
    BY <1>12
  <2>2. \A n \in 1..N : n \in 0..N /\ n # 0
    OBVIOUS
  <2>3. DOMAIN f = 0..N /\ f = [n \in DOMAIN f |-> f[n]]
    BY <1>12
  <2> QED
    BY <2>1, <2>2, <2>3
<1>15. f \in Recursive(D, alts, N, G)
  <2>1. \A n \in 1..N : f[n - 1] \in D => f[n] = G[n][f[n - 1]]
    BY <1>8, <1>14
  <2> QED
    BY <1>5, <1>8, <1>14, <2>1, RecursionTyped
<1>16. f[N] \in D
  BY <1>15 DEF Recursive
<1> QED
  BY <1>1, <1>3, <1>4, <1>13, <1>16


-----------------------------------------------------------------------------
(* Operations.                                                             *)

LEMMA OpcodeFacts ==
    /\ \A x : nInputs(x) \in 0..2
    /\ nInputs("nop") = 0 /\ nInputs("phi") = 0 /\ nInputs("jmp") = 0
    /\ hasSideFX("nop") /\ ~hasSideFX("phi") /\ \A x \in Jumps : hasSideFX(x)
    /\ "nop" \notin Jumps /\ "phi" \notin Jumps /\ "nop" # "phi"
<1>1. \A x : nInputs(x) \in 0..2
  BY DEF nInputs
<1>2. nInputs("nop") = 0 /\ nInputs("phi") = 0 /\ nInputs("jmp") = 0
  BY DEF nInputs
<1> QED
  BY <1>1, <1>2 DEF hasSideFX, Jumps, CondJumps, Terminators, Exits

LEMMA InputUsesNat ==
    ASSUME NEW o, NEW v
    PROVE  InputUses(o, v) \in Nat /\ (nInputs(o.opcode) = 0 => InputUses(o, v) = 0)
<1>1. nInputs(o.opcode) \in 0..2
  BY OpcodeFacts
<1>2. IsFiniteSet(1..nInputs(o.opcode))
  BY <1>1, FS_Interval
<1>3. IsFiniteSet({ k \in 1..nInputs(o.opcode) : o.in[k] = v })
  BY <1>2, FS_Subset
<1>4. nInputs(o.opcode) = 0 => { k \in 1..nInputs(o.opcode) : o.in[k] = v } = {}
  OBVIOUS
<1> QED
  BY <1>3, <1>4, FS_CardinalityType, FS_EmptySet DEF InputUses

LEMMA NoInputUses ==
    ASSUME NEW o, NEW M, OpOk(o, M), o.in = << >>, NEW v
    PROVE  InputUses(o, v) = 0
<1>1. nInputs(o.opcode) = 0
  BY DEF OpOk
<1> QED
  BY <1>1, InputUsesNat

LEMMA NopFacts ==
    ASSUME NEW o, NEW M, OpOk(o, M)
    PROVE  /\ makeNOP(o).opcode = "nop" /\ makeNOP(o).in = << >> /\ makeNOP(o).label = << >>
           /\ makeNOP(o).block = o.block /\ OpOk(makeNOP(o), M)
<1>1. /\ makeNOP(o).opcode = "nop" /\ makeNOP(o).in = << >> /\ makeNOP(o).label = << >>
      /\ makeNOP(o).block = o.block /\ DOMAIN makeNOP(o) = OpFields
  BY DEF makeNOP, OpOk, OpFields
<1>2. << >> \in Seq(1..M) /\ IsSeq(<< >>) /\ Len(<< >>) = 0
  BY DEF IsSeq
<1>3. nInputs("nop") = 0 /\ "nop" \notin Jumps /\ o.block \in 1..M
  BY OpcodeFacts DEF OpOk
<1> QED
  BY <1>1, <1>2, <1>3 DEF OpOk

-----------------------------------------------------------------------------
(* What the sweep leaves of a block.  States of the sweep of code, after   *)
(* the last n operations of it.                                            *)

SweepStates ==
    [ops : [1..Len(ops) -> { ops[v] : v \in 1..Len(ops) }
                             \cup { makeNOP(ops[v]) : v \in 1..Len(ops) }],
     nUse : [1..Len(ops) -> Int]]

Handled(code, n) == { code[Len(code) + 1 - m] : m \in 1..n }

SweptTo(code, n) ==
    { s \in SweepStates :
        /\ \A v \in 1..Len(ops) : s.ops[v] \in {ops[v], makeNOP(ops[v])}
        /\ \A v \in 1..Len(ops) \ Handled(code, n) : s.ops[v] = ops[v]
        /\ \/ s.ops = ops /\ s.nUse = nUse
           \/ \E i \in Handled(code, n) : s.ops[i].opcode = "nop"
        /\ \A i \in Handled(code, n) : s.ops[i].opcode = "phi" => s.nUse[i] # 0 }

LEMMA KillTyped ==
    ASSUME IsSeq(ops), \A v \in 1..Len(ops) : OpOk(ops[v], Len(blocks)),
           NEW s \in SweepStates, NEW c \in 1..Len(ops), s.ops[c] \in {ops[c], makeNOP(ops[c])}
    PROVE  /\ Kill(c, s) \in SweepStates
           /\ \/ Kill(c, s) = s /\ ~Removable(s.ops[c], s.nUse[c])
              \/ /\ s.ops[c] = ops[c]
                 /\ Kill(c, s).ops = [s.ops EXCEPT ![c] = makeNOP(ops[c])]
                 /\ Kill(c, s).nUse = [v \in 1..Len(ops) |-> s.nUse[v] - InputUses(ops[c], v)]
<1>1. PICK N \in Nat : N = Len(ops)
  BY IsSeqElements
<1>2. PICK O : O = { ops[v] : v \in 1..N } \cup { makeNOP(ops[v]) : v \in 1..N }
  OBVIOUS
<1>3. SweepStates = [ops : [1..N -> O], nUse : [1..N -> Int]] /\ c \in 1..N
  BY <1>1, <1>2 DEF SweepStates
<1>4. c # noVal
  BY <1>3 DEF noVal
<1>5. CASE ~Removable(s.ops[c], s.nUse[c])
  BY <1>4, <1>5 DEF Kill
<1>6. CASE Removable(s.ops[c], s.nUse[c])
  <2>1. s.ops[c].opcode # "nop"
    BY <1>6 DEF Removable
  <2>2. makeNOP(ops[c]).opcode = "nop"
    BY NopFacts
  <2>3. s.ops[c] = ops[c]
    BY <2>1, <2>2
  <2>4. PICK t : t = [v \in 1..N |-> s.nUse[v] - InputUses(ops[c], v)]
    OBVIOUS
  <2>5. Kill(c, s) = [ops |-> [s.ops EXCEPT ![c] = makeNOP(ops[c])], nUse |-> t]
    <3>1. DOMAIN s.nUse = 1..N
      BY <1>3
    <3> QED
      BY <1>4, <1>6, <2>3, <2>4, <3>1 DEF Kill
  <2>6. t \in [1..N -> Int]
    <3>1. \A v \in 1..N : s.nUse[v] \in Int /\ InputUses(ops[c], v) \in Nat
      BY <1>3, InputUsesNat
    <3> QED
      BY <2>4, <3>1
  <2>7. makeNOP(ops[c]) \in O
    BY <1>2, <1>3
  <2>8. [s.ops EXCEPT ![c] = makeNOP(ops[c])] \in [1..N -> O]
    BY <1>3, <2>7
  <2> QED
    BY <1>1, <1>3, <2>3, <2>4, <2>5, <2>6, <2>8
<1> QED
  BY <1>5, <1>6

LEMMA KillKeeps ==
    ASSUME IsSeq(ops), \A v \in 1..Len(ops) : OpOk(ops[v], Len(blocks)),
           NEW b, NEW code, CodeOk(ops, code, b),
           NEW n \in 1..Len(code), NEW s \in SweptTo(code, n - 1)
    PROVE  Kill(code[Len(code) + 1 - n], s) \in SweptTo(code, n)
<1>1. PICK N \in Nat : N = Len(ops)
  BY IsSeqElements
<1>2. code \in Seq(1..N) /\ Len(code) \in Nat
  BY <1>1 DEF CodeOk
<1>3. PICK l \in Nat : l = Len(code)
  BY <1>2
<1>4. PICK c : c = code[l + 1 - n]
  OBVIOUS
<1>5. l + 1 - n \in 1..l /\ n \in 1..l /\ n \in Nat
  BY <1>3
<1>6. c \in 1..N
  BY <1>2, <1>3, <1>4, <1>5
<1>7. Handled(code, n) = Handled(code, n - 1) \cup {c}
  <2>1. \A m \in 1..n : m = n \/ m \in 1..(n - 1)
    BY <1>5
  <2>2. n \in 1..n /\ \A m \in 1..(n - 1) : m \in 1..n
    BY <1>5
  <2> QED
    BY <1>3, <1>4, <2>1, <2>2 DEF Handled
<1>8. /\ s \in SweepStates
      /\ \A v \in 1..N : s.ops[v] \in {ops[v], makeNOP(ops[v])}
      /\ \A v \in 1..N \ Handled(code, n - 1) : s.ops[v] = ops[v]
      /\ \/ s.ops = ops /\ s.nUse = nUse
         \/ \E i \in Handled(code, n - 1) : s.ops[i].opcode = "nop"
      /\ \A i \in Handled(code, n - 1) : s.ops[i].opcode = "phi" => s.nUse[i] # 0
  BY <1>1 DEF SweptTo
<1>9. PICK H : H = Handled(code, n - 1)
  OBVIOUS
<1>10. PICK k : k = Kill(c, s)
  OBVIOUS
<1>11. /\ k \in SweepStates
       /\ \/ k = s /\ ~Removable(s.ops[c], s.nUse[c])
          \/ /\ s.ops[c] = ops[c]
             /\ k.ops = [s.ops EXCEPT ![c] = makeNOP(ops[c])]
             /\ k.nUse = [v \in 1..N |-> s.nUse[v] - InputUses(ops[c], v)]
  BY <1>1, <1>6, <1>8, <1>10, KillTyped
<1>12. CASE k = s /\ ~Removable(s.ops[c], s.nUse[c])
  <2>1. s.ops[c].opcode = "phi" => s.nUse[c] # 0
    BY <1>12, OpcodeFacts DEF Removable
  <2>2. k \in SweptTo(code, n)
    BY <1>1, <1>7, <1>8, <1>12, <2>1 DEF SweptTo
  <2> QED
    BY <1>3, <1>4, <1>10, <2>2
<1>13. CASE /\ s.ops[c] = ops[c]
            /\ k.ops = [s.ops EXCEPT ![c] = makeNOP(ops[c])]
            /\ k.nUse = [v \in 1..N |-> s.nUse[v] - InputUses(ops[c], v)]
  <2>1. DOMAIN s.ops = 1..N /\ s.nUse \in [1..N -> Int]
    BY <1>1, <1>8 DEF SweepStates
  <2>2. k.ops[c] = makeNOP(ops[c]) /\ \A v \in 1..N : v # c => k.ops[v] = s.ops[v]
    BY <1>6, <1>13, <2>1
  <2>3. k.ops[c].opcode = "nop"
    <3>1. OpOk(ops[c], Len(blocks))
      BY <1>1, <1>6
    <3> QED
      BY <2>2, <3>1, NopFacts
  <2>4. \A v \in 1..N : k.ops[v] \in {ops[v], makeNOP(ops[v])}
    BY <1>8, <2>2
  <2>5. \A v \in 1..N \ (H \cup {c}) : k.ops[v] = ops[v]
    BY <1>8, <1>9, <2>2
  <2>6. ASSUME NEW i \in H \cup {c}, k.ops[i].opcode = "phi"
        PROVE  k.nUse[i] # 0
    <3>1. i # c /\ i \in H
      BY <2>3, <2>6, OpcodeFacts
    <3>2. PICK m \in 1..(n - 1) : i = code[l + 1 - m]
      BY <1>3, <1>9, <3>1 DEF Handled
    <3>3. l + 1 - m \in 1..l /\ l + 1 - n < l + 1 - m
      BY <1>5
    <3>4. i \in 1..N
      BY <1>2, <1>3, <3>2, <3>3
    <3>5. k.ops[i] = s.ops[i]
      BY <2>2, <3>1, <3>4
    <3>6. s.ops[i].opcode = "phi" /\ s.nUse[i] # 0
      BY <1>8, <1>9, <2>6, <3>1, <3>5
    <3>7. makeNOP(ops[i]).opcode = "nop"
      BY <1>1, <3>4, NopFacts
    <3>8. ops[i].opcode = "phi"
      BY <1>8, <3>4, <3>6, <3>7, OpcodeFacts
    <3>9. ops[c].in = << >>
      <4>1. \A x, y \in 1..l : x < y /\ ops[code[y]].opcode = "phi" => ops[code[x]].in = << >>
        BY <1>3 DEF CodeOk
      <4> QED
        BY <1>4, <1>5, <3>2, <3>3, <3>8, <4>1
    <3>10. InputUses(ops[c], i) = 0
      BY <1>1, <1>6, <3>9, NoInputUses
    <3>11. k.nUse[i] = s.nUse[i] - 0 /\ s.nUse[i] \in Int
      BY <1>13, <2>1, <3>4, <3>10
    <3> QED
      BY <3>6, <3>11
  <2>7. k \in SweptTo(code, n)
    BY <1>1, <1>7, <1>9, <1>11, <2>3, <2>4, <2>5, <2>6 DEF SweptTo
  <2> QED
    BY <1>3, <1>4, <1>10, <2>7
<1> QED
  BY <1>11, <1>12, <1>13

LEMMA SweptFacts ==
    ASSUME IsSeq(ops), \A v \in 1..Len(ops) : OpOk(ops[v], Len(blocks)),
           nUse \in [1..Len(ops) -> Int],
           NEW b, NEW code, CodeOk(ops, code, b)
    PROVE  Swept(code) \in SweptTo(code, Len(code))
<1>1. PICK N \in Nat : N = Len(code)
  BY DEF CodeOk
<1>2. PICK M \in Nat : M = Len(ops)
  BY IsSeqElements
<1>3. PICK D : D = { s \in SweepStates :
                        \A v \in 1..M : s.ops[v] \in {ops[v], makeNOP(ops[v])} }
  OBVIOUS
<1>4. PICK base : base = [ops |-> ops, nUse |-> nUse]
  OBVIOUS
<1>5. base \in D
  <2>1. ops = [v \in 1..M |-> ops[v]]
    BY <1>2 DEF IsSeq
  <2>2. ops \in [1..M -> { ops[v] : v \in 1..M } \cup { makeNOP(ops[v]) : v \in 1..M }]
    BY <2>1
  <2> QED
    BY <1>2, <1>3, <1>4, <2>2 DEF SweepStates
<1>6. \A n \in 1..N : code[N + 1 - n] \in 1..M
  <2>1. code \in Seq(1..M)
    BY <1>2 DEF CodeOk
  <2> QED
    BY <1>1, <2>1
<1> DEFINE G == [n \in 1..N |-> [s \in D |-> Kill(code[N + 1 - n], s)]]
<1>7. \A n \in 1..N, s \in D : Kill(code[N + 1 - n], s) \in D
  <2> SUFFICES ASSUME NEW c \in 1..M, NEW s \in D
               PROVE  Kill(c, s) \in D
    BY <1>6
  <2>1. PICK k : k = Kill(c, s)
    OBVIOUS
  <2>2. /\ k \in SweepStates
        /\ \/ k = s
           \/ k.ops = [s.ops EXCEPT ![c] = makeNOP(ops[c])]
    BY <1>2, <1>3, <2>1, KillTyped
  <2>3. \A v \in 1..M : k.ops[v] \in {ops[v], makeNOP(ops[v])}
    <3>1. DOMAIN s.ops = 1..M
      BY <1>2, <1>3 DEF SweepStates
    <3> QED
      BY <1>3, <2>2, <3>1
  <2> QED
    BY <1>3, <2>1, <2>2, <2>3
<1>8. /\ G \in [1..N -> [D -> D]]
      /\ \A n \in 1..N, s \in D : G[n][s] = Kill(code[N + 1 - n], s)
  BY <1>7
<1> HIDE DEF G
<1>9. PICK h : h \in Recursive(D, base, N, G)
  BY <1>5, <1>8, RecursionExists
<1>10. /\ h \in [0..N -> D] /\ h[0] = base
       /\ \A n \in 1..N : h[n] = G[n][h[n - 1]]
  BY <1>9 DEF Recursive
<1> DEFINE Unfold(g) ==
             [n \in 0..N |-> IF n = 0 THEN base ELSE Kill(code[N + 1 - n], g[n - 1])]
<1>11. h = Unfold(h)
  <2>1. \A n \in 1..N : n - 1 \in 0..N
    OBVIOUS
  <2>2. \A n \in 1..N : h[n] = Kill(code[N + 1 - n], h[n - 1])
    BY <1>8, <1>10, <2>1
  <2>3. \A n \in 0..N : n = 0 \/ n \in 1..N
    OBVIOUS
  <2>4. \A n \in 0..N : h[n] = Unfold(h)[n]
    BY <1>10, <2>2, <2>3
  <2> QED
    BY <1>10, <2>4
<1> DEFINE f == CHOOSE g : g = Unfold(g)
<1>12. f = Unfold(f)
  <2> HIDE DEF Unfold
  <2> QED
    BY <1>11
<1>13. Swept(code) = f[N]
  BY <1>1, <1>4 DEF Swept
<1> HIDE DEF f
<1>14. /\ f = [n \in 0..N |-> f[n]] /\ f[0] = base
       /\ \A n \in 1..N : f[n] = Kill(code[N + 1 - n], f[n - 1])
  <2>1. \A n \in 0..N : f[n] = IF n = 0 THEN base ELSE Kill(code[N + 1 - n], f[n - 1])
    BY <1>12
  <2>2. \A n \in 1..N : n \in 0..N /\ n # 0
    OBVIOUS
  <2>3. DOMAIN f = 0..N /\ f = [n \in DOMAIN f |-> f[n]]
    BY <1>12
  <2>4. f[0] = base
    BY <2>1
  <2>5. \A n \in 1..N : f[n] = Kill(code[N + 1 - n], f[n - 1])
    BY <2>1, <2>2
  <2> QED
    BY <2>3, <2>4, <2>5
<1>15. f \in Recursive(D, base, N, G)
  <2>1. \A n \in 1..N : f[n - 1] \in D => f[n] = G[n][f[n - 1]]
    BY <1>8, <1>14
  <2> QED
    BY <1>5, <1>8, <1>14, <2>1, RecursionTyped
<1> DEFINE X == [n \in 0..N |-> SweptTo(code, n)]
<1>16. base \in X[0]
  <2>1. Handled(code, 0) = {}
    BY DEF Handled
  <2>2. base \in SweptTo(code, 0)
    BY <1>2, <1>3, <1>4, <1>5, <2>1 DEF SweptTo
  <2> QED
    BY <2>2
<1>17. \A n \in 1..N : \A s \in D : s \in X[n - 1] => G[n][s] \in X[n]
  <2> SUFFICES ASSUME NEW n \in 1..N, NEW s \in D, s \in SweptTo(code, n - 1)
               PROVE  Kill(code[N + 1 - n], s) \in SweptTo(code, n)
    <3>1. \A n \in 1..N : n \in 0..N /\ n - 1 \in 0..N
      OBVIOUS
    <3> QED
      BY <1>8, <3>1
  <2> QED
    BY <1>1, KillKeeps
<1>18. f[N] \in X[N]
  <2> HIDE DEF X
  <2> QED
    BY <1>5, <1>15, <1>16, <1>17, RecursionKeeps
<1> QED
  BY <1>1, <1>13, <1>18

-----------------------------------------------------------------------------
(* Changes of a procedure that keep its shape.                             *)

LEMMA OpsKept ==
    ASSUME NEW o, NEW bl, ProcOk(o, bl), NEW p, IsSeq(p), Len(p) = Len(o),
           \A v \in 1..Len(o) :
               /\ OpOk(p[v], Len(bl)) /\ p[v].block = o[v].block
               /\ o[v].in = << >> => p[v].in = << >>
               /\ p[v].opcode # "nop" => /\ o[v].opcode # "nop"
                                         /\ o[v].opcode = "phi" <=> p[v].opcode = "phi"
    PROVE  ProcOk(p, bl)
<1>1. PICK N \in Nat : N = Len(o)
  BY IsSeqElements DEF ProcOk
<1>2. ASSUME NEW b \in 1..Len(bl)
      PROVE  BlockOk(p, bl[b], b)
  <2>1. PICK x : x = bl[b]
    OBVIOUS
  <2>2. BlockOk(o, x, b)
    BY <2>1 DEF ProcOk
  <2>3. x.code \in Seq(1..N) /\ Distinct(x.code)
    BY <1>1, <2>2 DEF BlockOk, CodeOk
  <2>4. \A i \in ToSet(x.code) : i \in 1..N
    BY <2>3, SeqElements
  <2>5. \A i \in ToSet(x.code) : p[i].block = b
    BY <1>1, <2>2, <2>4 DEF BlockOk, CodeOk
  <2>6. \A c \in 1..Len(x.code) : x.code[c] \in 1..N
    BY <2>3
  <2>7. \A c, d \in 1..Len(x.code) :
            c < d /\ p[x.code[d]].opcode = "phi" => p[x.code[c]].in = << >>
    BY <1>1, <2>2, <2>6, OpcodeFacts DEF BlockOk, CodeOk
  <2>8. CodeOk(p, x.code, b)
    BY <1>1, <2>3, <2>5, <2>7 DEF CodeOk
  <2>9. \A a \in ToSet(x.alts) : AltOk(p, x.code, a, b)
    BY <1>1, <2>2 DEF BlockOk, AltOk
  <2> QED
    BY <2>1, <2>2, <2>8, <2>9 DEF BlockOk
<1> QED
  BY <1>2 DEF ProcOk

LEMMA OpOkGrows ==
    ASSUME NEW op, NEW M \in Nat, NEW L \in Nat, M <= L, OpOk(op, M)
    PROVE  OpOk(op, L)
<1>1. 1..M \subseteq 1..L
  OBVIOUS
<1>2. Seq(1..M) \subseteq Seq(1..L)
  BY <1>1
<1> QED
  BY <1>1, <1>2 DEF OpOk

(* p has the operations of o and others.                                   *)
Extends(p, o) == IsSeq(p) /\ Len(p) >= Len(o) /\ \A v \in 1..Len(o) : p[v] = o[v]

LEMMA CodeOkGrows ==
    ASSUME NEW o, IsSeq(o), NEW p, Extends(p, o), NEW code, NEW b, CodeOk(o, code, b)
    PROVE  /\ CodeOk(p, code, b) /\ IsSeq(code)
           /\ \A i \in ToSet(code) : i \in 1..Len(o) /\ p[i] = o[i]
<1>1. PICK N \in Nat : N = Len(o)
  BY IsSeqElements
<1>2. PICK P \in Nat : P = Len(p)
  BY IsSeqElements DEF Extends
<1>3. 1..N \subseteq 1..P
  BY <1>1, <1>2 DEF Extends
<1>4. code \in Seq(1..N)
  BY <1>1 DEF CodeOk
<1>5. code \in Seq(1..P) /\ \A c \in 1..Len(code) : code[c] \in 1..N
  BY <1>3, <1>4
<1>6. IsSeq(code) /\ \A i \in ToSet(code) : i \in 1..N
  BY <1>4, SeqElements
<1>7. \A i \in 1..N : p[i] = o[i]
  BY <1>1 DEF Extends
<1>8. \A i \in ToSet(code) : p[i].block = b
  BY <1>6, <1>7 DEF CodeOk
<1>9. \A c, d \in 1..Len(code) :
            c < d /\ p[code[d]].opcode = "phi" => p[code[c]].in = << >>
  BY <1>5, <1>7 DEF CodeOk
<1> QED
  BY <1>1, <1>2, <1>5, <1>6, <1>7, <1>8, <1>9 DEF CodeOk

LEMMA AltOkGrows ==
    ASSUME NEW o, IsSeq(o), NEW p, Extends(p, o), NEW code, NEW longer, NEW a, NEW b,
           AltOk(o, code, a, b), ToSet(code) \subseteq ToSet(longer)
    PROVE  AltOk(p, longer, a, b)
<1>1. Len(o) \in Nat /\ Len(p) \in Nat /\ Len(p) >= Len(o)
  BY IsSeqElements DEF Extends
<1>2. a.phi \in 1..Len(p) /\ p[a.phi] = o[a.phi]
  BY <1>1 DEF Extends, AltOk
<1> QED
  BY <1>2 DEF AltOk

LEMMA BlockOkGrows ==
    ASSUME NEW o, IsSeq(o), NEW p, Extends(p, o), NEW x, NEW b, BlockOk(o, x, b)
    PROVE  BlockOk(p, x, b)
<1>1. CodeOk(p, x.code, b)
  BY CodeOkGrows DEF BlockOk
<1>2. \A a \in ToSet(x.alts) : AltOk(p, x.code, a, b)
  BY AltOkGrows DEF BlockOk
<1> QED
  BY <1>1, <1>2 DEF BlockOk

LEMMA ProcGrows ==
    ASSUME NEW o, NEW bl, ProcOk(o, bl), NEW p, Extends(p, o), NEW q, IsSeq(q),
           Len(q) >= Len(bl), \A v \in (Len(o) + 1)..Len(p) : OpOk(p[v], Len(q)),
           \A b \in 1..Len(q) : BlockOk(p, q[b], b)
    PROVE  ProcOk(p, q)
<1>1. PICK N, M \in Nat : N = Len(o) /\ M = Len(bl)
  BY IsSeqElements DEF ProcOk
<1>2. PICK P, Q \in Nat : P = Len(p) /\ Q = Len(q)
  BY IsSeqElements DEF Extends
<1>3. M > 0 /\ M <= Q /\ N <= P
  BY <1>1, <1>2 DEF ProcOk, Extends
<1>4. \A v \in 1..N : OpOk(o[v], M)
  BY <1>1 DEF ProcOk
<1>5. \A v \in 1..N : OpOk(p[v], Q)
  BY <1>1, <1>3, <1>4, OpOkGrows DEF Extends
<1>6. \A v \in 1..P : v \in 1..N \/ v \in (N + 1)..P
  OBVIOUS
<1>7. \A v \in 1..P : OpOk(p[v], Q)
  BY <1>1, <1>2, <1>5, <1>6
<1> QED
  BY <1>2, <1>3, <1>7 DEF ProcOk, Extends

(* Closing up the code of a block.                                         *)
LEMMA CodeOkKept ==
    ASSUME NEW o, NEW code, NEW b, CodeOk(o, code, b), NEW S
    PROVE  /\ CodeOk(o, Keep(code, S), b)
           /\ ToSet(Keep(code, S)) = ToSet(code) \cap S
<1>1. PICK q : q = Keep(code, S)
  OBVIOUS
<1>2. code \in Seq(1..Len(o)) /\ IsSeq(code)
  BY SeqElements DEF CodeOk
<1>3. IsSeq(q) /\ ToSet(q) = ToSet(code) \cap S /\ InOrder(q, code)
  BY <1>1, <1>2, KeepElements
<1>4. ToSet(q) \subseteq 1..Len(o)
  BY <1>2, <1>3, SeqElements
<1>5. q \in Seq(1..Len(o))
  BY <1>3, <1>4, SeqOfSet
<1>6. Distinct(q)
  <2>1. \A k, l \in 1..Len(code) : k < l => code[k] # code[l]
    BY DEF CodeOk, Distinct
  <2>2. \A c, d \in 1..Len(q) : c < d => q[c] # q[d]
    BY <1>3, <2>1 DEF InOrder
  <2> QED
    BY <2>2 DEF Distinct
<1>7. \A c, d \in 1..Len(q) :
            c < d /\ o[q[d]].opcode = "phi" => o[q[c]].in = << >>
  <2>1. \A k, l \in 1..Len(code) :
            k < l /\ o[code[l]].opcode = "phi" => o[code[k]].in = << >>
    BY DEF CodeOk
  <2> QED
    BY <1>3, <2>1 DEF InOrder
<1>8. \A i \in ToSet(q) : o[i].block = b
  BY <1>3 DEF CodeOk
<1> QED
  BY <1>1, <1>3, <1>5, <1>6, <1>7, <1>8 DEF CodeOk

(* A new operation that is not a phi, at the end of the code of a block.   *)
LEMMA CodeOkAppended ==
    ASSUME NEW o, IsSeq(o), NEW op, op.opcode # "phi", NEW code, NEW b,
           CodeOk(o, code, b), op.block = b
    PROVE  /\ CodeOk(Append(o, op), Append(code, Len(o) + 1), b)
           /\ ToSet(code) \subseteq ToSet(Append(code, Len(o) + 1))
           /\ Extends(Append(o, op), o)
<1>1. PICK N \in Nat : N = Len(o)
  BY IsSeqElements
<1>2. PICK p : p = Append(o, op)
  OBVIOUS
<1>3. IsSeq(p) /\ Len(p) = N + 1 /\ (\A v \in 1..N : p[v] = o[v]) /\ p[N + 1] = op
  BY <1>1, <1>2, AppendElements
<1>4. Extends(p, o)
  BY <1>1, <1>3 DEF Extends
<1>5. CodeOk(p, code, b) /\ IsSeq(code) /\ \A i \in ToSet(code) : i \in 1..N
  BY <1>1, <1>4, CodeOkGrows
<1>6. PICK L \in Nat : L = Len(code)
  BY <1>5, IsSeqElements
<1>7. PICK q : q = Append(code, N + 1)
  OBVIOUS
<1>8. /\ IsSeq(q) /\ Len(q) = L + 1 /\ ToSet(q) = ToSet(code) \cup {N + 1}
      /\ (\A k \in 1..L : q[k] = code[k]) /\ q[L + 1] = N + 1
  BY <1>5, <1>6, <1>7, AppendElements
<1>9. \A k \in 1..L : code[k] \in ToSet(code) /\ code[k] \in 1..N
  BY <1>5, <1>6, IsSeqElements
<1>10. ToSet(q) \subseteq 1..Len(p)
  BY <1>3, <1>5, <1>8
<1>11. q \in Seq(1..Len(p))
  BY <1>8, <1>10, SeqOfSet
<1>12. \A c, d \in 1..(L + 1) : c < d => c \in 1..L /\ (d \in 1..L \/ d = L + 1)
  OBVIOUS
<1>13. Distinct(q)
  <2>1. \A c, d \in 1..L : c < d => code[c] # code[d]
    BY <1>5, <1>6 DEF CodeOk, Distinct
  <2>2. \A k \in 1..L : code[k] # N + 1
    BY <1>9
  <2>3. \A c, d \in 1..(L + 1) : c < d => q[c] # q[d]
    BY <1>8, <1>12, <2>1, <2>2
  <2> QED
    BY <1>8, <2>3 DEF Distinct
<1>14. \A i \in ToSet(q) : p[i].block = b
  BY <1>3, <1>5, <1>8 DEF CodeOk
<1>15. \A c, d \in 1..(L + 1) :
            c < d /\ p[q[d]].opcode = "phi" => p[q[c]].in = << >>
  <2>1. \A c, d \in 1..L : c < d /\ p[code[d]].opcode = "phi" => p[code[c]].in = << >>
    BY <1>5, <1>6 DEF CodeOk
  <2> QED
    BY <1>3, <1>8, <1>12, <2>1
<1>16. CodeOk(p, q, b)
  BY <1>8, <1>11, <1>13, <1>14, <1>15 DEF CodeOk
<1> QED
  BY <1>1, <1>2, <1>4, <1>7, <1>8, <1>16

-----------------------------------------------------------------------------
(* What the emitters make.                                                 *)

LEMMA CallFacts ==
    ASSUME script \in Seq(Calls), NEW name, Consume(name)
    PROVE  /\ Next1 \in Calls /\ Next1.call = name /\ script' \in Seq(Calls)
           /\ Next1.labels \in Seq(Nat \ {0}) /\ Next1.args \in Seq(Nat \ {0})
           /\ Len(Next1.args) \in Nat
           /\ name \in Emitters \cup {"jz", "iret"} => Len(Next1.args) = nInputs(name)
           /\ name \in {"emitLabel", "jmp"} => Len(Next1.labels) = 1
           /\ name = "jz" => Len(Next1.labels) = 2
<1>1. script # << >> /\ Next1.call = name /\ script' = Tail(script)
  BY DEF Consume
<1>2. PICK C : C = Calls
  OBVIOUS
<1>3. Head(script) \in C /\ Tail(script) \in Seq(C)
  BY <1>1, <1>2
<1>4. Next1 \in Calls /\ script' \in Seq(Calls)
  BY <1>1, <1>2, <1>3 DEF Next1
<1>5. PICK c : c = Next1
  OBVIOUS
<1>6. /\ c.labels \in Seq(Nat \ {0}) /\ c.args \in Seq(Nat \ {0})
      /\ c.call \in Emitters \cup {"jz", "iret"} => Len(c.args) = nInputs(c.call)
      /\ c.call \in {"emitLabel", "jmp"} => Len(c.labels) = 1
      /\ c.call = "jz" => Len(c.labels) = 2
  BY <1>4, <1>5 DEF Calls
<1> QED
  BY <1>1, <1>4, <1>5, <1>6

ProcArgsOk == Shape /\ \A b \in 1..Len(blocks) : ArgsOk(b)

LEMMA ShapeFacts ==
    ASSUME Shape
    PROVE  /\ Len(ops) \in Nat /\ Len(blocks) \in Nat /\ Len(blocks) > 0
           /\ IsSeq(ops) /\ IsSeq(blocks)
           /\ DOMAIN ops = 1..Len(ops) /\ DOMAIN blocks = 1..Len(blocks)
           /\ ops = [v \in 1..Len(ops) |-> ops[v]]
           /\ blocks = [b \in 1..Len(blocks) |-> blocks[b]]
           /\ \A v \in 1..Len(ops) : OpOk(ops[v], Len(blocks))
           /\ \A b \in 1..Len(blocks) : BlockOk(ops, blocks[b], b)
<1>1. IsSeq(ops) /\ IsSeq(blocks) /\ Len(blocks) > 0
  BY DEF Shape, ProcOk
<1>2. /\ Len(ops) \in Nat /\ Len(blocks) \in Nat
      /\ DOMAIN ops = 1..Len(ops) /\ DOMAIN blocks = 1..Len(blocks)
  BY <1>1, IsSeqElements
<1>3. /\ ops = [v \in 1..Len(ops) |-> ops[v]]
      /\ blocks = [b \in 1..Len(blocks) |-> blocks[b]]
  BY <1>1 DEF IsSeq
<1> QED
  BY <1>1, <1>2, <1>3 DEF Shape, ProcOk

(* If operations are added, and to blocks code and alternatives, and other *)
(* blocks, all as it should be, then arguments still are.                  *)
LEMMA ArgsOkGrows ==
    ASSUME Shape, NEW b \in 1..Len(blocks), ArgsOk(b), Extends(ops', ops),
           blocks'[b].args = blocks[b].args,
           ToSet(blocks[b].code) \subseteq ToSet(blocks'[b].code)
    PROVE  ArgsOk(b)'
<1>1. Len(ops) \in Nat /\ Len(ops') \in Nat /\ Len(ops') >= Len(ops)
  BY ShapeFacts, IsSeqElements DEF Extends
<1>2. \A p \in 1..Len(ops) : p \in 1..Len(ops') /\ ops'[p] = ops[p]
  BY <1>1 DEF Extends
<1> QED
  BY <1>2 DEF ArgsOk

LEMMA AddOpKeeps ==
    ASSUME ProcArgsOk, currentBlock \in 1..Len(blocks),
           NEW op, OpOk(op, Len(blocks)), op.block = currentBlock, op.opcode # "phi",
           addOp(op)
    PROVE  ProcArgsOk' /\ Len(blocks') = Len(blocks)
<1>1. Shape /\ \A b \in 1..Len(blocks) : ArgsOk(b)
  BY DEF ProcArgsOk
<1>2. PICK N, M \in Nat : N = Len(ops) /\ M = Len(blocks)
  BY <1>1, ShapeFacts
<1>3. /\ IsSeq(ops) /\ IsSeq(blocks)
      /\ DOMAIN blocks = 1..M /\ M > 0
      /\ blocks = [b \in 1..M |-> blocks[b]]
      /\ \A b \in 1..M : BlockOk(ops, blocks[b], b)
  BY <1>1, <1>2, ShapeFacts
<1>4. ops' = Append(ops, op)
  BY DEF addOp
<1>5. PICK cb \in 1..M : cb = currentBlock
  BY <1>2
<1>6. PICK code : code = blocks[cb].code
  OBVIOUS
<1>7. PICK more : more = Append(code, N + 1)
  OBVIOUS
<1>8. blocks' = [blocks EXCEPT ![cb].code = more]
  BY <1>2, <1>5, <1>6, <1>7 DEF addOp
<1>9. DOMAIN blocks[cb] = {"code", "args", "alts", "live"} /\ CodeOk(ops, code, cb)
  BY <1>3, <1>5, <1>6 DEF BlockOk
<1>10. /\ CodeOk(ops', more, cb) /\ ToSet(code) \subseteq ToSet(more)
       /\ Extends(ops', ops)
  BY <1>2, <1>3, <1>4, <1>5, <1>7, <1>9, CodeOkAppended
<1>11. /\ blocks' = [b \in 1..M |-> blocks'[b]]
       /\ \A b \in 1..M : b # cb => blocks'[b] = blocks[b]
       /\ blocks'[cb] = [blocks[cb] EXCEPT !.code = more]
  BY <1>3, <1>8
<1>12. IsSeq(blocks') /\ Len(blocks') = M
  BY <1>11, TupleIsSeq
<1>13. /\ DOMAIN blocks'[cb] = {"code", "args", "alts", "live"}
       /\ blocks'[cb].code = more /\ blocks'[cb].alts = blocks[cb].alts
       /\ blocks'[cb].args = blocks[cb].args
  BY <1>9, <1>11
<1>14. \A b \in 1..M : BlockOk(ops', blocks'[b], b)
  <2>1. \A b \in 1..M : b # cb => BlockOk(ops', blocks'[b], b)
    BY <1>3, <1>10, <1>11, BlockOkGrows
  <2>2. \A a \in ToSet(blocks[cb].alts) : AltOk(ops', more, a, cb)
    BY <1>3, <1>5, <1>6, <1>10, AltOkGrows DEF BlockOk
  <2>3. BlockOk(ops', blocks'[cb], cb)
    BY <1>3, <1>10, <1>13, <2>2 DEF BlockOk
  <2> QED
    BY <2>1, <2>3
<1>15. \A v \in (N + 1)..Len(ops') : OpOk(ops'[v], M)
  <2>1. Len(ops') = N + 1 /\ ops'[N + 1] = op
    BY <1>2, <1>3, <1>4, AppendElements
  <2>2. \A v \in (N + 1)..(N + 1) : v = N + 1
    OBVIOUS
  <2> QED
    BY <1>2, <2>1, <2>2
<1>16. ProcOk(ops', blocks')
  <2>1. ProcOk(ops, blocks)
    BY <1>1 DEF Shape
  <2> QED
    BY <1>2, <1>10, <1>12, <1>14, <1>15, <2>1, ProcGrows
<1>17. \A b \in 1..M : ArgsOk(b)'
  <2> SUFFICES ASSUME NEW b \in 1..M
               PROVE  ArgsOk(b)'
    OBVIOUS
  <2>1. blocks'[b].args = blocks[b].args
    BY <1>11, <1>13
  <2>2. ToSet(blocks[b].code) \subseteq ToSet(blocks'[b].code)
    BY <1>6, <1>10, <1>11, <1>13
  <2> QED
    BY <1>1, <1>2, <1>10, <2>1, <2>2, ArgsOkGrows
<1> QED
  BY <1>2, <1>12, <1>16, <1>17 DEF ProcArgsOk, Shape

LEMMA NewLabelKeeps ==
    ASSUME ProcArgsOk, IsSeq(env), newLabel
    PROVE  ProcArgsOk' /\ Len(blocks') = Len(blocks) + 1
<1>1. Shape /\ \A b \in 1..Len(blocks) : ArgsOk(b)
  BY DEF ProcArgsOk
<1>2. PICK N, M \in Nat : N = Len(ops) /\ M = Len(blocks)
  BY <1>1, ShapeFacts
<1>3. PICK E \in Nat : E = Len(env)
  BY IsSeqElements
<1>4. /\ IsSeq(ops) /\ IsSeq(blocks) /\ M > 0
      /\ \A b \in 1..M : BlockOk(ops, blocks[b], b)
  BY <1>1, <1>2, ShapeFacts
<1>5. PICK phis : phis = [i \in 1..E |-> N + i]
  OBVIOUS
<1>6. PICK new : new = [i \in 1..E |-> [Op("phi", << >>, 0, M + 1) EXCEPT !.phiIndex = i]]
  OBVIOUS
<1>7. PICK x : x = [NewBlock EXCEPT !.code = phis, !.args = phis]
  OBVIOUS
<1>8. ops' = ops \o new /\ blocks' = Append(blocks, x)
  BY <1>2, <1>3, <1>5, <1>6, <1>7 DEF newLabel
<1>9. IsSeq(new) /\ Len(new) = E /\ IsSeq(phis) /\ Len(phis) = E
  BY <1>5, <1>6, TupleIsSeq
<1>10. /\ IsSeq(ops') /\ Len(ops') = N + E
       /\ \A v \in 1..N : ops'[v] = ops[v]
       /\ \A i \in 1..E : ops'[N + i] = new[i]
  BY <1>2, <1>4, <1>8, <1>9, ConcatElements
<1>11. /\ IsSeq(blocks') /\ Len(blocks') = M + 1
       /\ \A b \in 1..M : blocks'[b] = blocks[b]
       /\ blocks'[M + 1] = x
  BY <1>2, <1>4, <1>8, AppendElements
<1>12. Extends(ops', ops)
  BY <1>2, <1>10 DEF Extends
<1>13. \A i \in 1..E : /\ DOMAIN new[i] = OpFields /\ new[i].opcode = "phi"
                       /\ new[i].in = << >> /\ new[i].label = << >> /\ new[i].block = M + 1
  BY <1>6 DEF Op, OpFields
<1>14. \A i \in 1..E : OpOk(new[i], M + 1)
  <2>1. IsSeq(<< >>) /\ Len(<< >>) = 0 /\ << >> \in Seq(1..(M + 1)) /\ M + 1 \in 1..(M + 1)
    BY DEF IsSeq
  <2> QED
    BY <1>13, <2>1, OpcodeFacts DEF OpOk
<1>15. \A v \in (N + 1)..(N + E) : v - N \in 1..E /\ v = N + (v - N)
  OBVIOUS
<1>16. \A v \in (N + 1)..Len(ops') : OpOk(ops'[v], Len(blocks'))
  BY <1>10, <1>11, <1>14, <1>15
<1>17. /\ DOMAIN x = {"code", "args", "alts", "live"}
       /\ x.code = phis /\ x.args = phis /\ x.alts = << >>
  BY <1>7 DEF NewBlock
<1>18. /\ ToSet(phis) \subseteq 1..(N + E)
       /\ \A p \in ToSet(phis) : \E i \in 1..E : p = N + i
  <2>1. \A p \in ToSet(phis) : \E i \in 1..E : p = N + i
    <3>1. \A p \in ToSet(phis) : \E i \in 1..E : p = phis[i]
      BY <1>9, IsSeqElements
    <3>2. \A i \in 1..E : phis[i] = N + i
      BY <1>5
    <3> QED
      BY <3>1, <3>2
  <2> QED
    BY <2>1
<1>19. \A p \in ToSet(phis) : ops'[p].block = M + 1 /\ ops'[p].opcode = "phi"
  <2>1. \A i \in 1..E : ops'[N + i].block = M + 1 /\ ops'[N + i].opcode = "phi"
    BY <1>10, <1>13
  <2> QED
    BY <1>18, <2>1
<1>20. CodeOk(ops', phis, M + 1)
  <2>1. phis \in Seq(1..(N + E))
    BY <1>9, <1>18, SeqOfSet
  <2>2. Distinct(phis)
    BY <1>5, <1>9 DEF Distinct
  <2>3. \A c \in 1..E : ops'[phis[c]].in = << >>
    BY <1>5, <1>10, <1>13
  <2> QED
    BY <1>9, <1>10, <1>19, <2>1, <2>2, <2>3 DEF CodeOk
<1>21. BlockOk(ops', x, M + 1)
  <2>1. IsSeq(<< >>) /\ ToSet(<< >>) = {}
    BY DEF IsSeq, ToSet
  <2> QED
    BY <1>17, <1>20, <2>1 DEF BlockOk
<1>22. \A b \in 1..(M + 1) : b \in 1..M \/ b = M + 1
  OBVIOUS
<1>23. \A b \in 1..(M + 1) : BlockOk(ops', blocks'[b], b)
  <2>1. \A b \in 1..M : BlockOk(ops', blocks'[b], b)
    BY <1>4, <1>11, <1>12, BlockOkGrows
  <2> QED
    BY <1>11, <1>21, <1>22, <2>1
<1>24. ProcOk(ops', blocks')
  <2>1. ProcOk(ops, blocks)
    BY <1>1 DEF Shape
  <2>2. Len(blocks') >= Len(blocks)
    BY <1>2, <1>11
  <2> QED
    BY <1>2, <1>11, <1>12, <1>16, <1>23, <2>1, <2>2, ProcGrows
<1>25. \A b \in 1..M : ArgsOk(b)'
  BY <1>1, <1>2, <1>11, <1>12, ArgsOkGrows
<1>26. ArgsOk(M + 1)'
  BY <1>9, <1>10, <1>11, <1>17, <1>18, <1>19 DEF ArgsOk
<1> QED
  BY <1>2, <1>11, <1>22, <1>24, <1>25, <1>26 DEF ProcArgsOk, Shape

LEMMA EmitLabelKeeps ==
    ASSUME ProcArgsOk, emitLabel, script \in Seq(Calls)
    PROVE  /\ ProcArgsOk' /\ Len(blocks') = Len(blocks)
           /\ IsSeq(env') /\ currentBlock' \in 1..Len(blocks)
<1>1. Shape /\ \A b \in 1..Len(blocks) : ArgsOk(b)
  BY DEF ProcArgsOk
<1>2. PICK N, M \in Nat : N = Len(ops) /\ M = Len(blocks)
  BY <1>1, ShapeFacts
<1>3. /\ DOMAIN blocks = 1..M /\ M > 0 /\ blocks = [b \in 1..M |-> blocks[b]]
      /\ \A b \in 1..M : BlockOk(ops, blocks[b], b)
  BY <1>1, <1>2, ShapeFacts
<1>4. Next1.labels \in Seq(Nat \ {0}) /\ Len(Next1.labels) = 1
  BY CallFacts DEF emitLabel
<1>5. PICK l \in Nat \ {0} : l = Next1.labels[1]
  BY <1>4
<1>6. /\ l <= M /\ blocks' = [blocks EXCEPT ![l].live = TRUE]
      /\ currentBlock' = l /\ env' = blocks[l].args /\ ops' = ops
  BY <1>2, <1>5 DEF emitLabel
<1>7. l \in 1..M
  BY <1>6
<1>8. /\ blocks' = [b \in 1..M |-> blocks'[b]]
      /\ \A b \in 1..M : /\ DOMAIN blocks'[b] = {"code", "args", "alts", "live"}
                         /\ blocks'[b].code = blocks[b].code
                         /\ blocks'[b].alts = blocks[b].alts
                         /\ blocks'[b].args = blocks[b].args
  <2>1. \A b \in 1..M : DOMAIN blocks[b] = {"code", "args", "alts", "live"}
    BY <1>3 DEF BlockOk
  <2> QED
    BY <1>3, <1>6, <1>7, <2>1
<1>9. IsSeq(blocks') /\ Len(blocks') = M
  BY <1>8, TupleIsSeq
<1>10. \A b \in 1..M : BlockOk(ops', blocks'[b], b)
  BY <1>3, <1>6, <1>8 DEF BlockOk
<1>11. ProcOk(ops', blocks')
  <2>1. ProcOk(ops, blocks)
    BY <1>1 DEF Shape
  <2> QED
    BY <1>2, <1>6, <1>9, <1>10, <2>1 DEF ProcOk
<1>12. \A b \in 1..M : ArgsOk(b)'
  BY <1>1, <1>2, <1>6, <1>8 DEF ArgsOk
<1>13. IsSeq(env')
  BY <1>1, <1>2, <1>6, <1>7 DEF ArgsOk
<1> QED
  BY <1>2, <1>6, <1>7, <1>9, <1>11, <1>12, <1>13 DEF ProcArgsOk, Shape

(* The alternatives that a jump with these labels gives to block b.        *)
Given(label, b) ==
    FlattenSeq([k \in 1..Len(label) |-> IF label[k] = b THEN AltsTo(b) ELSE << >>])

LEMMA GivenElements ==
    ASSUME ProcArgsOk, IsSeq(env), currentBlock \in 1..Len(blocks),
           NEW label \in Seq(1..Len(blocks)), label # << >>,
           \A k \in 1..Len(label) : Len(blocks[label[k]].args) = Len(env),
           NEW b \in 1..Len(blocks)
    PROVE  IsSeq(Given(label, b))
           /\ \A a \in ToSet(Given(label, b)) : AltOk(ops, blocks[b].code, a, b)
<1>1. Shape /\ ArgsOk(b) /\ BlockOk(ops, blocks[b], b)
  BY ShapeFacts DEF ProcArgsOk
<1>2. PICK L \in Nat \ {0} : L = Len(label)
  OBVIOUS
<1>3. PICK E \in Nat : E = Len(env)
  BY IsSeqElements
<1>4. PICK U : U = IF \E k \in 1..L : label[k] = b
                   THEN { Alt(blocks[b].args[i], currentBlock, env[i]) : i \in 1..E } ELSE {}
  OBVIOUS
<1>5. PICK t : t = [k \in 1..L |-> IF label[k] = b THEN AltsTo(b) ELSE << >>]
  OBVIOUS
<1>6. IsSeq(t) /\ Len(t) = L
  BY <1>5, TupleIsSeq
<1>7. ASSUME NEW k \in 1..L
      PROVE  t[k] \in Seq(U)
  <2>1. CASE label[k] = b
    <3>1. U = { Alt(blocks[b].args[i], currentBlock, env[i]) : i \in 1..E }
      BY <1>4, <2>1
    <3>2. t[k] = [i \in 1..E |-> Alt(blocks[b].args[i], currentBlock, env[i])]
      BY <1>3, <1>5, <2>1 DEF AltsTo
    <3>3. t[k] \in [1..E -> U]
      BY <3>1, <3>2
    <3>4. \A u \in [1..E -> U] : u \in Seq(U)
      OBVIOUS
    <3> QED
      BY <3>3, <3>4
  <2>2. CASE label[k] # b
    BY <1>5, <2>2
  <2> QED
    BY <2>1, <2>2
<1>8. Given(label, b) \in Seq(U)
  <2>1. Given(label, b) = FlattenSeq(t)
    BY <1>2, <1>5 DEF Given
  <2> QED
    BY <1>6, <1>7, <2>1, FlattenElements
<1>9. IsSeq(Given(label, b)) /\ ToSet(Given(label, b)) \subseteq U
  BY <1>8, SeqElements
<1>10. ASSUME NEW a \in U
       PROVE  AltOk(ops, blocks[b].code, a, b)
  <2>1. PICK k \in 1..L : label[k] = b
    BY <1>4
  <2>2. Len(blocks[b].args) = E
    BY <1>2, <1>3, <2>1
  <2>3. PICK i \in 1..E : a = Alt(blocks[b].args[i], currentBlock, env[i])
    BY <1>4
  <2>4. IsSeq(blocks[b].args) /\ blocks[b].args[i] \in ToSet(blocks[b].args)
    BY <1>1, <2>2, IsSeqElements DEF ArgsOk
  <2>5. PICK p : p = blocks[b].args[i]
    OBVIOUS
  <2>6. p \in 1..Len(ops) /\ ops[p].opcode = "phi" /\ p \in ToSet(blocks[b].code)
    BY <1>1, <2>4, <2>5 DEF ArgsOk
  <2>7. ops[p].block = b
    BY <1>1, <2>6 DEF BlockOk, CodeOk
  <2>8. DOMAIN a = {"phi", "src", "val"} /\ a.phi = p
    BY <2>3, <2>5 DEF Alt
  <2> QED
    BY <2>6, <2>7, <2>8 DEF AltOk
<1> QED
  BY <1>9, <1>10

LEMMA JumpKeeps ==
    ASSUME ProcArgsOk, IsSeq(env), currentBlock \in 1..Len(blocks),
           NEW op, DOMAIN op = OpFields, IsSeq(op.in), Len(op.in) = nInputs(op.opcode),
           op.label \in Seq(Nat \ {0}), op.label # << >>,
           op.block = currentBlock, op.opcode # "phi",
           Jump(op)
    PROVE  ProcArgsOk' /\ Len(blocks') = Len(blocks)
<1>1. Shape /\ \A b \in 1..Len(blocks) : ArgsOk(b)
  BY DEF ProcArgsOk
<1>2. PICK N, M \in Nat : N = Len(ops) /\ M = Len(blocks)
  BY <1>1, ShapeFacts
<1>3. /\ IsSeq(ops) /\ IsSeq(blocks)
      /\ DOMAIN blocks = 1..M /\ M > 0
      /\ \A b \in 1..M : BlockOk(ops, blocks[b], b)
  BY <1>1, <1>2, ShapeFacts
<1>4. PICK cb \in 1..M : cb = currentBlock
  BY <1>2
<1>5. op.label \in Seq(1..M) /\ \A k \in 1..Len(op.label) : Len(blocks[op.label[k]].args) = Len(env)
  <2>1. \A k \in 1..Len(op.label) :
            op.label[k] <= M /\ Len(blocks[op.label[k]].args) = Len(env)
    BY <1>2 DEF Jump
  <2>2. PICK label \in Seq(Nat \ {0}) : label = op.label
    OBVIOUS
  <2>3. \A k \in 1..Len(label) : label[k] \in 1..M
    BY <2>1, <2>2
  <2>4. label \in Seq(1..M)
    <3>1. IsSeq(label) /\ \A x \in ToSet(label) : \E k \in 1..Len(label) : x = label[k]
      BY SeqElements
    <3>2. ToSet(label) \subseteq 1..M
      BY <2>3, <3>1
    <3> QED
      BY <3>1, <3>2, SeqOfSet
  <2> QED
    BY <2>1, <2>2, <2>4
<1>6. OpOk(op, M)
  BY <1>4, <1>5 DEF OpOk
<1>7. /\ ops' = Append(ops, op)
      /\ blocks' = [b \in 1..M |->
            [blocks[b] EXCEPT
               !.code = IF b = cb THEN Append(@, N + 1) ELSE @,
               !.alts = @ \o Given(op.label, b)]]
  BY <1>2, <1>4 DEF Jump, Given
<1>8. /\ blocks' = [b \in 1..M |-> blocks'[b]]
      /\ \A b \in 1..M :
            /\ DOMAIN blocks'[b] = {"code", "args", "alts", "live"}
            /\ blocks'[b].code = IF b = cb THEN Append(blocks[b].code, N + 1)
                                 ELSE blocks[b].code
            /\ blocks'[b].alts = blocks[b].alts \o Given(op.label, b)
            /\ blocks'[b].args = blocks[b].args
  <2>1. \A b \in 1..M : DOMAIN blocks[b] = {"code", "args", "alts", "live"}
    BY <1>3 DEF BlockOk
  <2> QED
    BY <1>7, <2>1
<1>9. IsSeq(blocks') /\ Len(blocks') = M
  BY <1>8, TupleIsSeq
<1>10. Extends(ops', ops)
  BY <1>2, <1>3, <1>4, <1>7, CodeOkAppended DEF BlockOk
<1>11. ASSUME NEW b \in 1..M
       PROVE  /\ BlockOk(ops', blocks'[b], b)
              /\ ToSet(blocks[b].code) \subseteq ToSet(blocks'[b].code)
  <2>1. PICK y : y = blocks[b]
    OBVIOUS
  <2>2. PICK x : x = blocks'[b]
    OBVIOUS
  <2>3. BlockOk(ops, y, b)
    BY <1>3, <2>1
  <2>4. CodeOk(ops', x.code, b) /\ ToSet(y.code) \subseteq ToSet(x.code)
    <3>1. CASE b = cb
      <4>1. CodeOk(ops, y.code, b) /\ x.code = Append(y.code, N + 1) /\ op.block = b
        BY <1>4, <1>8, <2>1, <2>2, <2>3, <3>1 DEF BlockOk
      <4> QED
        BY <4>1, <1>2, <1>3, <1>7, CodeOkAppended
    <3>2. CASE b # cb
      <4>1. CodeOk(ops, y.code, b) /\ x.code = y.code
        BY <1>8, <2>1, <2>2, <2>3, <3>2 DEF BlockOk
      <4> QED
        BY <4>1, <1>3, <1>10, CodeOkGrows
    <3> QED
      BY <3>1, <3>2
  <2>5. PICK given : given = Given(op.label, b)
    OBVIOUS
  <2>6. IsSeq(given) /\ \A a \in ToSet(given) : AltOk(ops, y.code, a, b)
    BY <1>2, <1>5, <2>1, <2>5, GivenElements
  <2>7. IsSeq(y.alts) /\ \A a \in ToSet(y.alts) : AltOk(ops, y.code, a, b)
    BY <2>3 DEF BlockOk
  <2>8. x.alts = y.alts \o given
    BY <1>8, <2>1, <2>2, <2>5
  <2>9. IsSeq(x.alts) /\ ToSet(x.alts) = ToSet(y.alts) \cup ToSet(given)
    BY <2>6, <2>7, <2>8, ConcatElements
  <2>10. \A a \in ToSet(x.alts) : AltOk(ops', x.code, a, b)
    BY <1>3, <1>10, <2>4, <2>6, <2>7, <2>9, AltOkGrows
  <2>11. DOMAIN x = {"code", "args", "alts", "live"}
    BY <1>8, <2>2
  <2>12. BlockOk(ops', x, b)
    BY <2>4, <2>9, <2>10, <2>11 DEF BlockOk
  <2> QED
    BY <2>1, <2>2, <2>4, <2>12
<1>12. \A v \in (N + 1)..Len(ops') : OpOk(ops'[v], M)
  <2>1. Len(ops') = N + 1 /\ ops'[N + 1] = op
    BY <1>2, <1>3, <1>7, AppendElements
  <2>2. \A v \in (N + 1)..(N + 1) : v = N + 1
    OBVIOUS
  <2> QED
    BY <1>6, <2>1, <2>2
<1>13. ProcOk(ops', blocks')
  <2>1. ProcOk(ops, blocks)
    BY <1>1 DEF Shape
  <2> QED
    BY <1>2, <1>9, <1>10, <1>11, <1>12, <2>1, ProcGrows
<1>14. \A b \in 1..M : ArgsOk(b)'
  BY <1>1, <1>2, <1>8, <1>10, <1>11, ArgsOkGrows
<1> QED
  BY <1>2, <1>9, <1>13, <1>14 DEF ProcArgsOk, Shape

LEMMA NewOp ==
    ASSUME NEW opcode, NEW in, IsSeq(in), Len(in) = nInputs(opcode), NEW imm,
           NEW M \in Nat, NEW b \in 1..M, opcode \notin Jumps
    PROVE  /\ OpOk(Op(opcode, in, imm, b), M) /\ Op(opcode, in, imm, b).block = b
           /\ Op(opcode, in, imm, b).opcode = opcode
<1>1. PICK op : op = Op(opcode, in, imm, b)
  OBVIOUS
<1>2. /\ DOMAIN op = OpFields /\ op.opcode = opcode /\ op.in = in /\ op.label = << >>
      /\ op.block = b
  BY <1>1 DEF Op, OpFields
<1>3. << >> \in Seq(1..M)
  OBVIOUS
<1> QED
  BY <1>1, <1>2, <1>3 DEF OpOk

LEMMA SmallSeqs ==
    /\ IsSeq(<< >>) /\ Len(<< >>) = 0
    /\ \A x : IsSeq(<<x>>) /\ Len(<<x>>) = 1
<1>1. IsSeq(<< >>) /\ Len(<< >>) = 0
  BY DEF IsSeq
<1>2. ASSUME NEW x
      PROVE  IsSeq(<<x>>) /\ Len(<<x>>) = 1
  <2>1. PICK s : s = <<x>>
    OBVIOUS
  <2>2. s \in Seq({x}) /\ Len(s) = 1
    BY <2>1
  <2> QED
    BY <2>1, <2>2, SeqElements
<1> QED
  BY <1>1, <1>2

LEMMA BuildKeeps ==
    ASSUME ProcArgsOk, script \in Seq(Calls), IsSeq(env),
           currentBlock \in 1..Len(blocks), Build
    PROVE  /\ ProcArgsOk' /\ script' \in Seq(Calls) /\ IsSeq(env')
           /\ currentBlock' \in 1..Len(blocks')
<1>1. PICK M \in Nat : M = Len(blocks)
  BY ShapeFacts DEF ProcArgsOk
<1>2. PICK call : call = Next1
  OBVIOUS
<1>3. PICK in : in = [k \in 1..Len(call.args) |-> env[call.args[k]]]
  OBVIOUS
<1>4. CASE newLabel
  <2>1. script' \in Seq(Calls)
    BY <1>4, CallFacts DEF newLabel
  <2>2. ProcArgsOk' /\ Len(blocks') = M + 1
    BY <1>1, <1>4, NewLabelKeeps
  <2> QED
    BY <1>1, <1>4, <2>1, <2>2 DEF newLabel
<1>5. CASE emitLabel
  <2>1. script' \in Seq(Calls)
    BY <1>5, CallFacts DEF emitLabel
  <2> QED
    BY <1>5, <2>1, EmitLabelKeeps
<1>6. CASE jmp
  <2>1. /\ script' \in Seq(Calls)
        /\ call.labels \in Seq(Nat \ {0}) /\ Len(call.labels) = 1
    BY <1>2, <1>6, CallFacts DEF jmp
  <2>2. PICK op : op = [Op("jmp", << >>, 0, currentBlock) EXCEPT !.label = call.labels]
    OBVIOUS
  <2>3. Jump(op)
    BY <1>2, <1>6, <2>2 DEF jmp
  <2>4. /\ DOMAIN op = OpFields /\ op.opcode = "jmp" /\ op.in = << >>
        /\ op.label = call.labels /\ op.block = currentBlock
    BY <2>2 DEF Op, OpFields
  <2>5. /\ op.label \in Seq(Nat \ {0}) /\ op.label # << >>
        /\ IsSeq(op.in) /\ Len(op.in) = nInputs(op.opcode) /\ op.opcode # "phi"
    <3>1. call.labels # << >>
      <4>1. \A s \in Seq(Nat \ {0}) : Len(s) > 0 => s # << >>
        OBVIOUS
      <4>2. Len(call.labels) > 0
        BY <2>1
      <4> QED
        BY <2>1, <4>1, <4>2, Zenon
    <3>2. IsSeq(<< >>) /\ Len(<< >>) = 0 /\ nInputs("jmp") = 0
      BY SmallSeqs, OpcodeFacts
    <3> QED
      BY <2>1, <2>4, <3>1, <3>2
  <2>6. ProcArgsOk' /\ Len(blocks') = Len(blocks)
    BY <2>3, <2>4, <2>5, JumpKeeps
  <2> QED
    BY <2>1, <2>3, <2>6 DEF Jump
<1>7. CASE jz
  <2>1. /\ script' \in Seq(Calls)
        /\ call.labels \in Seq(Nat \ {0}) /\ Len(call.labels) = 2
    BY <1>2, <1>7, CallFacts DEF jz
  <2>2. PICK v : v = env[call.args[1]]
    OBVIOUS
  <2>3. PICK op : op = [Op("jz", <<v>>, 0, currentBlock) EXCEPT !.label = call.labels]
    OBVIOUS
  <2>4. Jump(op)
    BY <1>2, <1>7, <2>2, <2>3 DEF jz
  <2>5. /\ DOMAIN op = OpFields /\ op.opcode = "jz" /\ op.in = <<v>>
        /\ op.label = call.labels /\ op.block = currentBlock
    BY <2>3 DEF Op, OpFields
  <2>6. nInputs("jz") = 1
    BY DEF nInputs
  <2>7. /\ op.label \in Seq(Nat \ {0}) /\ op.label # << >>
        /\ IsSeq(op.in) /\ Len(op.in) = nInputs(op.opcode) /\ op.opcode # "phi"
    <3>1. call.labels # << >>
      <4>1. \A s \in Seq(Nat \ {0}) : Len(s) > 0 => s # << >>
        OBVIOUS
      <4>2. Len(call.labels) > 0
        BY <2>1
      <4> QED
        BY <2>1, <4>1, <4>2, Zenon
    <3>2. IsSeq(<<v>>) /\ Len(<<v>>) = 1
      BY SmallSeqs
    <3> QED
      BY <2>1, <2>5, <2>6, <3>1, <3>2
  <2>8. ProcArgsOk' /\ Len(blocks') = Len(blocks)
    BY <2>4, <2>5, <2>7, JumpKeeps
  <2> QED
    BY <2>1, <2>4, <2>8 DEF Jump
<1>8. CASE iret
  <2>1. script' \in Seq(Calls)
    BY <1>8, CallFacts DEF iret
  <2>2. PICK v : v = env[call.args[1]]
    OBVIOUS
  <2>3. nInputs("iret") = 1 /\ "iret" \notin Jumps
    BY DEF nInputs, Jumps, CondJumps
  <2>4. PICK op, vs : op = Op("iret", vs, 0, currentBlock) /\ vs = <<v>>
    OBVIOUS
  <2>5. addOp(op)
    BY <1>2, <1>8, <2>2, <2>4 DEF iret
  <2>6. OpOk(op, M) /\ op.block = currentBlock /\ op.opcode = "iret"
    <3>1. IsSeq(vs) /\ Len(vs) = 1
      BY <2>4, SmallSeqs
    <3>2. op = Op("iret", vs, 0, currentBlock)
      BY <2>4
    <3>3. /\ OpOk(Op("iret", vs, 0, currentBlock), M)
          /\ Op("iret", vs, 0, currentBlock).block = currentBlock
          /\ Op("iret", vs, 0, currentBlock).opcode = "iret"
      <4>1. Len(vs) = nInputs("iret") /\ currentBlock \in 1..M
        BY <1>1, <2>3, <3>1
      <4> QED
        BY <2>3, <3>1, <4>1, NewOp
    <3> QED
      BY <3>2, <3>3
  <2>7. ProcArgsOk' /\ Len(blocks') = Len(blocks)
    BY <1>1, <2>5, <2>6, AddOpKeeps
  <2> QED
    BY <1>8, <2>1, <2>7 DEF iret
<1>9. CASE tcalln
  <2>1. script' \in Seq(Calls)
    BY <1>9, CallFacts DEF tcalln
  <2>2. nInputs("tcalln") = 0 /\ "tcalln" \notin Jumps
    BY DEF nInputs, Jumps, CondJumps
  <2>3. PICK op : op = Op("tcalln", << >>, call.imm, currentBlock)
    OBVIOUS
  <2>4. addOp(op)
    BY <1>2, <1>9, <2>3 DEF tcalln
  <2>5. OpOk(op, M) /\ op.block = currentBlock /\ op.opcode = "tcalln"
    BY <1>1, <2>2, <2>3, SmallSeqs, NewOp
  <2>6. ProcArgsOk' /\ Len(blocks') = Len(blocks)
    BY <1>1, <2>4, <2>5, AddOpKeeps
  <2> QED
    BY <1>9, <2>1, <2>6 DEF tcalln
<1>10. CASE assign
  <2>1. script' \in Seq(Calls) /\ Len(call.args) \in Nat
    BY <1>2, <1>10, CallFacts DEF assign
  <2>2. IsSeq(in)
    BY <1>3, <2>1, TupleIsSeq
  <2>3. env' = in /\ ops' = ops /\ blocks' = blocks /\ currentBlock' = currentBlock
    BY <1>2, <1>3, <1>10 DEF assign
  <2>4. ProcArgsOk'
    BY <2>3 DEF ProcArgsOk, Shape, ArgsOk
  <2> QED
    BY <2>1, <2>2, <2>3, <2>4
<1>11. ASSUME NEW opcode \in Emitters, emit(opcode)
       PROVE  /\ ProcArgsOk' /\ script' \in Seq(Calls) /\ IsSeq(env')
              /\ currentBlock' \in 1..Len(blocks')
  <2>1. /\ script' \in Seq(Calls) /\ Len(call.args) \in Nat
        /\ Len(call.args) = nInputs(opcode) /\ call.dst \in Nat
    <3>1. Consume(opcode)
      BY <1>11 DEF emit
    <3>2. Next1 \in Calls
      BY <3>1, CallFacts
    <3> QED
      BY <1>2, <3>1, <3>2, CallFacts DEF Calls
  <2>2. IsSeq(in) /\ Len(in) = nInputs(opcode)
    BY <1>3, <2>1, TupleIsSeq
  <2>3. opcode \notin Jumps /\ opcode # "phi"
    BY DEF Emitters, Jumps, CondJumps
  <2>4. PICK op : op = Op(opcode, in, call.imm, currentBlock)
    OBVIOUS
  <2>5. addOp(op)
    BY <1>2, <1>3, <1>11, <2>4 DEF emit
  <2>6. OpOk(op, M) /\ op.block = currentBlock /\ op.opcode = opcode
    BY <1>1, <2>2, <2>3, <2>4, NewOp
  <2>7. ProcArgsOk' /\ Len(blocks') = Len(blocks)
    BY <1>1, <2>3, <2>5, <2>6, AddOpKeeps
  <2>8. IsSeq(env')
    <3>1. CASE call.dst = 0
      BY <1>2, <1>11, <3>1 DEF emit
    <3>2. CASE call.dst # 0
      <4>1. PICK n : n = IF call.dst > Len(env) THEN Len(env) + 1 ELSE Len(env)
        OBVIOUS
      <4>2. n \in Nat
        BY <2>1, <4>1, IsSeqElements
      <4>3. env' = [k \in 1..n |-> IF k = call.dst THEN Len(ops) + 1 ELSE env[k]]
        BY <1>2, <1>11, <3>2, <4>1 DEF emit
      <4> QED
        BY <4>2, <4>3, TupleIsSeq
    <3> QED
      BY <3>1, <3>2
  <2> QED
    BY <1>11, <2>1, <2>7, <2>8 DEF emit
<1> QED
  BY <1>4, <1>5, <1>6, <1>7, <1>8, <1>9, <1>10, <1>11 DEF Build

LEMMA BuildInitOk ==
    ASSUME BuildInit
    PROVE  /\ ProcArgsOk /\ script \in Seq(Calls) /\ IsSeq(env)
           /\ currentBlock \in 1..Len(blocks)
<1>1. script \in Seq(Calls)
  BY ScriptsAssumption DEF BuildInit
<1>2. nInputs("alloc") = 0 /\ nInputs("iarg") = 0 /\ {"alloc", "iarg"} \cap Jumps = {}
  BY DEF nInputs, Jumps, CondJumps
<1>3. PICK x, y : x = Op("alloc", << >>, 0, 1) /\ y = Op("iarg", << >>, 0, 1)
  OBVIOUS
<1>4. /\ OpOk(x, 1) /\ x.block = 1 /\ x.opcode = "alloc"
      /\ OpOk(y, 1) /\ y.block = 1 /\ y.opcode = "iarg"
  BY <1>2, <1>3, SmallSeqs, NewOp
<1>5. ops = <<x, y>>
  BY <1>3 DEF BuildInit
<1>6. /\ IsSeq(ops) /\ Len(ops) = 2 /\ ops[1] = x /\ ops[2] = y
  <2>1. ops \in Seq({x, y}) /\ Len(ops) = 2 /\ ops[1] = x /\ ops[2] = y
    BY <1>5
  <2> QED
    BY <2>1, SeqElements
<1>7. IsSeq(blocks) /\ Len(blocks) = 1 /\ blocks[1] = Entry
  BY SmallSeqs DEF BuildInit
<1>8. PICK code : code = <<1, 2>>
  OBVIOUS
<1>9. /\ DOMAIN Entry = {"code", "args", "alts", "live"}
      /\ Entry.code = code /\ Entry.args = << >> /\ Entry.alts = << >>
  BY <1>8 DEF Entry, NewBlock
<1>10. \A v \in 1..2 : v = 1 \/ v = 2
  OBVIOUS
<1>11. CodeOk(ops, code, 1)
  <2>1. code \in Seq(1..2) /\ Len(code) = 2 /\ code[1] = 1 /\ code[2] = 2
    BY <1>8
  <2>2. Distinct(code)
    BY <2>1 DEF Distinct
  <2>3. \A i \in ToSet(code) : i \in 1..2
    BY <2>1, SeqElements
  <2>4. \A i \in 1..2 : ops[i].block = 1 /\ ops[i].opcode # "phi"
    BY <1>4, <1>6, <1>10
  <2>5. \A c \in 1..2 : code[c] \in 1..2
    BY <2>1
  <2> QED
    BY <1>6, <2>1, <2>2, <2>3, <2>4, <2>5 DEF CodeOk
<1>12. ToSet(<< >>) = {}
  BY DEF ToSet
<1>13. BlockOk(ops, blocks[1], 1) /\ ArgsOk(1)
  BY <1>7, <1>9, <1>11, <1>12, SmallSeqs DEF BlockOk, ArgsOk
<1>14. \A v \in 1..2 : OpOk(ops[v], 1)
  BY <1>4, <1>6, <1>10
<1>15. \A b \in 1..1 : b = 1
  OBVIOUS
<1>16. Shape
  BY <1>6, <1>7, <1>13, <1>14, <1>15 DEF Shape, ProcOk
<1>17. IsSeq(env) /\ currentBlock \in 1..Len(blocks)
  BY <1>7, SmallSeqs DEF BuildInit
<1> QED
  BY <1>1, <1>7, <1>13, <1>15, <1>16, <1>17 DEF ProcArgsOk

-----------------------------------------------------------------------------
(* The invariant holds until the pass begins.                              *)

LEMMA NotYet ==
    ASSUME pc = "build", Shape, FrontInv, at \in Places
    PROVE  DceInv
<1>1. live = << >> /\ progress = TRUE
  BY DEF FrontInv
<1>2. live \in Seq(1..Len(blocks)) /\ Distinct(live)
  BY <1>1, SmallSeqs DEF Distinct
<1>3. TypeInv
  BY <1>1 DEF TypeInv
<1>4. LiveInv
  BY <1>1, <1>2 DEF LiveInv
<1>5. WalkInv /\ WalkCounts
  BY DEF WalkInv, WalkCounts, Walking
<1>6. PhaseInv
  BY DEF PhaseInv
<1> QED
  BY <1>3, <1>4, <1>5, <1>6 DEF DceInv

LEMMA InitInv ==
    ASSUME Init
    PROVE  DceInv
<1>1. /\ pc = "build" /\ live = << >> /\ todo = << >> /\ progress = TRUE
      /\ at = NoPlace /\ BuildInit
  BY DEF Init
<1>2. /\ ProcArgsOk /\ script \in Seq(Calls) /\ IsSeq(env)
      /\ currentBlock \in 1..Len(blocks)
  BY <1>1, BuildInitOk
<1>3. Shape /\ FrontInv
  BY <1>1, <1>2 DEF ProcArgsOk, FrontInv
<1>4. at \in Places
  BY <1>1 DEF NoPlace, Places
<1> QED
  BY <1>1, <1>3, <1>4, NotYet

LEMMA FrontEndKeeps ==
    ASSUME DceInv, FrontEnd
    PROVE  DceInv'
<1>1. /\ pc = "build" /\ Build
      /\ pc' = pc /\ live' = live /\ todo' = todo /\ progress' = progress /\ at' = at
  BY DEF FrontEnd
<1>2. Shape /\ FrontInv /\ at \in Places
  BY DEF DceInv, TypeInv
<1>3. /\ ProcArgsOk /\ script \in Seq(Calls) /\ IsSeq(env)
      /\ currentBlock \in 1..Len(blocks)
      /\ live = << >> /\ todo = << >> /\ progress = TRUE
  BY <1>1, <1>2 DEF FrontInv, ProcArgsOk
<1>4. /\ ProcArgsOk' /\ script' \in Seq(Calls) /\ IsSeq(env')
      /\ currentBlock' \in 1..Len(blocks')
  BY <1>1, <1>3, BuildKeeps
<1>5. Shape' /\ FrontInv'
  BY <1>1, <1>3, <1>4 DEF FrontInv, ProcArgsOk
<1>6. pc' = "build" /\ (at \in Places)'
  BY <1>1, <1>2
<1>7. (pc = "build" /\ Shape /\ FrontInv /\ at \in Places)' => DceInv'
  BY NotYet, PTL
<1> QED
  BY <1>5, <1>6, <1>7

-----------------------------------------------------------------------------
(* Counting.                                                               *)

LEMMA SameNumber ==
    ASSUME NEW S, IsFiniteSet(S), NEW T, NEW f \in [S -> T],
           \A x, y \in S : f[x] = f[y] => x = y, \A t \in T : \E x \in S : f[x] = t
    PROVE  IsFiniteSet(T) /\ Cardinality(T) = Cardinality(S)
<1>1. f \in Bijection(S, T)
  BY DEF Bijection, Injection, Surjection, IsInjective
<1> QED
  BY <1>1, FS_Bijection DEF ExistsBijection

LEMMA NumbersAdd ==
    ASSUME NEW S, IsFiniteSet(S), NEW T, IsFiniteSet(T), S \cap T = {}
    PROVE  /\ IsFiniteSet(S \cup T)
           /\ Cardinality(S \cup T) = Cardinality(S) + Cardinality(T)
<1>1. Cardinality(S) \in Nat /\ Cardinality(T) \in Nat /\ Cardinality({}) = 0
  BY FS_CardinalityType, FS_EmptySet
<1>2. /\ IsFiniteSet(S \cup T)
      /\ Cardinality(S \cup T) = Cardinality(S) + Cardinality(T) - 0
  <2>1. /\ IsFiniteSet(S \cup T)
        /\ Cardinality(S \cup T) =
              Cardinality(S) + Cardinality(T) - Cardinality(S \cap T)
    BY FS_Union, Zenon
  <2> QED
    BY <1>1, <2>1
<1> QED
  BY <1>1, <1>2

LEMMA InUsesNat ==
    ASSUME NEW o, NEW S, IsFiniteSet(S), NEW v
    PROVE  IsFiniteSet(InPlaces(o, S, v)) /\ InUses(o, S, v) \in Nat
<1>1. IsFiniteSet(1..2)
  <2>1. 1 \in Int /\ 2 \in Int
    OBVIOUS
  <2> QED
    BY <2>1, FS_Interval
<1>2. IsFiniteSet(S \X (1..2))
  BY <1>1, FS_Product
<1>3. IsFiniteSet(InPlaces(o, S, v))
  BY <1>2, FS_Subset DEF InPlaces
<1> QED
  BY <1>3, FS_CardinalityType DEF InUses

LEMMA NoInUses ==
    ASSUME NEW o, NEW v
    PROVE  InUses(o, {}, v) = 0
<1>1. InPlaces(o, {}, v) = {}
  BY DEF InPlaces
<1> QED
  BY <1>1, FS_EmptySet DEF InUses

LEMMA InUsesOfOne ==
    ASSUME NEW o, NEW i, Len(o[i].in) = nInputs(o[i].opcode), NEW v
    PROVE  IsFiniteSet(InPlaces(o, {i}, v)) /\ InUses(o, {i}, v) = InputUses(o[i], v)
<1>1. PICK n \in 0..2 : n = nInputs(o[i].opcode)
  BY OpcodeFacts
<1>2. PICK in : in = o[i].in
  OBVIOUS
<1>3. Len(in) = n
  BY <1>1, <1>2
<1>4. PICK S : S = { k \in 1..n : in[k] = v }
  OBVIOUS
<1>5. PICK T : T = InPlaces(o, {i}, v)
  OBVIOUS
<1>6. T = { u \in {i} \X (1..2) : u[2] <= n /\ in[u[2]] = v }
  BY <1>2, <1>3, <1>5 DEF InPlaces
<1>7. IsFiniteSet(S)
  <2>1. IsFiniteSet(1..n)
    BY FS_Interval
  <2> QED
    BY <1>4, <2>1, FS_Subset
<1> DEFINE f == [k \in S |-> <<i, k>>]
<1>8. f \in [S -> T]
  <2>1. \A k \in S : k \in 1..2 /\ k <= n /\ in[k] = v
    BY <1>4
  <2>2. \A k \in S : <<i, k>> \in T
    BY <1>6, <2>1
  <2> QED
    BY <2>2
<1>9. \A x, y \in S : f[x] = f[y] => x = y
  OBVIOUS
<1>10. ASSUME NEW u \in T
       PROVE  \E k \in S : f[k] = u
  <2>1. u = <<i, u[2]>> /\ u[2] \in 1..2 /\ u[2] <= n /\ in[u[2]] = v
    BY <1>6
  <2>2. u[2] \in S
    BY <1>4, <2>1
  <2> QED
    BY <2>1, <2>2
<1>11. IsFiniteSet(T) /\ Cardinality(T) = Cardinality(S)
  <2> HIDE DEF f
  <2> QED
    BY <1>7, <1>8, <1>9, <1>10, SameNumber
<1>12. InputUses(o[i], v) = Cardinality(S)
  BY <1>1, <1>2, <1>4 DEF InputUses
<1> QED
  BY <1>5, <1>11, <1>12 DEF InUses

(* Another operation adds its uses.                                        *)
LEMMA InUsesAdd ==
    ASSUME NEW o, NEW S, IsFiniteSet(S), NEW i, i \notin S,
           Len(o[i].in) = nInputs(o[i].opcode), NEW v
    PROVE  InUses(o, S \cup {i}, v) = InUses(o, S, v) + InputUses(o[i], v)
<1>1. InPlaces(o, S \cup {i}, v) = InPlaces(o, S, v) \cup InPlaces(o, {i}, v)
  BY DEF InPlaces
<1>2. InPlaces(o, S, v) \cap InPlaces(o, {i}, v) = {}
  BY DEF InPlaces
<1>3. IsFiniteSet(InPlaces(o, S, v)) /\ IsFiniteSet(InPlaces(o, {i}, v))
  BY InUsesNat, InUsesOfOne
<1>4. Cardinality(InPlaces(o, S \cup {i}, v)) =
            Cardinality(InPlaces(o, S, v)) + Cardinality(InPlaces(o, {i}, v))
  BY <1>1, <1>2, <1>3, NumbersAdd
<1> QED
  BY <1>4, InUsesOfOne DEF InUses

LEMMA InUsesSame ==
    ASSUME NEW o, NEW p, NEW S, \A i \in S : p[i].in = o[i].in, NEW v
    PROVE  InUses(p, S, v) = InUses(o, S, v)
<1>1. InPlaces(p, S, v) = InPlaces(o, S, v)
  BY DEF InPlaces
<1> QED
  BY <1>1 DEF InUses

(* The alternatives of another block add theirs.                           *)
OwnUses(alts, value, v) == Cardinality({ n \in 1..Len(alts) : Counts(alts[n], value, v) })

LEMMA AltUsesOfOne ==
    ASSUME NEW bl, NEW b, IsSeq(bl[b].alts), NEW value, NEW v
    PROVE  /\ IsFiniteSet(UsingAlts(bl, value, {b}, v))
           /\ AltUses(bl, value, {b}, v) = OwnUses(bl[b].alts, value, v)
<1>1. PICK alts : alts = bl[b].alts
  OBVIOUS
<1>2. PICK N \in Nat : N = Len(alts)
  BY <1>1, IsSeqElements
<1>3. PICK S : S = { n \in 1..N : Counts(alts[n], value, v) }
  OBVIOUS
<1>4. PICK T : T = UsingAlts(bl, value, {b}, v)
  OBVIOUS
<1>5. T = { u \in {b} \X (1..N) : Counts(alts[u[2]], value, v) }
  <2>1. AltPlaces(bl, {b}) = {b} \X (1..N)
    BY <1>1, <1>2 DEF AltPlaces
  <2> QED
    BY <1>1, <1>4, <2>1 DEF UsingAlts
<1>6. IsFiniteSet(S)
  <2>1. IsFiniteSet(1..N)
    BY FS_Interval
  <2> QED
    BY <1>3, <2>1, FS_Subset
<1> DEFINE f == [n \in S |-> <<b, n>>]
<1>7. f \in [S -> T]
  BY <1>3, <1>5
<1>8. \A x, y \in S : f[x] = f[y] => x = y
  OBVIOUS
<1>9. ASSUME NEW u \in T
      PROVE  \E n \in S : f[n] = u
  <2>1. u = <<b, u[2]>> /\ u[2] \in 1..N /\ Counts(alts[u[2]], value, v)
    BY <1>5
  <2>2. u[2] \in S
    BY <1>3, <2>1
  <2> QED
    BY <2>1, <2>2
<1>10. IsFiniteSet(T) /\ Cardinality(T) = Cardinality(S)
  <2> HIDE DEF f
  <2> QED
    BY <1>6, <1>7, <1>8, <1>9, SameNumber
<1> QED
  BY <1>1, <1>2, <1>3, <1>4, <1>10 DEF AltUses, OwnUses

LEMMA AltUsesNat ==
    ASSUME NEW bl, NEW B, IsFiniteSet(B), \A b \in B : IsSeq(bl[b].alts), NEW value, NEW v
    PROVE  /\ IsFiniteSet(UsingAlts(bl, value, B, v))
           /\ AltUses(bl, value, B, v) \in Nat
<1>1. PICK F : F = [b \in B |-> {b} \X (1..Len(bl[b].alts))]
  OBVIOUS
<1>2. \A b \in B : IsFiniteSet({b} \X (1..Len(bl[b].alts)))
  <2> SUFFICES ASSUME NEW b \in B
               PROVE  IsFiniteSet({b} \X (1..Len(bl[b].alts)))
    OBVIOUS
  <2>1. IsFiniteSet(1..Len(bl[b].alts)) /\ IsFiniteSet({b})
    <3>1. 1 \in Int /\ Len(bl[b].alts) \in Int
      BY IsSeqElements
    <3> QED
      BY <3>1, FS_Interval, FS_Singleton
  <2> QED
    BY <2>1, FS_Product
<1>3. IsFiniteSet({ F[b] : b \in B })
  <2>1. F \in Surjection(B, { F[b] : b \in B })
    BY <1>1 DEF Surjection
  <2> QED
    BY <2>1, FS_Surjection DEF ExistsSurjection
<1>4. AltPlaces(bl, B) = UNION { F[b] : b \in B }
  BY <1>1 DEF AltPlaces
<1>5. \A T \in { F[b] : b \in B } : IsFiniteSet(T)
  BY <1>1, <1>2
<1>6. IsFiniteSet(AltPlaces(bl, B))
  BY <1>3, <1>4, <1>5, FS_UNION
<1>7. IsFiniteSet(UsingAlts(bl, value, B, v))
  BY <1>6, FS_Subset DEF UsingAlts
<1> QED
  BY <1>7, FS_CardinalityType DEF AltUses

LEMMA AltUsesAdd ==
    ASSUME NEW bl, NEW B, IsFiniteSet(B), NEW b, b \notin B,
           \A c \in B \cup {b} : IsSeq(bl[c].alts), NEW value, NEW v
    PROVE  AltUses(bl, value, B \cup {b}, v) =
             AltUses(bl, value, B, v) + OwnUses(bl[b].alts, value, v)
<1>1. UsingAlts(bl, value, B \cup {b}, v) =
            UsingAlts(bl, value, B, v) \cup UsingAlts(bl, value, {b}, v)
  BY DEF AltPlaces, UsingAlts
<1>2. UsingAlts(bl, value, B, v) \cap UsingAlts(bl, value, {b}, v) = {}
  <2>1. \A C : \A u \in UsingAlts(bl, value, C, v) : u[1] \in C
    BY DEF AltPlaces, UsingAlts
  <2> QED
    BY <2>1
<1>3. IsFiniteSet(UsingAlts(bl, value, B, v)) /\ IsFiniteSet(UsingAlts(bl, value, {b}, v))
  BY AltUsesNat, AltUsesOfOne
<1>4. Cardinality(UsingAlts(bl, value, B \cup {b}, v)) =
            Cardinality(UsingAlts(bl, value, B, v)) + Cardinality(UsingAlts(bl, value, {b}, v))
  BY <1>1, <1>2, <1>3, NumbersAdd
<1> QED
  BY <1>4, AltUsesOfOne DEF AltUses

LEMMA AltUsesSame ==
    ASSUME NEW bl, NEW cl, NEW B, \A b \in B : IsSeq(bl[b].alts) /\ cl[b].alts = bl[b].alts,
           NEW value, NEW worth,
           \A b \in B : \A a \in ToSet(bl[b].alts) : worth[a.phi] = value[a.phi], NEW v
    PROVE  AltUses(cl, worth, B, v) = AltUses(bl, value, B, v)
<1>1. AltPlaces(cl, B) = AltPlaces(bl, B)
  BY DEF AltPlaces
<1>2. ASSUME NEW u \in AltPlaces(bl, B)
      PROVE  Counts(cl[u[1]].alts[u[2]], worth, v) <=> Counts(bl[u[1]].alts[u[2]], value, v)
  <2>1. u[1] \in B /\ u[2] \in 1..Len(bl[u[1]].alts)
    BY DEF AltPlaces
  <2>2. bl[u[1]].alts[u[2]] \in ToSet(bl[u[1]].alts)
    BY <2>1, IsSeqElements
  <2> QED
    BY <2>1, <2>2 DEF Counts
<1>3. UsingAlts(cl, worth, B, v) = UsingAlts(bl, value, B, v)
  BY <1>1, <1>2 DEF UsingAlts
<1> QED
  BY <1>3 DEF AltUses

LEMMA NoAltUses ==
    ASSUME NEW bl, NEW value, NEW v
    PROVE  AltUses(bl, value, {}, v) = 0
<1>1. AltPlaces(bl, {}) = {}
  BY DEF AltPlaces
<1>2. UsingAlts(bl, value, {}, v) = {}
  BY <1>1 DEF UsingAlts
<1> QED
  BY <1>2, FS_EmptySet DEF AltUses

-----------------------------------------------------------------------------
(* The pass.                                                               *)

LEMMA CodeOfFacts ==
    ASSUME Shape, NEW B, B \subseteq 1..Len(blocks)
    PROVE  /\ CodeOf(B) \subseteq 1..Len(ops) /\ IsFiniteSet(CodeOf(B)) /\ IsFiniteSet(B)
           /\ \A i \in CodeOf(B) : ops[i].block \in B
           /\ \A b \in B : ToSet(blocks[b].code) \subseteq CodeOf(B)
<1>1. PICK N, M \in Nat : N = Len(ops) /\ M = Len(blocks)
  BY ShapeFacts
<1>2. \A b \in 1..M : BlockOk(ops, blocks[b], b)
  BY <1>1, ShapeFacts
<1>3. ASSUME NEW b \in 1..M
      PROVE  ToSet(blocks[b].code) \subseteq 1..N
             /\ \A i \in ToSet(blocks[b].code) : ops[i].block = b
  <2>1. blocks[b].code \in Seq(1..N) /\ \A i \in ToSet(blocks[b].code) : ops[i].block = b
    BY <1>1, <1>2 DEF BlockOk, CodeOk
  <2> QED
    BY <2>1, SeqElements
<1>4. IsFiniteSet(1..N) /\ IsFiniteSet(1..M)
  BY FS_Interval
<1>5. CodeOf(B) \subseteq 1..N
  BY <1>1, <1>3 DEF CodeOf
<1>6. IsFiniteSet(CodeOf(B)) /\ IsFiniteSet(B)
  BY <1>1, <1>4, <1>5, FS_Subset
<1>7. \A i \in CodeOf(B) : ops[i].block \in B
  BY <1>1, <1>3 DEF CodeOf
<1> QED
  BY <1>1, <1>5, <1>6, <1>7 DEF CodeOf

LEMMA compileKeeps ==
    ASSUME DceInv, compile
    PROVE  DceInv'
<1>1. /\ pc = "build" /\ pc' = "round" /\ ops' = ops /\ blocks' = blocks /\ live' = live
      /\ progress' = progress /\ at' = at
      /\ nUse' = [v \in 1..Len(ops) |-> 0] /\ tmp' = [v \in 1..Len(ops) |-> noVal]
  BY DEF compile, buildVars
<1>2. Shape /\ FrontInv /\ at \in Places /\ live \in Seq(1..Len(blocks)) /\ Distinct(live)
  BY DEF DceInv, TypeInv, LiveInv
<1>3. live = << >> /\ progress = TRUE
  BY <1>1, <1>2 DEF FrontInv
<1>4. Shape' /\ FrontInv'
  BY <1>1, <1>2 DEF Shape, FrontInv
<1>5. TypeInv'
  BY <1>1, <1>2, <1>3 DEF TypeInv
<1>6. LiveInv'
  BY <1>1, <1>2, <1>3 DEF LiveInv, Distinct
<1>7. WalkInv' /\ WalkCounts'
  BY <1>1 DEF WalkInv, WalkCounts, Walking
<1>8. PhaseInv'
  BY <1>1, <1>3 DEF PhaseInv
<1> QED
  BY <1>4, <1>5, <1>6, <1>7, <1>8 DEF DceInv

LEMMA endDceKeeps ==
    ASSUME DceInv, endDce
    PROVE  DceInv'
<1>1. /\ pc = "round" /\ ~progress /\ pc' = "done" /\ ops' = ops /\ blocks' = blocks
      /\ live' = live /\ todo' = todo /\ nUse' = nUse /\ tmp' = tmp
      /\ progress' = progress /\ at' = at
  BY DEF endDce
<1>2. Shape' /\ FrontInv' /\ TypeInv'
  BY <1>1 DEF DceInv, Shape, FrontInv, TypeInv
<1>3. /\ live \in Seq(1..Len(blocks)) /\ Distinct(live)
      /\ live # << >> => /\ 1 \in ToSet(live)
                         /\ \A b \in 1..Len(blocks) : blocks[b].live <=> b \in ToSet(live)
      /\ live # << >> /\ \A i \in CodeOf(ToSet(live)) : Goes(i, ToSet(live))
  BY <1>1 DEF DceInv, LiveInv
<1>4. LiveInv'
  BY <1>1, <1>3 DEF LiveInv, CodeOf, Goes, Distinct
<1>5. WalkInv' /\ WalkCounts'
  BY <1>1 DEF WalkInv, WalkCounts, Walking
<1>6. /\ CountedTo(ToSet(live))
      /\ \A b \in ToSet(live) : Cleaned(b) /\ Unrenamed(b) /\ Needed(b)
  BY <1>1 DEF DceInv, PhaseInv
<1>7. PhaseInv'
  BY <1>1, <1>6 DEF PhaseInv, CountedTo, CodeOf, Cleaned, Unrenamed, Unused, Needed
<1> QED
  BY <1>2, <1>4, <1>5, <1>7 DEF DceInv

LEMMA beginRoundKeeps ==
    ASSUME DceInv, beginRound
    PROVE  DceInv'
<1>1. /\ pc = "round" /\ progress /\ pc' = "pop" /\ ops' = ops
      /\ live' = <<1>> /\ todo' = <<1>> /\ tmp' = tmp
      /\ progress' = FALSE /\ at' = at
      /\ nUse' = [i \in 1..Len(ops) |->
                    IF \E b \in 1..Len(blocks) :
                          blocks[b].live /\ i \in ToSet(blocks[b].code)
                    THEN 0 ELSE nUse[i]]
      /\ blocks' = [b \in 1..Len(blocks) |-> [blocks[b] EXCEPT !.live = (b = 1)]]
  BY DEF beginRound
<1>2. Shape /\ TypeInv /\ LiveInv
  BY DEF DceInv
<1>3. PICK N, M \in Nat : N = Len(ops) /\ M = Len(blocks)
  BY <1>2, ShapeFacts
<1>4. /\ M > 0 /\ nUse \in [1..N -> Int] /\ DOMAIN tmp = 1..N /\ at \in Places
      /\ \A b \in 1..M : BlockOk(ops, blocks[b], b)
  BY <1>1, <1>2, <1>3, ShapeFacts DEF TypeInv
<1>5. /\ blocks' = [b \in 1..M |-> blocks'[b]]
      /\ \A b \in 1..M : /\ DOMAIN blocks'[b] = {"code", "args", "alts", "live"}
                         /\ blocks'[b].code = blocks[b].code
                         /\ blocks'[b].alts = blocks[b].alts
                         /\ blocks'[b].live = (b = 1)
  <2>1. \A b \in 1..M : DOMAIN blocks[b] = {"code", "args", "alts", "live"}
    BY <1>4 DEF BlockOk
  <2> QED
    BY <1>1, <1>3, <2>1
<1>6. IsSeq(blocks') /\ Len(blocks') = M
  BY <1>5, TupleIsSeq
<1>7. Shape'
  <2>1. \A b \in 1..M : BlockOk(ops, blocks'[b], b)
    BY <1>4, <1>5 DEF BlockOk
  <2> QED
    BY <1>1, <1>2, <1>3, <1>6, <2>1 DEF Shape, ProcOk
<1>8. FrontInv'
  BY <1>1 DEF FrontInv
<1>9. TypeInv'
  <2>1. nUse' \in [1..N -> Int]
    BY <1>1, <1>3, <1>4
  <2> QED
    BY <1>1, <1>3, <1>4, <2>1 DEF TypeInv
<1>10. /\ live' \in Seq(1..M) /\ Len(live') = 1 /\ live'[1] = 1 /\ live' # << >>
       /\ ToSet(live') = {1} /\ Distinct(live')
  <2>1. PICK l : l = <<1>>
    OBVIOUS
  <2>2. l \in Seq(1..M) /\ Len(l) = 1 /\ l[1] = 1 /\ l # << >>
    BY <1>4, <2>1
  <2>3. ToSet(l) = {1}
    <3>1. \A k \in 1..1 : k = 1
      OBVIOUS
    <3>2. 1 \in 1..1
      OBVIOUS
    <3> QED
      BY <2>2, <3>1, <3>2, SeqElements
  <2>4. Distinct(l)
    BY <2>2 DEF Distinct
  <2> QED
    BY <1>1, <2>1, <2>2, <2>3, <2>4
<1>11. LiveInv'
  BY <1>1, <1>5, <1>6, <1>10 DEF LiveInv
<1>12. Walked' = {} /\ Seen' = {} /\ Counted' = {}
  <2>1. Walked' = {}
    BY <1>1, <1>10 DEF Walked
  <2>2. CodeOf({})' = {}
    BY DEF CodeOf
  <2>3. Seen' = {}
    BY <1>1, <2>1, <2>2 DEF Seen
  <2> QED
    BY <1>1, <2>1, <2>3 DEF Counted
<1>13. WalkInv'
  <2>1. todo' \in Seq(ToSet(live')) /\ Distinct(todo')
    <3>1. todo' = live' /\ todo' \in Seq(ToSet(todo'))
      BY <1>1, <1>10, SeqElements DEF IsSeq
    <3> QED
      BY <3>1, <1>10
  <2> QED
    BY <1>1, <1>10, <1>12, <2>1 DEF WalkInv
<1>14. \E W \in SUBSET (1..M) :
            /\ 1 \in W /\ (\A i \in CodeOf(W) : Goes(i, W))
            /\ \A v \in CodeOf(W) : nUse'[v] = 0
  <2>1. \A v \in 1..N : nUse'[v] = IF \E b \in 1..M : blocks[b].live /\ v \in ToSet(blocks[b].code)
                                   THEN 0 ELSE nUse[v]
    BY <1>1, <1>3
  <2>2. CASE live = << >>
    <3>1. nUse = [v \in 1..N |-> 0]
      BY <1>1, <1>2, <1>3, <2>2 DEF LiveInv
    <3>2. CodeOf(1..M) \subseteq 1..N
      BY <1>2, <1>3, CodeOfFacts
    <3>3. \A v \in CodeOf(1..M) : nUse'[v] = 0
      BY <2>1, <3>1, <3>2
    <3>4. \A i \in 1..N : ops[i].label \in Seq(1..M)
      BY <1>2, <1>3, ShapeFacts DEF OpOk
    <3>5. \A i \in CodeOf(1..M) : Goes(i, 1..M)
      BY <3>2, <3>4, SeqElements DEF Goes
    <3> QED
      BY <1>4, <3>3, <3>5
  <2>3. CASE live # << >>
    <3>1. PICK W : W = ToSet(live)
      OBVIOUS
    <3>2. /\ live \in Seq(1..M) /\ 1 \in W /\ \A b \in 1..M : blocks[b].live <=> b \in W
          /\ \A i \in CodeOf(W) : Goes(i, W)
      BY <1>1, <1>2, <1>3, <2>3, <3>1 DEF LiveInv
    <3>3. W \subseteq 1..M
      BY <3>1, <3>2, SeqElements
    <3>4. CodeOf(W) \subseteq 1..N
      BY <1>2, <1>3, <3>3, CodeOfFacts
    <3>5. \A v \in CodeOf(W) : \E b \in 1..M : blocks[b].live /\ v \in ToSet(blocks[b].code)
      BY <3>2, <3>3 DEF CodeOf
    <3> QED
      BY <2>1, <3>2, <3>3, <3>4, <3>5
  <2> QED
    BY <2>2, <2>3
<1>15. WalkCounts'
  <2>1. PICK W \in SUBSET (1..M) :
            /\ 1 \in W /\ (\A i \in CodeOf(W) : Goes(i, W))
            /\ \A v \in CodeOf(W) : nUse'[v] = 0
    BY <1>14
  <2>2. CodeOf(W)' = CodeOf(W) /\ \A i \in CodeOf(W) : Goes(i, W)'
    <3>1. \A b \in W : blocks'[b].code = blocks[b].code
      BY <1>5
    <3>2. CodeOf(W)' = CodeOf(W)
      BY <3>1 DEF CodeOf
    <3>3. \A i \in CodeOf(W) : Goes(i, W)'
      BY <1>1, <2>1 DEF Goes
    <3> QED
      BY <3>2, <3>3
  <2>3. CountsIn(W)'
    <3>1. \A v : InUses(ops', Counted', v) = 0
      BY <1>12, NoInUses
    <3> QED
      BY <1>10, <2>1, <2>2, <3>1 DEF CountsIn
  <2> QED
    BY <1>6, <2>3 DEF WalkCounts
<1>16. PhaseInv'
  BY <1>1 DEF PhaseInv
<1> QED
  BY <1>7, <1>8, <1>9, <1>11, <1>13, <1>15, <1>16 DEF DceInv

LEMMA FrontElements ==
    ASSUME NEW S, NEW s \in Seq(S), s # << >>, Distinct(s)
    PROVE  /\ Front(s) \in Seq(S) /\ Distinct(Front(s))
           /\ Len(s) \in 1..Len(s) /\ s[Len(s)] \in S
           /\ ToSet(s) = ToSet(Front(s)) \cup {s[Len(s)]}
           /\ s[Len(s)] \notin ToSet(Front(s))
<1>1. PICK n \in Nat \ {0} : n = Len(s)
  OBVIOUS
<1>2. PICK f : f = Front(s)
  OBVIOUS
<1>3. f \in Seq(S) /\ Len(f) = n - 1 /\ \A k \in 1..(n - 1) : f[k] = s[k]
  BY <1>1, <1>2 DEF Front
<1>4. \A c, d \in 1..n : c < d => s[c] # s[d]
  BY <1>1 DEF Distinct
<1>5. \A k \in 1..n : k \in 1..(n - 1) \/ k = n
  OBVIOUS
<1>6. \A k \in 1..(n - 1) : k \in 1..n /\ k < n
  OBVIOUS
<1>7. /\ \A k \in 1..n : s[k] \in ToSet(s)
      /\ \A x \in ToSet(s) : \E k \in 1..n : x = s[k]
      /\ \A k \in 1..(n - 1) : f[k] \in ToSet(f)
      /\ \A x \in ToSet(f) : \E k \in 1..(n - 1) : x = f[k]
  BY <1>1, <1>3, SeqElements
<1>8. n \in 1..n /\ s[n] \in S
  BY <1>1
<1>9. s[n] \notin ToSet(f)
  BY <1>3, <1>4, <1>6, <1>7, <1>8
<1>10. ToSet(s) = ToSet(f) \cup {s[n]}
  <2>1. \A x \in ToSet(s) : x \in ToSet(f) \/ x = s[n]
    BY <1>3, <1>5, <1>7
  <2>2. \A x \in ToSet(f) : x \in ToSet(s)
    BY <1>3, <1>6, <1>7
  <2> QED
    BY <1>7, <1>8, <2>1, <2>2
<1>11. Distinct(f)
  BY <1>3, <1>4, <1>6 DEF Distinct
<1> QED
  BY <1>1, <1>2, <1>3, <1>8, <1>9, <1>10, <1>11

(* What the walk has, wherever it is.                                      *)
LEMMA WalkFacts ==
    ASSUME DceInv, Walking
    PROVE  /\ Shape /\ WalkInv /\ pc # "build" /\ at \in Places /\ progress \in BOOLEAN
           /\ nUse \in [1..Len(ops) -> Int] /\ DOMAIN tmp = 1..Len(ops)
           /\ live \in Seq(1..Len(blocks)) /\ Distinct(live) /\ live # << >>
           /\ 1 \in ToSet(live) /\ ToSet(live) \subseteq 1..Len(blocks)
           /\ \A b \in 1..Len(blocks) : blocks[b].live <=> b \in ToSet(live)
           /\ todo \in Seq(ToSet(live)) /\ Distinct(todo) /\ ToSet(todo) \subseteq ToSet(live)
           /\ \A i \in Seen : Goes(i, ToSet(live))
<1>1. /\ Shape /\ WalkInv /\ TypeInv /\ LiveInv /\ pc # "build"
  BY DEF DceInv, Walking
<1>2. /\ live # << >> /\ todo \in Seq(ToSet(live)) /\ Distinct(todo)
      /\ \A i \in Seen : Goes(i, ToSet(live))
  BY <1>1 DEF WalkInv
<1>3. /\ live \in Seq(1..Len(blocks)) /\ Distinct(live) /\ 1 \in ToSet(live)
      /\ \A b \in 1..Len(blocks) : blocks[b].live <=> b \in ToSet(live)
  BY <1>1, <1>2 DEF LiveInv
<1>4. ToSet(live) \subseteq 1..Len(blocks)
  BY <1>3, SeqElements
<1>5. ToSet(todo) \subseteq ToSet(live)
  BY <1>2, SeqElements
<1> QED
  BY <1>1, <1>2, <1>3, <1>4, <1>5 DEF TypeInv

LEMMA WalkCounted ==
    ASSUME DceInv, Walking, ~progress
    PROVE  \E W \in SUBSET (1..Len(blocks)) : CountsIn(W)
BY DEF DceInv, WalkCounts

LEMMA popBlockKeeps ==
    ASSUME DceInv, popBlock
    PROVE  DceInv'
<1>1. /\ pc = "pop" /\ ops' = ops /\ blocks' = blocks /\ live' = live
      /\ nUse' = nUse /\ tmp' = tmp /\ progress' = progress
  BY DEF popBlock
<1>2. Walking
  BY <1>1 DEF Walking
<1>3. PICK M \in Nat : M = Len(blocks)
  BY <1>2, WalkFacts, ShapeFacts
<1>4. PICK L : L = ToSet(live)
  OBVIOUS
<1>5. /\ Shape /\ L \subseteq 1..M /\ 1 \in L /\ live # << >>
      /\ live \in Seq(1..M) /\ Distinct(live)
      /\ \A b \in 1..M : blocks[b].live <=> b \in L
      /\ todo \in Seq(L) /\ Distinct(todo) /\ ToSet(todo) \subseteq L
      /\ nUse \in [1..Len(ops) -> Int] /\ DOMAIN tmp = 1..Len(ops)
  BY <1>2, <1>3, <1>4, WalkFacts
<1>6. Walked = L \ ToSet(todo) /\ Seen = CodeOf(Walked) /\ Counted = Seen
  BY <1>1, <1>4 DEF Walked, Seen, Counted
<1>7. \A i \in Seen : Goes(i, L)
  BY <1>2, <1>4, WalkFacts
<1>8. Shape'
  BY <1>1, <1>5 DEF Shape
<1>9. CASE todo = << >>
  <2>1. pc' = "uses" /\ at' = NoPlace /\ todo' = todo
    BY <1>9 DEF popBlock
  <2>2. FrontInv' /\ WalkInv' /\ WalkCounts'
    BY <2>1 DEF FrontInv, WalkInv, WalkCounts, Walking
  <2>3. Seen = CodeOf(L)
    <3>1. ToSet(<< >>) = {}
      BY DEF ToSet
    <3> QED
      BY <1>6, <1>9, <3>1
  <2>4. TypeInv'
    BY <1>1, <1>2, <1>5, <2>1, WalkFacts DEF TypeInv, NoPlace, Places
  <2>5. LiveInv'
    <3>1. Len(live) \in Nat \ {0}
      BY <1>5
    <3>2. at'.c = 1 /\ 1 \in 1..Len(live)
      BY <2>1, <3>1 DEF NoPlace
    <3>3. \A i \in CodeOf(L) : Goes(i, L)
      BY <1>7, <2>3
    <3> QED
      BY <1>1, <1>3, <1>4, <1>5, <2>1, <3>2, <3>3 DEF LiveInv, CodeOf, Goes, Distinct
  <2>6. PhaseInv'
    <3>1. at'.c = 1
      BY <2>1 DEF NoPlace
    <3>3. Before(at.c)' = {}
      BY <3>1 DEF Before
    <3>4. ASSUME ~progress
          PROVE  CountedTo(Before(at.c))'
      <4>1. PICK W \in SUBSET (1..M) : CountsIn(W)
        BY <1>2, <1>3, <3>4, WalkCounted
      <4>2. CodeOf(L) \subseteq CodeOf(W)
        BY <1>4, <4>1 DEF CountsIn, CodeOf
      <4>3. \A v \in CodeOf(L) : nUse[v] = InUses(ops, CodeOf(L), v)
        BY <1>6, <2>3, <4>1, <4>2 DEF CountsIn
      <4>4. IsFiniteSet(CodeOf(L))
        BY <1>3, <1>5, CodeOfFacts
      <4>5. \A v \in CodeOf(L) :
                nUse[v] = InUses(ops, CodeOf(L), v) + AltUses(blocks, tmp, {}, v)
        BY <4>3, <4>4, InUsesNat, NoAltUses
      <4>6. CodeOf(L)' = CodeOf(L)
        BY <1>1, <1>4 DEF CodeOf
      <4> QED
        BY <1>1, <1>4, <3>3, <4>5, <4>6 DEF CountedTo
    <3> QED
      BY <1>1, <2>1, <3>3, <3>4 DEF PhaseInv
  <2> QED
    BY <1>8, <2>2, <2>4, <2>5, <2>6 DEF DceInv
<1>10. CASE todo # << >>
  <2>1. /\ pc' = "visit" /\ todo' = Front(todo)
        /\ at' = [NoPlace EXCEPT !.b = todo[Len(todo)]]
    BY <1>10 DEF popBlock
  <2>2. PICK b : b = todo[Len(todo)]
    OBVIOUS
  <2>3. /\ todo' \in Seq(L) /\ Distinct(todo') /\ b \in L
        /\ ToSet(todo) = ToSet(todo') \cup {b} /\ b \notin ToSet(todo')
    BY <1>5, <1>10, <2>1, <2>2, FrontElements
  <2>4. /\ at'.b = b /\ at'.c = 1 /\ at' \in Places /\ b \in 1..M
    <3>1. b \in 1..M /\ b \in Nat
      BY <1>5, <2>3
    <3>2. at' = [b |-> b, c |-> 1, k |-> 1, deadTail |-> FALSE]
      BY <2>1, <2>2 DEF NoPlace
    <3> QED
      BY <3>1, <3>2 DEF Places
  <2>5. FrontInv' /\ TypeInv' /\ PhaseInv'
    BY <1>1, <1>2, <1>5, <2>1, <2>4, WalkFacts DEF FrontInv, TypeInv, PhaseInv
  <2>6. LiveInv'
    BY <1>1, <1>3, <1>4, <1>5, <2>1 DEF LiveInv, Distinct
  <2>7. Walked' = Walked
    BY <1>1, <1>4, <1>6, <2>1, <2>3, <2>4 DEF Walked
  <2>8. Passed(0)' = {}
    BY DEF Passed
  <2>9. Seen' = Seen
    <3>1. CodeOf(Walked)' = CodeOf(Walked)
      BY <1>1, <2>7 DEF CodeOf
    <3>2. Passed(at.c - 1)' = {}
      BY <2>4, <2>8
    <3> QED
      BY <1>6, <2>1, <3>1, <3>2 DEF Seen
  <2>10. Counted' = Counted
    BY <1>1, <1>6, <2>1, <2>9 DEF Counted
  <2>11. WalkInv'
    <3>1. at'.c \in 1..(Len(blocks'[b].code) + 1)
      <4>1. Len(blocks[b].code) \in Nat
        BY <1>3, <1>5, <2>4, ShapeFacts DEF BlockOk, CodeOk
      <4> QED
        BY <1>1, <2>4, <4>1
    <3>2. \A i \in Seen' : Goes(i, L)'
      BY <1>1, <1>7, <2>9 DEF Goes
    <3> QED
      BY <1>1, <1>4, <1>5, <2>1, <2>3, <2>4, <3>1, <3>2 DEF WalkInv, Code
  <2>12. WalkCounts'
    <3> SUFFICES ASSUME ~progress'
                 PROVE  \E W \in SUBSET (1..M) : CountsIn(W)'
      BY <1>1, <1>3 DEF WalkCounts
    <3>1. PICK W \in SUBSET (1..M) : CountsIn(W)
      BY <1>1, <1>2, <1>3, WalkCounted
    <3>2. CountsIn(W)'
      <4>1. CodeOf(W)' = CodeOf(W)
        BY <1>1 DEF CodeOf
      <4>2. \A i \in CodeOf(W) : Goes(i, W)'
        BY <1>1, <3>1 DEF CountsIn, Goes
      <4> QED
        BY <1>1, <2>10, <3>1, <4>1, <4>2 DEF CountsIn
    <3> QED
      BY <3>2
  <2> QED
    BY <1>8, <2>5, <2>6, <2>11, <2>12 DEF DceInv
<1> QED
  BY <1>9, <1>10

(* Where the walk is within a block.                                       *)
LEMMA BlockFacts ==
    ASSUME DceInv, pc \in {"visit", "thread"}
    PROVE  /\ Walking /\ at.b \in ToSet(live) /\ at.b \in 1..Len(blocks)
           /\ at.b \notin ToSet(todo) /\ at.b \notin Walked
           /\ Walked = ToSet(live) \ (ToSet(todo) \cup {at.b})
           /\ Seen = CodeOf(Walked) \cup Passed(at.c - 1)
           /\ Code \in Seq(1..Len(ops)) /\ Distinct(Code) /\ at.c \in 1..(Len(Code) + 1)
           /\ \A i \in ToSet(Code) : ops[i].block = at.b
           /\ Seen \subseteq CodeOf(ToSet(live)) /\ IsFiniteSet(Seen)
<1>1. Walking /\ pc # "pop"
  BY DEF Walking
<1>2. /\ at.b \in ToSet(live) /\ at.b \notin ToSet(todo) /\ at.c \in 1..(Len(Code) + 1)
      /\ Shape /\ ToSet(live) \subseteq 1..Len(blocks)
  BY <1>1, WalkFacts DEF WalkInv
<1>3. /\ Walked = ToSet(live) \ (ToSet(todo) \cup {at.b})
      /\ Seen = CodeOf(Walked) \cup Passed(at.c - 1)
  BY <1>1 DEF Walked, Seen
<1>4. CodeOk(ops, Code, at.b)
  BY <1>2, ShapeFacts DEF Code, BlockOk
<1>5. Code \in Seq(1..Len(ops)) /\ Distinct(Code) /\ \A i \in ToSet(Code) : ops[i].block = at.b
  BY <1>4 DEF CodeOk
<1>6. Passed(at.c - 1) \subseteq ToSet(Code)
  <2>1. PICK n \in Nat : n = Len(Code)
    BY <1>5
  <2>2. \A c \in 1..(at.c - 1) : c \in 1..n
    BY <1>2, <2>1
  <2>3. \A c \in 1..n : Code[c] \in ToSet(Code)
    BY <1>5, <2>1, SeqElements
  <2> QED
    BY <2>2, <2>3 DEF Passed
<1>7. ToSet(Code) \subseteq CodeOf(ToSet(live))
  BY <1>2 DEF CodeOf, Code
<1>8. CodeOf(Walked) \subseteq CodeOf(ToSet(live))
  BY <1>3 DEF CodeOf
<1>9. Seen \subseteq CodeOf(ToSet(live))
  BY <1>3, <1>6, <1>7, <1>8
<1>10. IsFiniteSet(Seen)
  BY <1>2, <1>9, CodeOfFacts, FS_Subset
<1> QED
  BY <1>1, <1>2, <1>3, <1>5, <1>9, <1>10

LEMMA HereFacts ==
    ASSUME DceInv, pc \in {"visit", "thread"}, at.c <= Len(Code)
    PROVE  /\ at.c \in 1..Len(Code) /\ Here \in 1..Len(ops) /\ Here # noVal
           /\ OpOk(ops[Here], Len(blocks)) /\ ops[Here].block = at.b
           /\ Here \in CodeOf(ToSet(live)) /\ Here \notin Seen
           /\ CodeOf(Walked) \cup Passed(at.c) = Seen \cup {Here}
<1>1. PICK n \in Nat : n = Len(Code)
  BY BlockFacts
<1>2. PICK c : c = at.c
  OBVIOUS
<1>3. c \in 1..n /\ Code[c] = Here
  BY <1>1, <1>2, BlockFacts DEF Here
<1>4. Here \in 1..Len(ops) /\ Here \in ToSet(Code)
  <2>1. Code[c] \in 1..Len(ops) /\ Code[c] \in ToSet(Code)
    BY <1>1, <1>3, BlockFacts, SeqElements
  <2> QED
    BY <1>3, <2>1
<1>5. OpOk(ops[Here], Len(blocks)) /\ ops[Here].block = at.b /\ Shape
  BY <1>4, BlockFacts, WalkFacts, ShapeFacts
<1>6. Here \in CodeOf(ToSet(live))
  BY <1>4, BlockFacts DEF CodeOf, Code
<1>7. Here \notin CodeOf(Walked)
  <2>1. Walked \subseteq 1..Len(blocks)
    BY BlockFacts, WalkFacts
  <2> QED
    BY <1>5, <2>1, BlockFacts, CodeOfFacts
<1>8. Here \notin Passed(c - 1)
  <2>1. \A d \in 1..(c - 1) : d \in 1..n /\ d < c
    BY <1>3
  <2>2. \A d \in 1..n : d < c => Code[d] # Code[c]
    BY <1>1, <1>3, BlockFacts DEF Distinct
  <2> QED
    BY <1>3, <2>1, <2>2 DEF Passed
<1>9. Passed(c) = Passed(c - 1) \cup {Here}
  <2>1. \A d \in 1..c : d \in 1..(c - 1) \/ d = c
    BY <1>3
  <2>2. c \in 1..c /\ \A d \in 1..(c - 1) : d \in 1..c
    BY <1>3
  <2> QED
    BY <1>3, <2>1, <2>2 DEF Passed
<1> QED
  BY <1>1, <1>2, <1>3, <1>4, <1>5, <1>6, <1>7, <1>8, <1>9, BlockFacts DEF noVal

LEMMA visitEndKeeps ==
    ASSUME DceInv, visit, at.c > Len(Code)
    PROVE  DceInv'
<1>1. /\ pc = "visit" /\ pc' = "pop" /\ ops' = ops /\ blocks' = blocks /\ live' = live
      /\ todo' = todo /\ nUse' = nUse /\ tmp' = tmp /\ progress' = progress /\ at' = at
  BY DEF visit
<1>2. Walking /\ pc \in {"visit", "thread"}
  BY <1>1 DEF Walking
<1>3. PICK M \in Nat : M = Len(blocks)
  BY <1>2, WalkFacts, ShapeFacts
<1>4. PICK L : L = ToSet(live)
  OBVIOUS
<1>5. Shape' /\ FrontInv' /\ TypeInv' /\ PhaseInv'
  BY <1>1, <1>2, WalkFacts DEF Shape, FrontInv, TypeInv, PhaseInv
<1>6. LiveInv'
  BY <1>1, <1>2, WalkFacts DEF LiveInv, Distinct
<1>7. Walked' = Walked \cup {at.b}
  BY <1>1, <1>2, BlockFacts DEF Walked
<1>8. Passed(at.c - 1) = ToSet(Code)
  <2>1. PICK n \in Nat : n = Len(Code)
    BY <1>2, BlockFacts
  <2>2. at.c - 1 = n
    BY <1>2, <2>1, BlockFacts
  <2>3. Passed(n) = ToSet(Code)
    <3>1. \A k \in 1..n : Code[k] \in ToSet(Code)
      BY <1>2, <2>1, BlockFacts, SeqElements
    <3>2. \A x \in ToSet(Code) : \E k \in 1..n : x = Code[k]
      BY <1>2, <2>1, BlockFacts, SeqElements
    <3> QED
      BY <3>1, <3>2 DEF Passed
  <2> QED
    BY <2>2, <2>3
<1>9. Seen' = Seen
  <2>1. Seen' = CodeOf(Walked)'
    BY <1>1 DEF Seen
  <2>2. CodeOf(Walked)' = CodeOf(Walked \cup {at.b})
    BY <1>1, <1>7 DEF CodeOf
  <2>3. CodeOf(Walked \cup {at.b}) = CodeOf(Walked) \cup ToSet(Code)
    BY DEF CodeOf, Code
  <2> QED
    BY <1>2, <1>8, <2>1, <2>2, <2>3, BlockFacts
<1>10. Counted' = Counted
  BY <1>1, <1>9 DEF Counted
<1>11. WalkInv'
  <2>1. \A i \in Seen' : Goes(i, L)'
    BY <1>1, <1>2, <1>4, <1>9, WalkFacts DEF Goes
  <2> QED
    BY <1>1, <1>2, <1>4, <2>1, WalkFacts DEF WalkInv
<1>12. WalkCounts'
  <2> SUFFICES ASSUME ~progress'
               PROVE  \E W \in SUBSET (1..M) : CountsIn(W)'
    BY <1>1, <1>3 DEF WalkCounts
  <2>1. PICK W \in SUBSET (1..M) : CountsIn(W)
    BY <1>1, <1>2, <1>3, WalkCounted
  <2>2. CodeOf(W)' = CodeOf(W) /\ \A i \in CodeOf(W) : Goes(i, W)'
    BY <1>1, <2>1 DEF CountsIn, Goes, CodeOf
  <2>3. CountsIn(W)'
    BY <1>1, <1>10, <2>1, <2>2 DEF CountsIn
  <2> QED
    BY <2>3
<1> QED
  BY <1>5, <1>6, <1>11, <1>12 DEF DceInv

(* The next place in the block.                                            *)
LEMMA NextPlaceFacts ==
    ASSUME at \in Places, NEW d \in BOOLEAN, NEW p,
           p \in {NextPlace, [NextPlace EXCEPT !.deadTail = d]}
    PROVE  p \in Places /\ p.b = at.b /\ p.c = at.c + 1 /\ p.c - 1 = at.c
<1>1. NextPlace \in Places /\ NextPlace.b = at.b /\ NextPlace.c = at.c + 1
  <2>1. at.b \in Nat /\ at.c \in Nat /\ at.c + 1 \in Nat /\ at.deadTail \in BOOLEAN
    BY DEF Places
  <2>2. PICK r : r = [at EXCEPT !.c = at.c + 1]
    OBVIOUS
  <2>3. r \in Places /\ r.b = at.b /\ r.c = at.c + 1
    BY <2>1, <2>2 DEF Places
  <2>4. NextPlace = [r EXCEPT !.k = 1]
    BY <2>2 DEF NextPlace
  <2> QED
    BY <2>3, <2>4 DEF Places
<1>2. PICK q \in Places : q = NextPlace
  BY <1>1
<1>3. p \in Places /\ p.b = q.b /\ p.c = q.c
  BY <1>2 DEF Places
<1>4. at.c \in Nat
  BY DEF Places
<1> QED
  BY <1>1, <1>2, <1>3, <1>4

LEMMA visitDeadKeeps ==
    ASSUME DceInv, visit, at.c <= Len(Code), at.deadTail
    PROVE  DceInv'
<1>1. /\ pc = "visit" /\ blocks' = blocks /\ live' = live
      /\ todo' = todo /\ tmp' = tmp /\ progress' = progress
  BY DEF visit
<1>2. Walking /\ pc \in {"visit", "thread"}
  BY <1>1 DEF Walking
<1>3. PICK M, N \in Nat : M = Len(blocks) /\ N = Len(ops)
  BY <1>2, WalkFacts, ShapeFacts
<1>4. PICK h \in 1..N : h = Here
  BY <1>2, <1>3, HereFacts
<1>5. /\ pc' = pc /\ nUse' = nUse /\ at' = NextPlace
      /\ ops' = [ops EXCEPT ![h] = makeNOP(@)]
  <2>1. ~(at.c > Len(Code))
    BY <1>2, BlockFacts
  <2>2. Here # noVal
    BY <1>2, HereFacts
  <2> QED
    BY <1>4, <2>1, <2>2 DEF visit
<1>6. /\ at' \in Places /\ at'.b = at.b /\ at'.c = at.c + 1 /\ at'.c - 1 = at.c
  BY <1>2, <1>5, WalkFacts, NextPlaceFacts
<1>7. OpOk(ops[h], M) /\ DOMAIN ops = 1..N /\ ops = [v \in 1..N |-> ops[v]]
  BY <1>2, <1>3, <1>4, HereFacts, WalkFacts, ShapeFacts
<1>8. /\ ops' = [v \in 1..N |-> ops'[v]]
      /\ \A v \in 1..N : v # h => ops'[v] = ops[v]
      /\ ops'[h] = makeNOP(ops[h])
  BY <1>5, <1>7
<1>9. /\ ops'[h].opcode = "nop" /\ ops'[h].in = << >> /\ ops'[h].block = ops[h].block
      /\ OpOk(ops'[h], M)
  BY <1>7, <1>8, NopFacts
<1>10. IsSeq(ops') /\ Len(ops') = N
  BY <1>8, TupleIsSeq
<1>11. Shape'
  <2>1. \A v \in 1..N : OpOk(ops[v], M)
    BY <1>2, <1>3, WalkFacts, ShapeFacts
  <2>2. ProcOk(ops, blocks)
    BY <1>2, WalkFacts DEF Shape
  <2>3. \A v \in 1..N : /\ OpOk(ops'[v], M) /\ ops'[v].block = ops[v].block
                        /\ ops[v].in = << >> => ops'[v].in = << >>
                        /\ ops'[v].opcode # "nop" => ops'[v].opcode = ops[v].opcode
    BY <1>8, <1>9, <2>1
  <2>4. ProcOk(ops', blocks)
    BY <1>3, <1>10, <2>2, <2>3, OpsKept
  <2> QED
    BY <1>1, <2>4 DEF Shape
<1>12. FrontInv' /\ PhaseInv'
  BY <1>1, <1>5 DEF FrontInv, PhaseInv
<1>13. TypeInv'
  BY <1>1, <1>2, <1>3, <1>5, <1>6, <1>10, WalkFacts DEF TypeInv
<1>14. LiveInv'
  BY <1>1, <1>2, <1>5, WalkFacts DEF LiveInv
<1>15. Seen' = Seen \cup {h}
  <2>1. Walked' = Walked
    BY <1>1, <1>5, <1>6 DEF Walked
  <2>2. CodeOf(Walked)' = CodeOf(Walked)
    BY <1>1, <2>1 DEF CodeOf
  <2>3. Passed(at.c - 1)' = Passed(at.c)
    BY <1>1, <1>6 DEF Passed, Code
  <2>4. Seen' = CodeOf(Walked) \cup Passed(at.c)
    BY <1>1, <1>5, <2>2, <2>3 DEF Seen
  <2> QED
    BY <1>2, <1>4, <2>4, HereFacts
<1>16. Counted = Seen /\ Counted' = Seen \cup {h} /\ h \notin Seen
  BY <1>1, <1>2, <1>4, <1>5, <1>15, HereFacts DEF Counted
<1>17. Seen \subseteq 1..N
  BY <1>2, <1>3, BlockFacts, WalkFacts, CodeOfFacts
<1>18. WalkInv'
  <2>1. \A i \in Seen' : Goes(i, ToSet(live))'
    <3>1. Goes(h, ToSet(live))'
      BY <1>9, OpcodeFacts DEF Goes
    <3>2. \A i \in Seen : Goes(i, ToSet(live))'
      BY <1>1, <1>2, <1>8, <1>16, <1>17, WalkFacts DEF Goes
    <3> QED
      BY <1>15, <3>1, <3>2
  <2>2. at'.c \in 1..(Len(Code') + 1)
    <3>1. Code' = Code
      BY <1>1, <1>6 DEF Code
    <3>2. Len(Code) \in Nat
      BY <1>2, BlockFacts
    <3> QED
      BY <1>2, <1>6, <3>1, <3>2, HereFacts
  <2> QED
    BY <1>1, <1>2, <1>5, <1>6, <2>1, <2>2, WalkFacts, BlockFacts DEF WalkInv
<1>19. WalkCounts'
  <2> SUFFICES ASSUME ~progress'
               PROVE  \E W \in SUBSET (1..M) : CountsIn(W)'
    BY <1>1, <1>3 DEF WalkCounts
  <2>1. PICK W \in SUBSET (1..M) : CountsIn(W)
    BY <1>1, <1>2, <1>3, WalkCounted
  <2>2. CodeOf(W)' = CodeOf(W)
    BY <1>1 DEF CodeOf
  <2>3. CodeOf(W) \subseteq 1..N
    BY <1>2, <1>3, WalkFacts, CodeOfFacts
  <2>4. \A i \in CodeOf(W) : Goes(i, W)'
    BY <1>8, <1>9, <2>1, <2>3, OpcodeFacts DEF CountsIn, Goes
  <2>5. ASSUME NEW v
        PROVE  InUses(ops', Counted', v) = InUses(ops, Counted, v)
    <3>1. InUses(ops', Seen \cup {h}, v) = InUses(ops', Seen, v) + InputUses(ops'[h], v)
      <4>1. IsFiniteSet(Seen)
        BY <1>2, BlockFacts
      <4> QED
        BY <1>9, <1>16, <4>1, InUsesAdd DEF OpOk
    <3>2. InputUses(ops'[h], v) = 0
      BY <1>9, NoInputUses
    <3>3. InUses(ops', Seen, v) = InUses(ops, Seen, v)
      BY <1>8, <1>16, <1>17, InUsesSame
    <3>4. InUses(ops, Seen, v) \in Nat
      BY <1>2, BlockFacts, InUsesNat
    <3> QED
      BY <1>16, <3>1, <3>2, <3>3, <3>4
  <2>6. CountsIn(W)'
    BY <1>1, <1>5, <2>1, <2>2, <2>4, <2>5 DEF CountsIn
  <2> QED
    BY <2>6
<1> QED
  BY <1>11, <1>12, <1>13, <1>14, <1>18, <1>19 DEF DceInv

LEMMA visitCountKeeps ==
    ASSUME DceInv, visit, at.c <= Len(Code), ~at.deadTail
    PROVE  DceInv'
<1>1. /\ pc = "visit" /\ blocks' = blocks /\ live' = live
      /\ todo' = todo /\ tmp' = tmp /\ progress' = progress
  BY DEF visit
<1>2. Walking /\ pc \in {"visit", "thread"}
  BY <1>1 DEF Walking
<1>3. PICK M, N \in Nat : M = Len(blocks) /\ N = Len(ops)
  BY <1>2, WalkFacts, ShapeFacts
<1>4. PICK h \in 1..N : h = Here
  BY <1>2, <1>3, HereFacts
<1>5. /\ ops' = ops
      /\ nUse' = [v \in DOMAIN nUse |-> nUse[v] + InputUses(ops[h], v)]
      /\ IF ops[h].opcode \in Jumps
         THEN pc' = "thread" /\ at' = [at EXCEPT !.k = 1]
         ELSE /\ at' = [NextPlace EXCEPT !.deadTail = EndsBlock(ops[h].opcode)]
              /\ pc' = pc
  <2>1. ~(at.c > Len(Code))
    BY <1>2, BlockFacts
  <2>2. Here # noVal
    BY <1>2, HereFacts
  <2> QED
    BY <1>4, <2>1, <2>2 DEF visit
<1>6. OpOk(ops[h], M) /\ h \notin Seen
  BY <1>2, <1>3, <1>4, HereFacts
<1>7. Shape'
  BY <1>1, <1>2, <1>5, WalkFacts DEF Shape
<1>8. pc' \in {"visit", "thread"} /\ at' \in Places /\ at'.b = at.b
  <2>1. CASE ops[h].opcode \in Jumps
    <3>1. pc' = "thread" /\ at' = [at EXCEPT !.k = 1] /\ at \in Places
      BY <1>2, <1>5, <2>1, WalkFacts
    <3> QED
      BY <3>1 DEF Places
  <2>2. CASE ops[h].opcode \notin Jumps
    <3>1. EndsBlock(ops[h].opcode) \in BOOLEAN
      BY DEF EndsBlock
    <3> QED
      BY <1>1, <1>2, <1>5, <2>2, <3>1, WalkFacts, NextPlaceFacts
  <2> QED
    BY <2>1, <2>2
<1>9. FrontInv' /\ PhaseInv'
  BY <1>8 DEF FrontInv, PhaseInv
<1>10. nUse' \in [1..N -> Int] /\ \A v \in 1..N : nUse'[v] = nUse[v] + InputUses(ops[h], v)
  <2>1. nUse \in [1..N -> Int]
    BY <1>2, <1>3, WalkFacts
  <2>2. \A v \in 1..N : InputUses(ops[h], v) \in Nat
    BY InputUsesNat
  <2> QED
    BY <1>5, <2>1, <2>2
<1>11. TypeInv'
  BY <1>1, <1>2, <1>3, <1>5, <1>8, <1>10, WalkFacts DEF TypeInv
<1>12. LiveInv'
  BY <1>1, <1>2, <1>8, WalkFacts DEF LiveInv
<1>13. Walked' = Walked
  BY <1>1, <1>8 DEF Walked
<1>14. CodeOf(Walked)' = CodeOf(Walked)
  BY <1>1, <1>13 DEF CodeOf
<1>15. Code' = Code
  BY <1>1, <1>8 DEF Code
<1>16. /\ Counted' = Seen \cup {h}
       /\ WalkInv'
  <2>1. CASE ops[h].opcode \in Jumps
    <3>1. pc' = "thread" /\ at' = [at EXCEPT !.k = 1]
      BY <1>5, <2>1
    <3>2. at'.c = at.c /\ at'.k = 1
      BY <1>2, <3>1, WalkFacts DEF Places
    <3>3. Passed(at.c - 1)' = Passed(at.c - 1)
      BY <1>15, <3>2 DEF Passed
    <3>4. Seen' = Seen
      BY <1>2, <1>14, <3>1, <3>3, BlockFacts DEF Seen
    <3>5. Here' = h
      BY <1>4, <1>15, <3>2 DEF Here
    <3>6. \A i \in Seen : Goes(i, ToSet(live))'
      BY <1>1, <1>2, <1>5, WalkFacts DEF Goes
    <3>7. 1 \in 1..Len(ops[h].label)
      <4>1. ops[h].label \in Seq(1..M) /\ ops[h].label # << >>
        BY <1>6, <2>1 DEF OpOk
      <4>2. \A s \in Seq(1..M) : s # << >> => Len(s) \in Nat /\ Len(s) > 0
        OBVIOUS
      <4> QED
        BY <4>1, <4>2
    <3>8. at.c \in 1..Len(Code)
      BY <1>2, HereFacts
    <3>9. \A k \in 1..(at'.k - 1) : FALSE
      BY <3>2
    <3>10. WalkInv'
      BY <1>1, <1>2, <1>5, <1>8, <1>15, <2>1, <3>1, <3>2, <3>4, <3>5, <3>6, <3>7, <3>8, <3>9,
         WalkFacts, BlockFacts DEF WalkInv
    <3> QED
      BY <3>1, <3>4, <3>5, <3>10 DEF Counted
  <2>2. CASE ops[h].opcode \notin Jumps
    <3>1. /\ pc' = "visit" /\ at'.c = at.c + 1 /\ at'.c - 1 = at.c
      <4>1. EndsBlock(ops[h].opcode) \in BOOLEAN
        BY DEF EndsBlock
      <4> QED
        BY <1>1, <1>2, <1>5, <2>2, <4>1, WalkFacts, NextPlaceFacts
    <3>2. Passed(at.c - 1)' = Passed(at.c)
      BY <1>15, <3>1 DEF Passed
    <3>3. Seen' = CodeOf(Walked) \cup Passed(at.c)
      BY <1>14, <3>1, <3>2 DEF Seen
    <3>4. Seen' = Seen \cup {h}
      BY <1>2, <1>4, <3>3, HereFacts
    <3>5. \A i \in Seen' : Goes(i, ToSet(live))'
      BY <1>1, <1>2, <1>5, <2>2, <3>4, WalkFacts DEF Goes
    <3>6. at'.c \in 1..(Len(Code') + 1)
      <4>1. Len(Code) \in Nat
        BY <1>2, BlockFacts
      <4> QED
        BY <1>2, <1>15, <3>1, <4>1, HereFacts
    <3>7. WalkInv'
      BY <1>1, <1>2, <1>8, <3>1, <3>5, <3>6, WalkFacts, BlockFacts DEF WalkInv
    <3> QED
      BY <3>1, <3>4, <3>7 DEF Counted
  <2> QED
    BY <2>1, <2>2
<1>17. WalkCounts'
  <2> SUFFICES ASSUME ~progress'
               PROVE  \E W \in SUBSET (1..M) : CountsIn(W)'
    BY <1>1, <1>3 DEF WalkCounts
  <2>1. PICK W \in SUBSET (1..M) : CountsIn(W)
    BY <1>1, <1>2, <1>3, WalkCounted
  <2>2. CodeOf(W)' = CodeOf(W)
    BY <1>1 DEF CodeOf
  <2>3. CodeOf(W) \subseteq 1..N
    BY <1>2, <1>3, WalkFacts, CodeOfFacts
  <2>4. \A i \in CodeOf(W) : Goes(i, W)'
    BY <1>5, <2>1 DEF CountsIn, Goes
  <2>5. Counted = Seen
    BY <1>1 DEF Counted
  <2>6. ASSUME NEW v \in CodeOf(W)
        PROVE  nUse'[v] = InUses(ops', Counted', v)
    <3>1. InUses(ops, Seen \cup {h}, v) = InUses(ops, Seen, v) + InputUses(ops[h], v)
      <4>1. IsFiniteSet(Seen)
        BY <1>2, BlockFacts
      <4> QED
        BY <1>6, <4>1, InUsesAdd DEF OpOk
    <3>2. nUse[v] = InUses(ops, Seen, v)
      BY <2>1, <2>5 DEF CountsIn
    <3>3. nUse'[v] = nUse[v] + InputUses(ops[h], v)
      BY <1>10, <2>3
    <3> QED
      BY <1>5, <1>16, <3>1, <3>2, <3>3
  <2>7. CountsIn(W)'
    BY <1>1, <2>1, <2>2, <2>4, <2>6 DEF CountsIn
  <2> QED
    BY <2>7
<1> QED
  BY <1>7, <1>9, <1>11, <1>12, <1>16, <1>17 DEF DceInv

LEMMA visitKeeps ==
    ASSUME DceInv, visit
    PROVE  DceInv'
<1>1. pc = "visit" /\ Walking
  BY DEF visit, Walking
<1>2. at.c \in Nat /\ Len(Code) \in Nat /\ at.deadTail \in BOOLEAN
  BY <1>1, WalkFacts, BlockFacts DEF Places
<1> QED
  BY <1>2, visitEndKeeps, visitDeadKeeps, visitCountKeeps

LEMMA BlocksKept ==
    ASSUME NEW o, NEW bl, ProcOk(o, bl), NEW q, IsSeq(q), Len(q) = Len(bl),
           \A b \in 1..Len(bl) :
               /\ DOMAIN q[b] = {"code", "args", "alts", "live"}
               /\ q[b].code = bl[b].code /\ q[b].alts = bl[b].alts
    PROVE  ProcOk(o, q)
<1>1. \A b \in 1..Len(bl) : BlockOk(o, q[b], b)
  BY DEF ProcOk, BlockOk
<1> QED
  BY <1>1 DEF ProcOk

LEMMA AppendDistinct ==
    ASSUME NEW s, IsSeq(s), Distinct(s), NEW e, e \notin ToSet(s)
    PROVE  Distinct(Append(s, e))
<1>1. PICK n \in Nat : n = Len(s)
  BY IsSeqElements
<1>2. PICK q : q = Append(s, e)
  OBVIOUS
<1>3. Len(q) = n + 1 /\ (\A k \in 1..n : q[k] = s[k]) /\ q[n + 1] = e
  BY <1>1, <1>2, AppendElements
<1>4. \A c, d \in 1..(n + 1) : c < d => c \in 1..n /\ (d \in 1..n \/ d = n + 1)
  OBVIOUS
<1>5. \A c \in 1..n : s[c] # e
  BY <1>1, IsSeqElements
<1>6. \A c, d \in 1..(n + 1) : c < d => q[c] # q[d]
  BY <1>1, <1>3, <1>4, <1>5 DEF Distinct
<1> QED
  BY <1>2, <1>3, <1>6 DEF Distinct

(* The first operation after the phis is one of the block, if there is any.*)
LEMMA AfterPhisIn ==
    ASSUME Shape, NEW b \in 1..Len(blocks), AfterPhis(b) # noVal
    PROVE  AfterPhis(b) \in 1..Len(ops)
<1>1. blocks[b].code \in Seq(1..Len(ops))
  BY ShapeFacts DEF BlockOk, CodeOk
<1>2. PICK code \in Seq(1..Len(ops)) : code = blocks[b].code
  BY <1>1
<1>3. PICK cs : cs = { c \in 1..Len(code) : ~IsPhiOp(code[c]) }
  OBVIOUS
<1>4. AfterPhis(b) = IF cs = {} THEN noVal ELSE code[CHOOSE c \in cs : \A d \in cs : c <= d]
  BY <1>2, <1>3 DEF AfterPhis
<1>5. cs # {} /\ cs \subseteq Nat
  BY <1>3, <1>4
<1>6. PICK e \in cs : \A d \in cs : e <= d
  BY <1>5, LeastNumber
<1>7. (CHOOSE c \in cs : \A d \in cs : c <= d) \in cs
  BY <1>6
<1>8. PICK c \in cs : AfterPhis(b) = code[c]
  BY <1>4, <1>5, <1>7
<1> QED
  BY <1>3, <1>8

(* The jump that the walk is at.                                           *)
LEMMA JumpFacts ==
    ASSUME DceInv, pc = "thread"
    PROVE  /\ Walking /\ pc \in {"visit", "thread"} /\ at.c <= Len(Code)
           /\ ops[Here].opcode \in Jumps
           /\ at.k \in 1..Len(ops[Here].label)
           /\ \A k \in 1..(at.k - 1) : ops[Here].label[k] \in ToSet(live)
           /\ Len(ops[Here].label) \in Nat
           /\ ops[Here].label \in Seq(1..Len(blocks)) /\ bsrc \in 1..Len(blocks)
           /\ bsrc \in ToSet(ops[Here].label)
           /\ Counted = Seen \cup {Here}
<1>1. Walking
  BY DEF Walking
<1>2. /\ at.c <= Len(Code) /\ ops[Here].opcode \in Jumps /\ at.k \in 1..Len(ops[Here].label)
      /\ \A k \in 1..(at.k - 1) : ops[Here].label[k] \in ToSet(live)
  BY <1>1, WalkFacts DEF WalkInv
<1>3. ops[Here].label \in Seq(1..Len(blocks))
  BY <1>2, HereFacts DEF OpOk
<1>4. PICK label \in Seq(1..Len(blocks)) : label = ops[Here].label
  BY <1>3
<1>5. label[at.k] \in 1..Len(blocks) /\ label[at.k] \in ToSet(label) /\ Len(label) \in Nat
  <2>1. PICK k \in 1..Len(label) : k = at.k
    BY <1>2, <1>4
  <2>2. label[k] \in 1..Len(blocks)
    OBVIOUS
  <2>3. label[k] \in ToSet(label) /\ Len(label) \in Nat
    BY SeqElements
  <2> QED
    BY <2>1, <2>2, <2>3
<1>6. Counted = Seen \cup {Here}
  BY DEF Counted
<1> QED
  BY <1>1, <1>2, <1>3, <1>4, <1>5, <1>6 DEF bsrc

LEMMA threadKeeps ==
    ASSUME DceInv, thread
    PROVE  DceInv'
<1>1. /\ pc = "thread" /\ pc' = pc /\ live' = live /\ nUse' = nUse
      /\ todo' = todo /\ tmp' = tmp /\ progress' = TRUE /\ at' = at
      /\ JumpsOn
  BY DEF thread, CanThread
<1>2. Walking /\ pc \in {"visit", "thread"} /\ at.c <= Len(Code)
  BY <1>1, JumpFacts
<1>3. PICK M, N \in Nat : M = Len(blocks) /\ N = Len(ops)
  BY <1>2, WalkFacts, ShapeFacts
<1>4. PICK h \in 1..N : h = Here
  BY <1>2, <1>3, HereFacts
<1>5. PICK t : t = target
  OBVIOUS
<1>6. t \in 1..M
  <2>1. PICK j : j = AfterPhis(bsrc)
    OBVIOUS
  <2>2. j # noVal /\ ops[j].opcode = "jmp"
    BY <1>1, <2>1 DEF JumpsOn
  <2>3. j \in 1..N
    BY <1>1, <1>2, <1>3, <2>1, <2>2, AfterPhisIn, JumpFacts, WalkFacts
  <2>4. OpOk(ops[j], M) /\ "jmp" \in Jumps
    BY <1>2, <1>3, <2>3, WalkFacts, ShapeFacts DEF Jumps
  <2>5. ops[j].label \in Seq(1..M) /\ ops[j].label # << >>
    BY <2>2, <2>4 DEF OpOk
  <2>6. \A s \in Seq(1..M) : s # << >> => s[1] \in 1..M
    OBVIOUS
  <2> QED
    BY <1>5, <2>1, <2>5, <2>6 DEF target
<1>7. PICK label \in Seq(1..M) : label = ops[h].label
  BY <1>1, <1>3, <1>4, JumpFacts
<1>8. at.k \in 1..Len(label)
  BY <1>1, <1>4, <1>7, JumpFacts
<1>9. PICK other : other = [label EXCEPT ![at.k] = t]
  OBVIOUS
<1>10. /\ other \in Seq(1..M) /\ Len(other) = Len(label) /\ other # << >>
       /\ \A k \in 1..(at.k - 1) : other[k] = label[k]
  <2>1. other \in Seq(1..M) /\ Len(other) = Len(label)
    BY <1>6, <1>8, <1>9
  <2>2. Len(other) > 0
    BY <1>8, <2>1
  <2>3. \A s \in Seq(1..M) : Len(s) > 0 => s # << >>
    OBVIOUS
  <2>4. \A k \in 1..(at.k - 1) : k \in 1..Len(label) /\ k # at.k
    BY <1>8
  <2>5. \A k \in 1..(at.k - 1) : other[k] = label[k]
    BY <1>9, <2>4
  <2> QED
    BY <2>1, <2>2, <2>3, <2>5
<1>11. ops' = [ops EXCEPT ![h] = [ops[h] EXCEPT !.label = other]]
  BY <1>4, <1>5, <1>7, <1>9 DEF thread
<1>12. OpOk(ops[h], M) /\ DOMAIN ops = 1..N /\ ops = [v \in 1..N |-> ops[v]]
  BY <1>2, <1>3, <1>4, HereFacts, WalkFacts, ShapeFacts
<1>13. /\ ops' = [v \in 1..N |-> ops'[v]]
       /\ \A v \in 1..N : v # h => ops'[v] = ops[v]
       /\ ops'[h] = [ops[h] EXCEPT !.label = other]
  BY <1>11, <1>12
<1>14. /\ DOMAIN ops'[h] = OpFields /\ ops'[h].opcode = ops[h].opcode
       /\ ops'[h].in = ops[h].in /\ ops'[h].block = ops[h].block /\ ops'[h].label = other
  BY <1>12, <1>13 DEF OpOk, OpFields
<1>15. OpOk(ops'[h], M)
  BY <1>10, <1>12, <1>14 DEF OpOk
<1>16. IsSeq(ops') /\ Len(ops') = N
  BY <1>13, TupleIsSeq
<1>17. /\ DOMAIN blocks = 1..M /\ blocks = [b \in 1..M |-> blocks[b]] /\ M > 0
       /\ \A b \in 1..M : BlockOk(ops, blocks[b], b)
       /\ \A v \in 1..N : OpOk(ops[v], M)
       /\ ProcOk(ops, blocks)
  BY <1>2, <1>3, WalkFacts, ShapeFacts DEF Shape
<1>18. /\ blocks' = [b \in 1..M |-> blocks'[b]]
       /\ \A b \in 1..M : /\ b # t => blocks'[b] = blocks[b]
                          /\ DOMAIN blocks'[b] = {"code", "args", "alts", "live"}
                          /\ blocks'[b].code = blocks[b].code
                          /\ blocks'[b].live = blocks[b].live
       /\ blocks'[t].alts = PatchedAlts
  <2>1. blocks' = [blocks EXCEPT ![t].alts = PatchedAlts]
    BY <1>5 DEF thread
  <2>2. \A b \in 1..M : DOMAIN blocks[b] = {"code", "args", "alts", "live"}
    BY <1>17 DEF BlockOk
  <2> QED
    BY <1>6, <1>17, <2>1, <2>2
<1>19. IsSeq(blocks') /\ Len(blocks') = M
  BY <1>18, TupleIsSeq
<1>20. BlockOk(ops, blocks'[t], t)
  <2>1. PICK alts : alts = blocks[t].alts
    OBVIOUS
  <2>2. IsSeq(alts) /\ \A a \in ToSet(alts) : AltOk(ops, blocks[t].code, a, t)
    BY <1>6, <1>17, <2>1 DEF BlockOk
  <2>3. PICK E : E = ToSet(alts) \cup { Alt(a.phi, at.b, Resolved(a)) : a \in ToSet(alts) }
    OBVIOUS
  <2>4. PatchedAlts \in Seq(E)
    BY <1>5, <2>1, <2>2, <2>3, PatchedElements
  <2>5. IsSeq(PatchedAlts) /\ ToSet(PatchedAlts) \subseteq E
    BY <2>4, SeqElements
  <2>6. \A a \in ToSet(alts) : AltOk(ops, blocks[t].code, Alt(a.phi, at.b, Resolved(a)), t)
    BY <2>2 DEF AltOk, Alt
  <2>7. \A a \in E : AltOk(ops, blocks[t].code, a, t)
    BY <2>2, <2>3, <2>6
  <2> QED
    BY <1>6, <1>17, <1>18, <2>5, <2>7 DEF BlockOk
<1>21. Shape'
  <2>1. ProcOk(ops, blocks')
    <3>1. \A b \in 1..M : BlockOk(ops, blocks'[b], b)
      BY <1>17, <1>18, <1>20
    <3> QED
      BY <1>3, <1>17, <1>19, <3>1 DEF ProcOk
  <2>2. \A v \in 1..N : /\ OpOk(ops'[v], M) /\ ops'[v].block = ops[v].block
                        /\ ops'[v].in = ops[v].in /\ ops'[v].opcode = ops[v].opcode
    BY <1>13, <1>14, <1>15, <1>17
  <2>3. ProcOk(ops', blocks')
    BY <1>3, <1>16, <1>19, <2>1, <2>2, OpsKept
  <2> QED
    BY <2>3 DEF Shape
<1>22. FrontInv' /\ PhaseInv' /\ WalkCounts'
  BY <1>1 DEF FrontInv, PhaseInv, WalkCounts
<1>23. TypeInv'
  BY <1>1, <1>2, <1>3, <1>16, WalkFacts DEF TypeInv
<1>24. LiveInv'
  BY <1>1, <1>2, <1>3, <1>18, <1>19, WalkFacts DEF LiveInv
<1>25. Code' = Code
  <2>1. at.b \in 1..M
    BY <1>2, <1>3, BlockFacts
  <2> QED
    BY <1>1, <1>18, <2>1 DEF Code
<1>26. Seen' = Seen
  <2>1. Walked' = Walked
    BY <1>1 DEF Walked
  <2>2. Walked \subseteq 1..M
    BY <1>2, <1>3, BlockFacts, WalkFacts
  <2>3. CodeOf(Walked)' = CodeOf(Walked)
    BY <1>18, <2>1, <2>2 DEF CodeOf
  <2>4. Passed(at.c - 1)' = Passed(at.c - 1)
    BY <1>1, <1>25 DEF Passed
  <2> QED
    BY <1>1, <2>3, <2>4 DEF Seen
<1>27. WalkInv'
  <2>1. Here' = h
    BY <1>1, <1>4, <1>25 DEF Here
  <2>2. \A i \in Seen : Goes(i, ToSet(live))'
    <3>1. Seen \subseteq 1..N /\ h \notin Seen
      BY <1>2, <1>3, <1>4, BlockFacts, HereFacts, WalkFacts, CodeOfFacts
    <3> QED
      BY <1>1, <1>2, <1>13, <3>1, WalkFacts DEF Goes
  <2>3. \A k \in 1..(at.k - 1) : other[k] \in ToSet(live)
    BY <1>1, <1>4, <1>7, <1>10, JumpFacts
  <2>4. at.k \in 1..Len(other) /\ ops[h].opcode \in Jumps
    BY <1>1, <1>4, <1>8, <1>10, JumpFacts
  <2> QED
    BY <1>1, <1>2, <1>14, <1>25, <1>26, <2>1, <2>2, <2>3, <2>4, WalkFacts, BlockFacts
       DEF WalkInv
<1> QED
  BY <1>21, <1>22, <1>23, <1>24, <1>27 DEF DceInv

(* The label that a jump keeps goes to a block which is live.              *)
LEMMA MarkFacts ==
    ASSUME DceInv, follow
    PROVE  /\ live' \in Seq(1..Len(blocks)) /\ Distinct(live') /\ live' # << >>
           /\ ToSet(live') = ToSet(live) \cup {bsrc}
           /\ todo' \in Seq(ToSet(live')) /\ Distinct(todo') /\ at.b \notin ToSet(todo')
           /\ ToSet(live') \ (ToSet(todo') \cup {at.b}) = Walked
           /\ IsSeq(blocks') /\ Len(blocks') = Len(blocks)
           /\ \A b \in 1..Len(blocks) :
                 /\ DOMAIN blocks'[b] = {"code", "args", "alts", "live"}
                 /\ blocks'[b].code = blocks[b].code /\ blocks'[b].alts = blocks[b].alts
                 /\ blocks'[b].live <=> b \in ToSet(live')
<1>1. pc = "thread"
  BY DEF follow
<1>2. Walking /\ pc \in {"visit", "thread"} /\ at.c <= Len(Code)
  BY <1>1, JumpFacts
<1>3. PICK M \in Nat : M = Len(blocks)
  BY <1>2, WalkFacts, ShapeFacts
<1>4. PICK L : L = ToSet(live)
  OBVIOUS
<1>5. PICK g \in 1..M : g = bsrc
  BY <1>1, <1>3, JumpFacts
<1>6. /\ IsSeq(blocks) /\ DOMAIN blocks = 1..M /\ blocks = [b \in 1..M |-> blocks[b]]
      /\ \A b \in 1..M : BlockOk(ops, blocks[b], b)
  BY <1>2, <1>3, WalkFacts, ShapeFacts
<1>7. \A b \in 1..M : DOMAIN blocks[b] = {"code", "args", "alts", "live"}
  BY <1>6 DEF BlockOk
<1>8. /\ live \in Seq(1..M) /\ Distinct(live) /\ live # << >>
      /\ \A b \in 1..M : blocks[b].live <=> b \in L
      /\ todo \in Seq(L) /\ Distinct(todo) /\ ToSet(todo) \subseteq L
      /\ at.b \in L /\ at.b \notin ToSet(todo)
      /\ Walked = L \ (ToSet(todo) \cup {at.b})
  BY <1>2, <1>3, <1>4, WalkFacts, BlockFacts
<1>9. CASE blocks[g].live
  <2>1. blocks' = blocks /\ todo' = todo /\ live' = live
    BY <1>5, <1>9 DEF follow
  <2>2. g \in L
    BY <1>8, <1>9
  <2> QED
    BY <1>3, <1>4, <1>5, <1>6, <1>7, <1>8, <2>1, <2>2
<1>10. CASE ~blocks[g].live
  <2>1. /\ blocks' = [blocks EXCEPT ![g].live = TRUE]
        /\ todo' = Append(todo, g) /\ live' = Append(live, g)
    BY <1>5, <1>10 DEF follow
  <2>2. g \notin L /\ g \notin ToSet(todo) /\ g # at.b
    BY <1>8, <1>10
  <2>3. IsSeq(live) /\ IsSeq(todo)
    BY <1>8, SeqElements
  <2>4. /\ IsSeq(live') /\ ToSet(live') = L \cup {g} /\ Distinct(live')
    BY <1>4, <1>8, <2>1, <2>2, <2>3, AppendElements, AppendDistinct
  <2>5. /\ IsSeq(todo') /\ ToSet(todo') = ToSet(todo) \cup {g} /\ Distinct(todo')
    BY <1>8, <2>1, <2>2, <2>3, AppendElements, AppendDistinct
  <2>6. live' \in Seq(1..M) /\ todo' \in Seq(ToSet(live'))
    <3>1. L \subseteq 1..M
      BY <1>4, <1>8, SeqElements
    <3>2. ToSet(live') \subseteq 1..M /\ ToSet(todo') \subseteq ToSet(live')
      BY <1>8, <2>4, <2>5, <3>1
    <3> QED
      BY <2>4, <2>5, <3>2, SeqOfSet
  <2>7. live' # << >>
    <3>1. g \in ToSet(live') /\ ToSet(<< >>) = {}
      BY <2>4 DEF ToSet
    <3> QED
      BY <3>1
  <2>8. /\ blocks' = [b \in 1..M |-> blocks'[b]]
        /\ \A b \in 1..M : /\ DOMAIN blocks'[b] = {"code", "args", "alts", "live"}
                           /\ blocks'[b].code = blocks[b].code
                           /\ blocks'[b].alts = blocks[b].alts
                           /\ blocks'[b].live = IF b = g THEN TRUE ELSE blocks[b].live
    BY <1>6, <1>7, <2>1
  <2>9. IsSeq(blocks') /\ Len(blocks') = M
    BY <2>8, TupleIsSeq
  <2>10. (L \cup {g}) \ ((ToSet(todo) \cup {g}) \cup {at.b}) = Walked
    BY <1>8, <2>2
  <2>11. \A b \in 1..M : blocks'[b].live <=> b \in ToSet(live')
    BY <1>8, <2>4, <2>8
  <2> QED
    BY <1>3, <1>4, <1>5, <1>8, <2>2, <2>4, <2>5, <2>6, <2>7, <2>8, <2>9, <2>10, <2>11
<1> QED
  BY <1>9, <1>10

LEMMA followKeeps ==
    ASSUME DceInv, follow
    PROVE  DceInv'
<1>1. pc = "thread" /\ nUse' = nUse /\ tmp' = tmp
  BY DEF follow
<1>2. Walking /\ pc \in {"visit", "thread"} /\ at.c <= Len(Code)
  BY <1>1, JumpFacts
<1>3. PICK M, N \in Nat : M = Len(blocks) /\ N = Len(ops)
  BY <1>2, WalkFacts, ShapeFacts
<1>4. PICK h \in 1..N : h = Here
  BY <1>2, <1>3, HereFacts
<1>5. PICK L : L = ToSet(live')
  OBVIOUS
<1>6. /\ live' \in Seq(1..M) /\ Distinct(live') /\ live' # << >>
      /\ L = ToSet(live) \cup {bsrc}
      /\ todo' \in Seq(L) /\ Distinct(todo') /\ at.b \notin ToSet(todo')
      /\ L \ (ToSet(todo') \cup {at.b}) = Walked
      /\ IsSeq(blocks') /\ Len(blocks') = M
      /\ \A b \in 1..M : /\ DOMAIN blocks'[b] = {"code", "args", "alts", "live"}
                         /\ blocks'[b].code = blocks[b].code /\ blocks'[b].alts = blocks[b].alts
                         /\ blocks'[b].live <=> b \in L
  BY <1>3, <1>5, MarkFacts
<1>7. /\ ops[h].opcode \in Jumps /\ Len(ops[h].label) \in Nat
      /\ at.k \in 1..Len(ops[h].label) /\ ops[h].label \in Seq(1..M)
      /\ ops[h].label[at.k] = bsrc /\ bsrc \in ToSet(ops[h].label)
      /\ \A k \in 1..(at.k - 1) : ops[h].label[k] \in L
      /\ Counted = Seen \cup {h} /\ h \notin Seen
  BY <1>1, <1>2, <1>3, <1>4, <1>6, JumpFacts, HereFacts DEF bsrc
<1>8. PICK K \in Nat : K = at.k
  BY <1>7
<1>9. \A k \in 1..K : ops[h].label[k] \in L
  <2>1. \A k \in 1..K : k \in 1..(K - 1) \/ k = K
    OBVIOUS
  <2> QED
    BY <1>6, <1>7, <1>8, <2>1
<1>10. /\ OpOk(ops[h], M) /\ IsSeq(ops) /\ DOMAIN ops = 1..N /\ ops = [v \in 1..N |-> ops[v]]
       /\ \A v \in 1..N : OpOk(ops[v], M)
  BY <1>2, <1>3, <1>4, HereFacts, WalkFacts, ShapeFacts
<1>11. \/ /\ K < Len(ops[h].label) /\ pc' = pc /\ ops' = ops /\ progress' = progress
          /\ at' = [at EXCEPT !.k = K + 1]
       \/ /\ K = Len(ops[h].label) /\ pc' = "visit"
          /\ at' = [NextPlace EXCEPT !.deadTail = TRUE]
          /\ \/ /\ ops[h].opcode \in CondJumps /\ progress' = TRUE
                /\ ops' = [ops EXCEPT ![h] = [ops[h] EXCEPT !.opcode = "jmp", !.in = << >>,
                                                  !.label = <<ops[h].label[1]>>]]
             \/ ops' = ops /\ progress' = progress
  <2>1. K \in 1..Len(ops[h].label)
    BY <1>7, <1>8
  <2>2. CASE K < Len(ops[h].label)
    BY <1>4, <1>8, <2>2 DEF follow
  <2>3. CASE ~(K < Len(ops[h].label))
    <3>1. K = Len(ops[h].label)
      BY <1>7, <2>1, <2>3
    <3>2. CASE ops[h].opcode \in CondJumps /\ ops[h].label[1] = ops[h].label[2]
      BY <1>4, <1>8, <2>3, <3>1, <3>2 DEF follow
    <3>3. CASE ~(ops[h].opcode \in CondJumps /\ ops[h].label[1] = ops[h].label[2])
      BY <1>4, <1>8, <2>3, <3>1, <3>3 DEF follow
    <3> QED
      BY <3>2, <3>3
  <2> QED
    BY <2>2, <2>3
<1>12. /\ IsSeq(ops') /\ Len(ops') = N
       /\ \A v \in 1..N : v # h => ops'[v] = ops[v]
       /\ OpOk(ops'[h], M) /\ ops'[h].block = ops[h].block
       /\ ops[h].in = << >> => ops'[h].in = << >>
       /\ ops'[h].opcode \in Jumps /\ ToSet(ops'[h].label) \subseteq ToSet(ops[h].label)
       /\ ~progress' => ops' = ops /\ ~progress
  <2>1. CASE ops' = ops /\ progress' = progress
    BY <1>3, <1>7, <1>10, <2>1
  <2>2. CASE /\ ops[h].opcode \in CondJumps /\ progress' = TRUE
             /\ ops' = [ops EXCEPT ![h] = [ops[h] EXCEPT !.opcode = "jmp", !.in = << >>,
                                               !.label = <<ops[h].label[1]>>]]
    <3>1. PICK l : l = <<ops[h].label[1]>>
      OBVIOUS
    <3>2. PICK label \in Seq(1..M) : label = ops[h].label
      BY <1>7
    <3>3. 1 \in 1..Len(label) /\ label[1] \in 1..M /\ label[1] \in ToSet(label)
      <4>1. 1 \in 1..Len(label)
        BY <1>7, <3>2
      <4> QED
        BY <4>1, SeqElements
    <3>4. l \in Seq(1..M) /\ l # << >> /\ ToSet(l) = {label[1]}
      <4>1. l = <<label[1]>>
        BY <3>1, <3>2
      <4>2. l \in Seq(1..M) /\ l # << >> /\ Len(l) = 1 /\ l[1] = label[1]
        BY <3>3, <4>1
      <4>3. \A k \in 1..1 : k = 1
        OBVIOUS
      <4>4. 1 \in 1..1
        OBVIOUS
      <4> QED
        BY <4>2, <4>3, <4>4, SeqElements
    <3>5. /\ ops' = [v \in 1..N |-> ops'[v]]
          /\ \A v \in 1..N : v # h => ops'[v] = ops[v]
          /\ ops'[h] = [ops[h] EXCEPT !.opcode = "jmp", !.in = << >>, !.label = l]
      BY <1>10, <2>2, <3>1
    <3>6. /\ DOMAIN ops'[h] = OpFields /\ ops'[h].opcode = "jmp" /\ ops'[h].in = << >>
          /\ ops'[h].block = ops[h].block /\ ops'[h].label = l
      BY <1>10, <3>5 DEF OpOk, OpFields
    <3>7. "jmp" \in Jumps /\ nInputs("jmp") = 0 /\ IsSeq(<< >>) /\ Len(<< >>) = 0
      BY OpcodeFacts, SmallSeqs DEF Jumps
    <3>8. OpOk(ops'[h], M)
      BY <1>10, <3>4, <3>6, <3>7 DEF OpOk
    <3>9. IsSeq(ops') /\ Len(ops') = N
      BY <3>5, TupleIsSeq
    <3>10. ToSet(ops'[h].label) \subseteq ToSet(ops[h].label)
      BY <3>2, <3>3, <3>4, <3>6
    <3> QED
      BY <2>2, <3>5, <3>6, <3>7, <3>8, <3>9, <3>10
  <2> QED
    BY <1>11, <2>1, <2>2
<1>13. Shape'
  <2>1. ProcOk(ops, blocks)
    BY <1>2, WalkFacts DEF Shape
  <2>2. ops[h].opcode # "phi" /\ ops[h].opcode # "nop"
        /\ ops'[h].opcode # "phi" /\ ops'[h].opcode # "nop"
    BY <1>7, <1>12, OpcodeFacts
  <2>3. \A v \in 1..N : /\ OpOk(ops'[v], M) /\ ops'[v].block = ops[v].block
                        /\ ops[v].in = << >> => ops'[v].in = << >>
                        /\ ops'[v].opcode # "nop" =>
                              /\ ops[v].opcode # "nop"
                              /\ ops[v].opcode = "phi" <=> ops'[v].opcode = "phi"
    BY <1>10, <1>12, <2>2
  <2>4. ProcOk(ops', blocks)
    BY <1>3, <1>12, <2>1, <2>3, OpsKept
  <2> QED
    BY <1>3, <1>6, <2>4, BlocksKept DEF Shape
<1>14. pc' \in {"visit", "thread"} /\ at' \in Places /\ at'.b = at.b
  <2>1. at \in Places /\ K + 1 \in Nat
    BY <1>2, WalkFacts
  <2>2. CASE pc' = pc /\ at' = [at EXCEPT !.k = K + 1]
    BY <1>1, <2>1, <2>2 DEF Places
  <2>3. CASE pc' = "visit" /\ at' = [NextPlace EXCEPT !.deadTail = TRUE]
    BY <2>1, <2>3, NextPlaceFacts
  <2> QED
    BY <1>11, <2>2, <2>3
<1>15. FrontInv' /\ PhaseInv'
  BY <1>14 DEF FrontInv, PhaseInv
<1>16. TypeInv'
  <2>1. progress' \in BOOLEAN
    BY <1>2, <1>11, WalkFacts
  <2> QED
    BY <1>1, <1>2, <1>3, <1>12, <1>14, <2>1, WalkFacts DEF TypeInv
<1>17. LiveInv'
  <2>1. 1 \in L
    BY <1>2, <1>6, WalkFacts
  <2> QED
    BY <1>5, <1>6, <1>14, <2>1 DEF LiveInv
<1>18. Code' = Code
  <2>1. at.b \in 1..M
    BY <1>2, <1>3, BlockFacts
  <2> QED
    BY <1>6, <1>14, <2>1 DEF Code
<1>19. CodeOf(Walked)' = CodeOf(Walked)
  <2>1. Walked' = Walked
    BY <1>5, <1>6, <1>14 DEF Walked
  <2>2. Walked \subseteq 1..M
    BY <1>2, <1>3, BlockFacts, WalkFacts
  <2> QED
    BY <1>6, <2>1, <2>2 DEF CodeOf
<1>20. Seen \subseteq 1..N /\ \A i \in Seen : Goes(i, L)'
  <2>1. Seen \subseteq 1..N
    BY <1>2, <1>3, BlockFacts, WalkFacts, CodeOfFacts
  <2>2. \A i \in Seen : ops'[i] = ops[i]
    BY <1>7, <1>12, <2>1
  <2> QED
    BY <1>2, <1>6, <2>1, <2>2, WalkFacts DEF Goes
<1>21. Counted' = Counted /\ WalkInv'
  <2>1. CASE /\ K < Len(ops[h].label) /\ pc' = pc /\ ops' = ops
             /\ at' = [at EXCEPT !.k = K + 1]
    <3>1. at'.c = at.c /\ at'.k = K + 1
      BY <1>2, <2>1, WalkFacts DEF Places
    <3>2. Passed(at.c - 1)' = Passed(at.c - 1)
      BY <1>18, <3>1 DEF Passed
    <3>3. Seen' = Seen
      BY <1>1, <1>2, <1>19, <2>1, <3>2, BlockFacts DEF Seen
    <3>4. Here' = h
      BY <1>4, <1>18, <3>1 DEF Here
    <3>5. at.c \in 1..Len(Code)
      BY <1>2, HereFacts
    <3>6. K + 1 \in 1..Len(ops[h].label) /\ \A k \in 1..(at'.k - 1) : ops[h].label[k] \in L
      BY <1>7, <1>9, <2>1, <3>1
    <3>7. at.b \in L
      BY <1>2, <1>6, BlockFacts
    <3>8. WalkInv'
      <4>1. Len(Code) \in Nat
        BY <1>2, BlockFacts
      <4>2. at'.c \in 1..(Len(Code') + 1) /\ at'.c <= Len(Code')
        BY <1>18, <3>1, <3>5, <4>1
      <4>3. ops'[h].opcode \in Jumps /\ ops'[h].label = ops[h].label
        BY <1>7, <2>1
      <4>4. at'.k \in 1..Len(ops'[h].label) /\ \A k \in 1..(at'.k - 1) : ops'[h].label[k] \in L
        BY <3>1, <3>6, <4>3
      <4>5. at'.b \in L \ ToSet(todo')
        BY <1>6, <1>14, <3>7
      <4>6. \A i \in Seen' : Goes(i, L)'
        BY <1>20, <3>3
      <4> QED
        BY <1>5, <1>6, <3>4, <4>2, <4>3, <4>4, <4>5, <4>6 DEF WalkInv
    <3> QED
      BY <1>1, <1>7, <2>1, <3>3, <3>4, <3>8 DEF Counted
  <2>2. CASE /\ K = Len(ops[h].label) /\ pc' = "visit"
             /\ at' = [NextPlace EXCEPT !.deadTail = TRUE]
    <3>1. at'.c = at.c + 1 /\ at'.c - 1 = at.c
      BY <1>2, <2>2, WalkFacts, NextPlaceFacts
    <3>2. Passed(at.c - 1)' = Passed(at.c)
      BY <1>18, <3>1 DEF Passed
    <3>3. Seen' = CodeOf(Walked) \cup Passed(at.c)
      BY <1>19, <2>2, <3>2 DEF Seen
    <3>4. Seen' = Seen \cup {h}
      BY <1>2, <1>4, <3>3, HereFacts
    <3>5. Goes(h, L)'
      <4>1. ToSet(ops[h].label) \subseteq L
        <5>1. PICK label \in Seq(1..M) : label = ops[h].label
          BY <1>7
        <5>2. \A x \in ToSet(label) : \E k \in 1..Len(label) : x = label[k]
          BY <5>1, SeqElements
        <5>3. \A k \in 1..Len(label) : label[k] \in L
          BY <1>9, <2>2, <5>1
        <5> QED
          BY <5>1, <5>2, <5>3
      <4> QED
        BY <1>12, <4>1 DEF Goes
    <3>6. \A i \in Seen' : Goes(i, L)'
      BY <1>20, <3>4, <3>5
    <3>7. at'.c \in 1..(Len(Code') + 1)
      <4>1. Len(Code) \in Nat
        BY <1>2, BlockFacts
      <4> QED
        BY <1>2, <1>18, <3>1, <4>1, HereFacts
    <3>8. at.b \in L
      BY <1>2, <1>6, BlockFacts
    <3>9. WalkInv'
      BY <1>5, <1>6, <1>14, <2>2, <3>6, <3>7, <3>8 DEF WalkInv
    <3> QED
      BY <1>7, <2>2, <3>4, <3>9 DEF Counted
  <2> QED
    BY <1>11, <2>1, <2>2
<1>22. WalkCounts'
  <2> SUFFICES ASSUME ~progress'
               PROVE  \E W \in SUBSET (1..M) : CountsIn(W)'
    BY <1>6 DEF WalkCounts
  <2>1. ops' = ops /\ ~progress
    BY <1>12
  <2>2. PICK W \in SUBSET (1..M) : CountsIn(W)
    BY <1>2, <1>3, <2>1, WalkCounted
  <2>3. CodeOf(W)' = CodeOf(W)
    BY <1>6 DEF CodeOf
  <2>4. \A i \in CodeOf(W) : Goes(i, W)'
    BY <2>1, <2>2 DEF CountsIn, Goes
  <2>5. bsrc \in W
    <3>1. h \in CodeOf(W)
      <4>1. h \in CodeOf(ToSet(live))
        BY <1>2, <1>4, HereFacts
      <4> QED
        BY <2>2, <4>1 DEF CountsIn, CodeOf
    <3> QED
      BY <1>7, <2>2, <3>1 DEF CountsIn, Goes
  <2>6. L \subseteq W
    BY <1>6, <2>2, <2>5 DEF CountsIn
  <2>7. CountsIn(W)'
    BY <1>1, <1>5, <1>21, <2>1, <2>2, <2>3, <2>4, <2>6 DEF CountsIn
  <2> QED
    BY <2>7
<1> QED
  BY <1>13, <1>15, <1>16, <1>17, <1>21, <1>22 DEF DceInv

-----------------------------------------------------------------------------
(* The later phases.                                                       *)

LEMMA PhaseFacts ==
    ASSUME DceInv, pc \in {"uses", "rename", "sweep"}
    PROVE  /\ Shape /\ nUse \in [1..Len(ops) -> Int] /\ DOMAIN tmp = 1..Len(ops)
           /\ progress \in BOOLEAN /\ at \in Places
           /\ live \in Seq(1..Len(blocks)) /\ Distinct(live) /\ live # << >>
           /\ 1 \in ToSet(live) /\ ToSet(live) \subseteq 1..Len(blocks)
           /\ \A b \in 1..Len(blocks) : blocks[b].live <=> b \in ToSet(live)
           /\ \A i \in CodeOf(ToSet(live)) : Goes(i, ToSet(live))
           /\ at.c \in 1..Len(live) /\ Len(live) \in Nat
           /\ live[at.c] \in ToSet(live) /\ live[at.c] \notin Before(at.c)
           /\ Before(at.c) \subseteq ToSet(live)
<1>1. /\ Shape /\ nUse \in [1..Len(ops) -> Int] /\ DOMAIN tmp = 1..Len(ops)
      /\ progress \in BOOLEAN /\ at \in Places
  BY DEF DceInv, TypeInv
<1>2. /\ live \in Seq(1..Len(blocks)) /\ Distinct(live) /\ live # << >>
      /\ 1 \in ToSet(live) /\ \A b \in 1..Len(blocks) : blocks[b].live <=> b \in ToSet(live)
      /\ \A i \in CodeOf(ToSet(live)) : Goes(i, ToSet(live))
      /\ at.c \in 1..Len(live)
  BY DEF DceInv, LiveInv
<1>3. PICK n \in Nat : n = Len(live)
  BY <1>2, SeqElements
<1>4. PICK c \in 1..n : c = at.c
  BY <1>2, <1>3
<1>5. ToSet(live) \subseteq 1..Len(blocks) /\ \A k \in 1..n : live[k] \in ToSet(live)
  BY <1>2, <1>3, SeqElements
<1>6. \A m \in 1..(c - 1) : m \in 1..n /\ m < c
  BY <1>4
<1>7. live[c] \notin Before(c)
  BY <1>2, <1>3, <1>4, <1>6 DEF Before, Distinct
<1>8. Before(c) \subseteq ToSet(live)
  BY <1>5, <1>6 DEF Before
<1> QED
  BY <1>1, <1>2, <1>3, <1>4, <1>5, <1>7, <1>8

(* The blocks of a phase that are done after one more.                     *)
LEMMA NextLiveFacts ==
    ASSUME DceInv, pc \in {"uses", "rename", "sweep"}, NEW phase, NextLive(phase), live' = live
    PROVE  /\ at' \in Places /\ at'.c \in 1..Len(live)
           /\ \/ pc' = pc /\ Before(at.c)' = Before(at.c) \cup {live[at.c]}
              \/ /\ pc' = phase /\ Before(at.c)' = {}
                 /\ ToSet(live) = Before(at.c) \cup {live[at.c]}
<1>1. PICK n \in Nat : n = Len(live)
  BY PhaseFacts
<1>2. PICK c \in 1..n : c = at.c
  BY <1>1, PhaseFacts
<1>3. at \in Places
  BY PhaseFacts
<1>4. { live[m] : m \in 1..c } = Before(c) \cup {live[c]}
  <2>1. \A m \in 1..c : m = c \/ m \in 1..(c - 1)
    BY <1>2
  <2>2. c \in 1..c /\ \A m \in 1..(c - 1) : m \in 1..c
    BY <1>2
  <2> QED
    BY <2>1, <2>2 DEF Before
<1>5. CASE c < n
  <2>1. at' = NextPlace /\ pc' = pc
    BY <1>1, <1>2, <1>5 DEF NextLive
  <2>2. at' \in Places /\ at'.c = c + 1 /\ at'.c - 1 = c
    <3>1. at' \in Places /\ at'.c = at.c + 1 /\ at'.c - 1 = at.c
      BY <1>3, <2>1, NextPlaceFacts
    <3> QED
      BY <1>2, <3>1
  <2>3. Before(at.c)' = { live[m] : m \in 1..c }
    BY <2>2 DEF Before
  <2>4. c + 1 \in 1..n
    BY <1>2, <1>5
  <2> QED
    BY <1>1, <1>2, <1>4, <2>1, <2>2, <2>3, <2>4
<1>6. CASE ~(c < n)
  <2>1. at' = NoPlace /\ pc' = phase /\ c = n
    BY <1>1, <1>2, <1>6 DEF NextLive
  <2>2. at' \in Places /\ at'.c = 1 /\ at'.c - 1 = 0 /\ 1 \in 1..n
    BY <1>2, <2>1 DEF NoPlace, Places
  <2>3. Before(at.c)' = {}
    BY <2>2 DEF Before
  <2>4. ToSet(live) = { live[m] : m \in 1..c }
    <3>1. IsSeq(live)
      BY PhaseFacts, SeqElements
    <3> QED
      BY <1>1, <2>1, <3>1, IsSeqElements
  <2> QED
    BY <1>1, <1>2, <1>4, <2>1, <2>2, <2>3, <2>4
<1> QED
  BY <1>5, <1>6

(* What a step of these phases keeps, whatever it does to the procedure.   *)
LEMMA PhaseKeeps ==
    ASSUME DceInv, pc \in {"uses", "rename", "sweep"},
           NEW phase \in {"rename", "sweep", "round"}, NextLive(phase), live' = live,
           nUse' \in [1..Len(ops') -> Int], DOMAIN tmp' = 1..Len(ops'), progress' \in BOOLEAN,
           Len(blocks') = Len(blocks),
           \A b \in 1..Len(blocks) : blocks'[b].live = blocks[b].live,
           \A i \in CodeOf(ToSet(live))' : Goes(i, ToSet(live))'
    PROVE  TypeInv' /\ FrontInv' /\ LiveInv' /\ WalkInv' /\ WalkCounts'
<1>1. at' \in Places /\ at'.c \in 1..Len(live) /\ pc' \in {"uses", "rename", "sweep", "round"}
  BY NextLiveFacts
<1>2. TypeInv'
  BY <1>1 DEF TypeInv
<1>3. FrontInv' /\ WalkInv' /\ WalkCounts'
  BY <1>1 DEF FrontInv, WalkInv, WalkCounts, Walking
<1>4. Distinct(live')
  BY PhaseFacts
<1>5. LiveInv'
  BY <1>1, <1>4, PhaseFacts DEF LiveInv
<1> QED
  BY <1>2, <1>3, <1>5

LEMMA OwnUsesNat ==
    ASSUME NEW alts, IsSeq(alts), NEW value, NEW v
    PROVE  OwnUses(alts, value, v) \in Nat
<1>1. IsFiniteSet(1..Len(alts))
  BY IsSeqElements, FS_Interval
<1>2. IsFiniteSet({ n \in 1..Len(alts) : Counts(alts[n], value, v) })
  BY <1>1, FS_Subset
<1> QED
  BY <1>2, FS_CardinalityType DEF OwnUses

(* The uses by the alternatives of one more block.                         *)
LEMMA phiUsesCounts ==
    ASSUME DceInv, phiUses, NEW B, B = Before(at.c), NEW b, b = live[at.c],
           IsSeq(blocks'[b].alts),
           \A c \in 1..Len(blocks) :
               IsSeq(blocks[c].alts) /\ (c # b => blocks'[c].alts = blocks[c].alts),
           nUse' = [v \in DOMAIN nUse |-> nUse[v] + OwnUses(blocks'[b].alts, tmp', v)],
           \A v \in 1..Len(ops) : ops[v].block # b => tmp'[v] = tmp[v],
           CodeOf(ToSet(live))' = CodeOf(ToSet(live)), ~progress
    PROVE  CountedTo(B \cup {b})'
<1>1. pc = "uses" /\ ops' = ops /\ live' = live /\ progress' = progress
  BY DEF phiUses
<1>2. PICK nb, nt : nb = blocks' /\ nt = tmp'
  OBVIOUS
<1>3. PICK M, N \in Nat : M = Len(blocks) /\ N = Len(ops)
  BY <1>1, PhaseFacts, ShapeFacts
<1>4. B \subseteq 1..M /\ b \in 1..M /\ b \notin B /\ IsFiniteSet(B)
  <2>1. B \subseteq 1..M /\ b \in 1..M /\ b \notin B
    BY <1>1, <1>3, PhaseFacts
  <2>2. IsFiniteSet(1..M)
    BY FS_Interval
  <2> QED
    BY <2>1, <2>2, FS_Subset
<1>5. PICK C : C = CodeOf(ToSet(live))
  OBVIOUS
<1>6. C \subseteq 1..N /\ IsFiniteSet(C)
  BY <1>1, <1>3, <1>5, PhaseFacts, CodeOfFacts
<1>7. \A c \in B : /\ IsSeq(blocks[c].alts) /\ nb[c].alts = blocks[c].alts
                   /\ \A a \in ToSet(blocks[c].alts) : nt[a.phi] = tmp[a.phi]
  <2> SUFFICES ASSUME NEW c \in B
               PROVE  /\ IsSeq(blocks[c].alts) /\ nb[c].alts = blocks[c].alts
                      /\ \A a \in ToSet(blocks[c].alts) : nt[a.phi] = tmp[a.phi]
    OBVIOUS
  <2>1. c \in 1..M /\ c # b
    BY <1>4
  <2>2. BlockOk(ops, blocks[c], c)
    BY <1>1, <1>3, <2>1, PhaseFacts, ShapeFacts
  <2>3. \A a \in ToSet(blocks[c].alts) : a.phi \in 1..N /\ ops[a.phi].block = c
    BY <1>3, <2>2 DEF BlockOk, AltOk
  <2> QED
    BY <1>2, <1>3, <2>1, <2>3
<1>8. ASSUME NEW v \in C
      PROVE  nUse'[v] = InUses(ops, C, v) + AltUses(nb, nt, B \cup {b}, v)
  <2>1. v \in 1..N /\ DOMAIN nUse = 1..N
    BY <1>1, <1>3, <1>6, PhaseFacts
  <2>2. nUse[v] = InUses(ops, C, v) + AltUses(blocks, tmp, B, v)
    BY <1>1, <1>5 DEF DceInv, PhaseInv, CountedTo
  <2>3. AltUses(nb, nt, B, v) = AltUses(blocks, tmp, B, v)
    BY <1>7, AltUsesSame
  <2>4. AltUses(nb, nt, B \cup {b}, v) =
            AltUses(nb, nt, B, v) + OwnUses(nb[b].alts, nt, v)
    <3>1. \A c \in B \cup {b} : IsSeq(nb[c].alts)
      BY <1>2, <1>7
    <3> QED
      BY <1>4, <3>1, AltUsesAdd
  <2>5. AltUses(blocks, tmp, B, v) \in Nat /\ InUses(ops, C, v) \in Nat
    BY <1>4, <1>6, <1>7, AltUsesNat, InUsesNat
  <2>6. OwnUses(nb[b].alts, nt, v) \in Nat
    <3>1. IsSeq(nb[b].alts)
      BY <1>2
    <3> QED
      BY <3>1, OwnUsesNat
  <2>7. nUse'[v] = nUse[v] + OwnUses(nb[b].alts, nt, v)
    BY <1>2, <2>1
  <2> QED
    BY <2>2, <2>3, <2>4, <2>5, <2>6, <2>7
<1> QED
  BY <1>1, <1>2, <1>5, <1>8 DEF CountedTo

LEMMA phiUsesKeeps ==
    ASSUME DceInv, phiUses
    PROVE  DceInv'
<1>1. /\ pc = "uses" /\ ops' = ops /\ live' = live /\ progress' = progress
      /\ NextLive("rename")
  BY DEF phiUses
<1>2. PICK b : b = live[at.c]
  OBVIOUS
<1>3. PICK M, N \in Nat : M = Len(blocks) /\ N = Len(ops)
  BY <1>1, PhaseFacts, ShapeFacts
<1>4. /\ b \in 1..M /\ b \in ToSet(live) /\ ToSet(live) \subseteq 1..M
      /\ b \notin Before(at.c) /\ Before(at.c) \subseteq ToSet(live)
  BY <1>1, <1>2, <1>3, PhaseFacts
<1>5. /\ \A c \in 1..M : BlockOk(ops, blocks[c], c)
      /\ IsSeq(blocks) /\ DOMAIN blocks = 1..M /\ blocks = [c \in 1..M |-> blocks[c]]
  BY <1>1, <1>3, PhaseFacts, ShapeFacts
<1>6. PICK S : S = { a \in ToSet(blocks[b].alts) :
                        ops[a.phi].opcode # "nop" /\ blocks[a.src].live }
  OBVIOUS
<1>7. PICK alts : alts = Keep(blocks[b].alts, S)
  OBVIOUS
<1>8. IsSeq(alts) /\ ToSet(alts) = ToSet(blocks[b].alts) \cap S
  BY <1>4, <1>5, <1>7, KeepElements DEF BlockOk
<1>9. /\ blocks' = [blocks EXCEPT ![b].alts = alts]
      /\ tmp' = [v \in DOMAIN tmp |-> IF ops[v].opcode = "phi" /\ ops[v].block = b
                                      THEN OnlyValue(alts, v) ELSE tmp[v]]
      /\ nUse' = [v \in DOMAIN nUse |-> nUse[v] + Cardinality(
                    { n \in 1..Len(alts) : alts[n].val = v
                                           /\ tmp'[alts[n].phi] = alts[n].phi })]
  <2>1. PICK c \in {live[at.c]} :
           \E a \in {Keep(blocks[c].alts,
                 { a \in ToSet(blocks[c].alts) :
                       ops[a.phi].opcode # "nop" /\ blocks[a.src].live })} :
           \E value \in {[v \in DOMAIN tmp |->
                           IF ops[v].opcode = "phi" /\ ops[v].block = c
                           THEN OnlyValue(a, v) ELSE tmp[v]]} :
              /\ blocks' = [blocks EXCEPT ![c].alts = a]
              /\ tmp' = value
              /\ nUse' = [v \in DOMAIN nUse |-> nUse[v] + Cardinality(
                    { n \in 1..Len(a) : a[n].val = v /\ value[a[n].phi] = a[n].phi })]
    BY DEF phiUses
  <2>2. c = b
    BY <1>2
  <2>3. Keep(blocks[c].alts, { a \in ToSet(blocks[c].alts) :
                ops[a.phi].opcode # "nop" /\ blocks[a.src].live }) = alts
    BY <1>6, <1>7, <2>2
  <2>4. PICK kept \in {Keep(blocks[c].alts, { a \in ToSet(blocks[c].alts) :
                               ops[a.phi].opcode # "nop" /\ blocks[a.src].live })} :
           /\ blocks' = [blocks EXCEPT ![c].alts = kept]
           /\ tmp' = [v \in DOMAIN tmp |-> IF ops[v].opcode = "phi" /\ ops[v].block = c
                                           THEN OnlyValue(kept, v) ELSE tmp[v]]
           /\ nUse' = [v \in DOMAIN nUse |-> nUse[v] + Cardinality(
                 { n \in 1..Len(kept) : kept[n].val = v
                                        /\ tmp'[kept[n].phi] = kept[n].phi })]
    BY <2>1
  <2>5. kept = alts
    BY <2>3, <2>4
  <2> QED
    BY <2>2, <2>4, <2>5
<1>10. nUse' = [v \in DOMAIN nUse |-> nUse[v] + OwnUses(alts, tmp', v)]
  BY <1>9 DEF OwnUses, Counts
<1>11. /\ blocks' = [c \in 1..M |-> blocks'[c]]
       /\ \A c \in 1..M : /\ DOMAIN blocks'[c] = {"code", "args", "alts", "live"}
                          /\ blocks'[c].code = blocks[c].code
                          /\ blocks'[c].live = blocks[c].live
                          /\ c # b => blocks'[c].alts = blocks[c].alts
       /\ blocks'[b].alts = alts
  <2>1. \A c \in 1..M : DOMAIN blocks[c] = {"code", "args", "alts", "live"}
    BY <1>5 DEF BlockOk
  <2> QED
    BY <1>4, <1>5, <1>9, <2>1
<1>12. IsSeq(blocks') /\ Len(blocks') = M
  BY <1>11, TupleIsSeq
<1>13. DOMAIN nUse = 1..N /\ DOMAIN tmp = 1..N /\ nUse \in [1..N -> Int]
  BY <1>1, <1>3, PhaseFacts
<1>14. Shape'
  <2>1. \A c \in 1..M : BlockOk(ops, blocks'[c], c)
    <3> SUFFICES ASSUME NEW c \in 1..M
                 PROVE  BlockOk(ops, blocks'[c], c)
      OBVIOUS
    <3>1. BlockOk(ops, blocks[c], c)
      BY <1>5
    <3>2. CASE c # b
      BY <1>11, <3>1, <3>2 DEF BlockOk
    <3>3. CASE c = b
      <4>1. \A a \in ToSet(alts) : AltOk(ops, blocks[b].code, a, b)
        BY <1>8, <3>1, <3>3 DEF BlockOk
      <4> QED
        BY <1>8, <1>11, <3>1, <3>3, <4>1 DEF BlockOk
    <3> QED
      BY <3>2, <3>3
  <2>2. IsSeq(ops) /\ M > 0 /\ \A v \in 1..Len(ops) : OpOk(ops[v], M)
    BY <1>1, <1>3, PhaseFacts, ShapeFacts
  <2> QED
    BY <1>1, <1>12, <2>1, <2>2 DEF Shape, ProcOk
<1>15. CodeOf(ToSet(live))' = CodeOf(ToSet(live))
  BY <1>1, <1>4, <1>11 DEF CodeOf
<1>16. TypeInv' /\ FrontInv' /\ LiveInv' /\ WalkInv' /\ WalkCounts'
  <2>1. \A v \in 1..N : OwnUses(alts, tmp', v) \in Nat
    BY <1>8, OwnUsesNat
  <2>2. nUse' \in [1..N -> Int]
    BY <1>10, <1>13, <2>1
  <2>3. DOMAIN tmp' = 1..N
    BY <1>9, <1>13
  <2>4. \A i \in CodeOf(ToSet(live))' : Goes(i, ToSet(live))'
    BY <1>1, <1>15, PhaseFacts DEF Goes
  <2> QED
    BY <1>1, <1>3, <1>11, <1>12, <2>2, <2>3, <2>4, PhaseFacts, PhaseKeeps
<1>17. PICK B : B = Before(at.c)
  OBVIOUS
<1>18. \A c \in B \cup {b} : Cleaned(c)'
  <2>1. \A c \in B : Cleaned(c)
    BY <1>1, <1>17 DEF DceInv, PhaseInv
  <2>2. \A c \in B : c \in 1..M /\ c # b
    BY <1>4, <1>17
  <2>3. \A c \in B : Cleaned(c)'
    BY <1>1, <1>11, <2>1, <2>2 DEF Cleaned
  <2>4. Cleaned(b)'
    BY <1>1, <1>6, <1>8, <1>11 DEF Cleaned
  <2> QED
    BY <2>3, <2>4
<1>19. ~progress' => CountedTo(B \cup {b})'
  <2>1. \A v \in 1..Len(ops) : ops[v].block # b => tmp'[v] = tmp[v]
    BY <1>3, <1>9, <1>13
  <2>2. \A c \in 1..Len(blocks) : IsSeq(blocks[c].alts)
    BY <1>3, <1>5 DEF BlockOk
  <2> QED
    BY <1>1, <1>2, <1>3, <1>17, <1>8, <1>10, <1>11, <1>15, <2>1, <2>2, phiUsesCounts
<1>20. PhaseInv'
  <2>1. \/ pc' = "uses" /\ Before(at.c)' = B \cup {b}
        \/ pc' = "rename" /\ Before(at.c)' = {} /\ ToSet(live) = B \cup {b}
    BY <1>1, <1>2, <1>17, NextLiveFacts
  <2>2. CASE pc' = "uses" /\ Before(at.c)' = B \cup {b}
    BY <1>18, <1>19, <2>2 DEF PhaseInv
  <2>3. CASE pc' = "rename" /\ Before(at.c)' = {} /\ ToSet(live) = B \cup {b}
    BY <1>1, <1>18, <1>19, <2>3 DEF PhaseInv
  <2> QED
    BY <2>1, <2>2, <2>3
<1> QED
  BY <1>14, <1>16, <1>20 DEF DceInv

LEMMA AltUsesLike ==
    ASSUME NEW bl, NEW cl, NEW B, \A b \in B : Len(cl[b].alts) = Len(bl[b].alts),
           \A b \in B : \A n \in 1..Len(bl[b].alts) :
               /\ cl[b].alts[n].val = bl[b].alts[n].val
               /\ cl[b].alts[n].phi = bl[b].alts[n].phi,
           NEW value, NEW v
    PROVE  AltUses(cl, value, B, v) = AltUses(bl, value, B, v)
<1>1. AltPlaces(cl, B) = AltPlaces(bl, B)
  BY DEF AltPlaces
<1>2. ASSUME NEW u \in AltPlaces(bl, B)
      PROVE  Counts(cl[u[1]].alts[u[2]], value, v) <=> Counts(bl[u[1]].alts[u[2]], value, v)
  <2>1. u[1] \in B /\ u[2] \in 1..Len(bl[u[1]].alts)
    BY DEF AltPlaces
  <2> QED
    BY <2>1 DEF Counts
<1>3. UsingAlts(cl, value, B, v) = UsingAlts(bl, value, B, v)
  BY <1>1, <1>2 DEF UsingAlts
<1> QED
  BY <1>3 DEF AltUses

(* What gets another name in block b.                                      *)
OldInputs(b) ==
    { x \in { y \in (ToSet(blocks[b].code) \ {noVal}) \X (1..2) :
                    y[2] <= nInputs(ops[y[1]].opcode) } :
            Renamed(ops[x[1]].in[x[2]]) # ops[x[1]].in[x[2]] }

OldAlts(b) ==
    { n \in 1..Len(blocks[b].alts) : Renamed(blocks[b].alts[n].val) # blocks[b].alts[n].val }

Becomes(b, v) ==
    Cardinality({ x \in OldInputs(b) : Renamed(ops[x[1]].in[x[2]]) = v })
    + Cardinality({ n \in OldAlts(b) : Renamed(blocks[b].alts[n].val) = v })

RenamedOps(b) ==
    [c \in 1..Len(ops) |-> IF c \notin ToSet(blocks[b].code) THEN ops[c]
                           ELSE [ops[c] EXCEPT !.in = [k \in DOMAIN @ |-> Renamed(@[k])]]]

RenamedAlts(b) ==
    [n \in 1..Len(blocks[b].alts) |-> [blocks[b].alts[n] EXCEPT !.val = Renamed(@)]]

LEMMA OldFinite ==
    ASSUME Shape, NEW b \in 1..Len(blocks)
    PROVE  IsFiniteSet(OldInputs(b)) /\ IsFiniteSet(OldAlts(b))
<1>1. PICK N \in Nat : N = Len(ops)
  BY ShapeFacts
<1>2. BlockOk(ops, blocks[b], b)
  BY ShapeFacts
<1>3. ToSet(blocks[b].code) \subseteq 1..N /\ Len(blocks[b].alts) \in Nat
  <2>1. blocks[b].code \in Seq(1..N) /\ IsSeq(blocks[b].alts)
    BY <1>1, <1>2 DEF BlockOk, CodeOk
  <2> QED
    BY <2>1, SeqElements, IsSeqElements
<1>4. IsFiniteSet(1..N) /\ IsFiniteSet(1..2) /\ IsFiniteSet(1..Len(blocks[b].alts))
  <2>1. 1 \in Int /\ 2 \in Int /\ N \in Int /\ Len(blocks[b].alts) \in Int
    BY <1>3
  <2> QED
    BY <2>1, FS_Interval
<1>5. IsFiniteSet((1..N) \X (1..2))
  BY <1>4, FS_Product
<1>6. OldInputs(b) \subseteq (1..N) \X (1..2)
  BY <1>3 DEF OldInputs
<1>7. OldAlts(b) \subseteq 1..Len(blocks[b].alts)
  BY DEF OldAlts
<1> QED
  BY <1>4, <1>5, <1>6, <1>7, FS_Subset

LEMMA renameEffect ==
    ASSUME rename, NEW b, b = live[at.c]
    PROVE  /\ ops' = RenamedOps(b) /\ blocks' = [blocks EXCEPT ![b].alts = RenamedAlts(b)]
           /\ nUse' = [v \in DOMAIN nUse |-> nUse[v] + Becomes(b, v)]
           /\ progress' = (progress \/ OldInputs(b) # {} \/ OldAlts(b) # {})
  BY DEF rename, OldInputs, OldAlts, Becomes, RenamedOps, RenamedAlts

(* Inputs and values change, operations stay what they are.                *)
LEMMA renameFacts ==
    ASSUME DceInv, rename, NEW b, b = live[at.c]
    PROVE  /\ IsSeq(ops') /\ Len(ops') = Len(ops) /\ IsSeq(blocks') /\ Len(blocks') = Len(blocks)
           /\ nUse' \in [1..Len(ops) -> Int]
           /\ \A v \in 1..Len(ops) :
                 /\ OpOk(ops'[v], Len(blocks))
                 /\ ops'[v].opcode = ops[v].opcode /\ ops'[v].label = ops[v].label
                 /\ ops'[v].block = ops[v].block
                 /\ ops[v].in = << >> => ops'[v].in = << >>
           /\ \A c \in 1..Len(blocks) :
                 /\ DOMAIN blocks'[c] = {"code", "args", "alts", "live"}
                 /\ blocks'[c].code = blocks[c].code /\ blocks'[c].live = blocks[c].live
                 /\ c # b => blocks'[c].alts = blocks[c].alts
           /\ IsSeq(blocks'[b].alts) /\ Len(blocks'[b].alts) = Len(blocks[b].alts)
           /\ \A n \in 1..Len(blocks[b].alts) :
                 /\ DOMAIN blocks'[b].alts[n] = {"phi", "src", "val"}
                 /\ blocks'[b].alts[n].phi = blocks[b].alts[n].phi
<1>1. pc = "rename" /\ Shape /\ nUse \in [1..Len(ops) -> Int]
  BY PhaseFacts DEF rename
<1>2. PICK M, N \in Nat : M = Len(blocks) /\ N = Len(ops)
  BY <1>1, ShapeFacts
<1>3. b \in 1..M
  BY <1>1, <1>2, PhaseFacts
<1>4. PICK code, alts : code = blocks[b].code /\ alts = blocks[b].alts
  OBVIOUS
<1>5. /\ \A v \in 1..N : OpOk(ops[v], M)
      /\ \A c \in 1..M : BlockOk(ops, blocks[c], c)
      /\ DOMAIN blocks = 1..M
  BY <1>1, <1>2, ShapeFacts
<1>6. /\ ops' = [v \in 1..N |->
                    IF v \notin ToSet(code) THEN ops[v]
                    ELSE [ops[v] EXCEPT !.in = [k \in DOMAIN @ |-> Renamed(@[k])]]]
      /\ blocks' = [blocks EXCEPT ![b].alts = [n \in 1..Len(alts) |->
                                                  [alts[n] EXCEPT !.val = Renamed(@)]]]
      /\ nUse' = [v \in DOMAIN nUse |-> nUse[v] + Becomes(b, v)]
  <2>1. /\ ops' = RenamedOps(b) /\ blocks' = [blocks EXCEPT ![b].alts = RenamedAlts(b)]
        /\ nUse' = [v \in DOMAIN nUse |-> nUse[v] + Becomes(b, v)]
    BY renameEffect
  <2> QED
    BY <1>2, <1>4, <2>1 DEF RenamedOps, RenamedAlts
<1>7. ops' = [v \in 1..N |-> ops'[v]]
  BY <1>6
<1>8. IsSeq(ops') /\ Len(ops') = N
  BY <1>7, TupleIsSeq
<1>9. ASSUME NEW v \in 1..N
      PROVE  /\ OpOk(ops'[v], M)
             /\ ops'[v].opcode = ops[v].opcode /\ ops'[v].label = ops[v].label
             /\ ops'[v].block = ops[v].block
             /\ ops[v].in = << >> => ops'[v].in = << >>
  <2>1. OpOk(ops[v], M)
    BY <1>5
  <2>2. CASE v \notin ToSet(code)
    <3>1. ops'[v] = ops[v]
      BY <1>6, <2>2
    <3> QED
      BY <2>1, <3>1
  <2>3. CASE v \in ToSet(code)
    <3>1. PICK in : in = ops[v].in
      OBVIOUS
    <3>2. PICK n \in Nat : n = Len(in) /\ DOMAIN in = 1..n
      BY <2>1, <3>1, IsSeqElements DEF OpOk
    <3>3. PICK out : out = [k \in 1..n |-> Renamed(in[k])]
      OBVIOUS
    <3>4. IsSeq(out) /\ Len(out) = n
      <4>1. out = [k \in 1..n |-> out[k]]
        BY <3>3
      <4> QED
        BY <4>1, TupleIsSeq
    <3>5. ops'[v] = [ops[v] EXCEPT !.in = out]
      BY <1>6, <2>3, <3>1, <3>2, <3>3
    <3>6. /\ DOMAIN ops'[v] = OpFields /\ ops'[v].in = out
          /\ ops'[v].opcode = ops[v].opcode /\ ops'[v].label = ops[v].label
          /\ ops'[v].block = ops[v].block
      BY <2>1, <3>5 DEF OpOk, OpFields
    <3>7. in = << >> => out = << >>
      BY <3>2, <3>4 DEF IsSeq
    <3> QED
      BY <2>1, <3>1, <3>2, <3>4, <3>6, <3>7 DEF OpOk
  <2> QED
    BY <2>2, <2>3
<1>10. PICK new : new = [n \in 1..Len(alts) |-> [alts[n] EXCEPT !.val = Renamed(@)]]
  OBVIOUS
<1>11. /\ blocks' = [c \in 1..M |-> blocks'[c]]
       /\ \A c \in 1..M : /\ DOMAIN blocks'[c] = {"code", "args", "alts", "live"}
                          /\ blocks'[c].code = blocks[c].code
                          /\ blocks'[c].live = blocks[c].live
                          /\ c # b => blocks'[c].alts = blocks[c].alts
       /\ blocks'[b].alts = new
  <2>1. \A c \in 1..M : DOMAIN blocks[c] = {"code", "args", "alts", "live"}
    BY <1>5 DEF BlockOk
  <2>2. blocks' = [blocks EXCEPT ![b].alts = new]
    BY <1>6, <1>10
  <2>3. blocks' = [c \in 1..M |-> blocks'[c]]
    <3>1. blocks = [c \in 1..M |-> blocks[c]]
      BY <1>1, <1>2, ShapeFacts
    <3> QED
      BY <2>2, <3>1
  <2> QED
    BY <1>3, <1>5, <2>1, <2>2, <2>3
<1>12. IsSeq(blocks') /\ Len(blocks') = M
  BY <1>11, TupleIsSeq
<1>13. IsSeq(alts) /\ Len(alts) \in Nat /\ \A n \in 1..Len(alts) : DOMAIN alts[n] = {"phi", "src", "val"}
  <2>1. IsSeq(alts) /\ \A a \in ToSet(alts) : DOMAIN a = {"phi", "src", "val"}
    BY <1>3, <1>4, <1>5 DEF BlockOk, AltOk
  <2> QED
    BY <2>1, IsSeqElements
<1>14. IsSeq(new) /\ Len(new) = Len(alts)
  <2>1. new = [n \in 1..Len(alts) |-> new[n]]
    BY <1>10
  <2> QED
    BY <1>13, <2>1, TupleIsSeq
<1>15. \A n \in 1..Len(alts) : DOMAIN new[n] = {"phi", "src", "val"} /\ new[n].phi = alts[n].phi
  BY <1>10, <1>13
<1>16. nUse' \in [1..N -> Int]
  <2>1. ASSUME NEW v \in 1..N
        PROVE  Becomes(b, v) \in Nat
    <3>1. IsFiniteSet(OldInputs(b)) /\ IsFiniteSet(OldAlts(b))
      BY <1>1, <1>2, <1>3, OldFinite
    <3>2. /\ IsFiniteSet({ x \in OldInputs(b) : Renamed(ops[x[1]].in[x[2]]) = v })
          /\ IsFiniteSet({ n \in OldAlts(b) : Renamed(blocks[b].alts[n].val) = v })
      BY <3>1, FS_Subset
    <3> QED
      BY <3>2, FS_CardinalityType DEF Becomes
  <2>2. \A v \in 1..N : nUse[v] \in Int /\ nUse'[v] \in Int
    BY <1>1, <1>2, <1>6, <2>1
  <2> QED
    BY <1>1, <1>2, <1>6, <2>2
<1> QED
  BY <1>2, <1>4, <1>8, <1>9, <1>11, <1>12, <1>13, <1>14, <1>15, <1>16

(* When nothing has another name, nothing changes.                         *)
LEMMA renameNothing ==
    ASSUME DceInv, rename, NEW b, b = live[at.c], OldInputs(b) = {}, OldAlts(b) = {}
    PROVE  /\ nUse' = nUse /\ \A v \in 1..Len(ops) : ops'[v].in = ops[v].in
           /\ \A n \in 1..Len(blocks[b].alts) :
                 blocks'[b].alts[n].val = blocks[b].alts[n].val
           /\ Unrenamed(b)
<1>1. pc = "rename" /\ Shape /\ nUse \in [1..Len(ops) -> Int]
  BY PhaseFacts DEF rename
<1>2. PICK M, N \in Nat : M = Len(blocks) /\ N = Len(ops)
  BY <1>1, ShapeFacts
<1>3. b \in 1..M
  BY <1>1, <1>2, PhaseFacts
<1>4. PICK code, alts : code = blocks[b].code /\ alts = blocks[b].alts
  OBVIOUS
<1>5. /\ \A v \in 1..N : OpOk(ops[v], M)
      /\ DOMAIN blocks = 1..M /\ BlockOk(ops, blocks[b], b)
  BY <1>1, <1>2, <1>3, ShapeFacts
<1>6. IsSeq(alts) /\ code \in Seq(1..N) /\ ToSet(code) \subseteq 1..N
  <2>1. IsSeq(alts) /\ code \in Seq(1..N)
    BY <1>2, <1>4, <1>5 DEF BlockOk, CodeOk
  <2> QED
    BY <2>1, SeqElements
<1>7. \A n \in 1..Len(alts) : Renamed(alts[n].val) = alts[n].val
  BY <1>4 DEF OldAlts
<1>8. ASSUME NEW v \in ToSet(code)
      PROVE  /\ DOMAIN ops[v].in = 1..Len(ops[v].in)
             /\ \A k \in 1..Len(ops[v].in) : Renamed(ops[v].in[k]) = ops[v].in[k]
  <2>1. PICK n \in 0..2 : n = nInputs(ops[v].opcode)
    BY OpcodeFacts
  <2>2. v \in 1..N /\ OpOk(ops[v], M)
    BY <1>5, <1>6
  <2>3. Len(ops[v].in) = n /\ IsSeq(ops[v].in)
    BY <2>1, <2>2 DEF OpOk
  <2>4. ASSUME NEW k \in 1..n
        PROVE  Renamed(ops[v].in[k]) = ops[v].in[k]
    <3>1. v # noVal /\ k \in 1..2 /\ k <= n
      BY <2>1, <2>2 DEF noVal
    <3>2. PICK x : x = <<v, k>>
      OBVIOUS
    <3>3. x \in { y \in (ToSet(blocks[b].code) \ {noVal}) \X (1..2) :
                         y[2] <= nInputs(ops[y[1]].opcode) }
      BY <1>4, <2>1, <3>1, <3>2
    <3>4. x \notin OldInputs(b)
      OBVIOUS
    <3> QED
      BY <3>2, <3>3, <3>4 DEF OldInputs
  <2> QED
    BY <2>3, <2>4, IsSeqElements
<1>9. \A v \in 1..N : ops'[v].in = ops[v].in
  <2> SUFFICES ASSUME NEW v \in 1..N
               PROVE  ops'[v].in = ops[v].in
    OBVIOUS
  <2>1. ops' = [c \in 1..N |->
                  IF c \notin ToSet(code) THEN ops[c]
                  ELSE [ops[c] EXCEPT !.in = [k \in DOMAIN @ |-> Renamed(@[k])]]]
    BY <1>2, <1>4, renameEffect DEF RenamedOps
  <2>2. CASE v \notin ToSet(code)
    BY <2>1, <2>2
  <2>3. CASE v \in ToSet(code)
    <3>1. PICK in : in = ops[v].in
      OBVIOUS
    <3>2. OpOk(ops[v], M)
      BY <1>5
    <3>3. in = [k \in DOMAIN in |-> in[k]]
      BY <3>1, <3>2 DEF OpOk, IsSeq
    <3>4. [k \in DOMAIN in |-> Renamed(in[k])] = in
      BY <1>8, <2>3, <3>1, <3>3
    <3>5. ops'[v] = [ops[v] EXCEPT !.in = in]
      BY <2>1, <2>3, <3>1, <3>4
    <3>6. "in" \in DOMAIN ops[v]
      BY <3>2 DEF OpOk, OpFields
    <3> QED
      BY <3>1, <3>5, <3>6
  <2> QED
    BY <2>2, <2>3
<1>10. nUse' = nUse
  <2>1. nUse' = [v \in DOMAIN nUse |-> nUse[v] + Becomes(b, v)]
    BY renameEffect
  <2>2. \A v : /\ { x \in OldInputs(b) : Renamed(ops[x[1]].in[x[2]]) = v } = {}
               /\ { n \in OldAlts(b) : Renamed(blocks[b].alts[n].val) = v } = {}
    OBVIOUS
  <2>3. \A v : Becomes(b, v) = 0
    BY <2>2, FS_EmptySet DEF Becomes
  <2>4. \A v \in 1..N : nUse'[v] = nUse[v]
    BY <1>1, <1>2, <2>1, <2>3
  <2> QED
    BY <1>1, <1>2, <2>1, <2>4
<1>11. \A n \in 1..Len(alts) : blocks'[b].alts[n].val = alts[n].val
  <2>1. PICK new : new = [n \in 1..Len(alts) |-> [alts[n] EXCEPT !.val = Renamed(@)]]
    OBVIOUS
  <2>3. blocks' = [blocks EXCEPT ![b].alts = new]
    <3>1. blocks' = [blocks EXCEPT ![b].alts = RenamedAlts(b)]
      BY renameEffect
    <3>2. RenamedAlts(b) = new
      BY <1>4, <2>1 DEF RenamedAlts
    <3> QED
      BY <3>1, <3>2
  <2>4. blocks'[b].alts = new
    BY <1>3, <1>5, <2>3 DEF BlockOk
  <2>5. \A n \in 1..Len(alts) : DOMAIN alts[n] = {"phi", "src", "val"}
    <3>1. \A a \in ToSet(alts) : DOMAIN a = {"phi", "src", "val"}
      BY <1>4, <1>5 DEF BlockOk, AltOk
    <3> QED
      BY <1>6, <3>1, IsSeqElements
  <2> QED
    BY <1>7, <2>1, <2>4, <2>5
<1>12. Unrenamed(b)
  <2> SUFFICES ASSUME NEW p \in 1..N, ops[p].opcode = "phi", tmp[p] # p
               PROVE  Unused(p, b)
    BY <1>2 DEF Unrenamed
  <2>1. Renamed(p) # p
    BY DEF Renamed
  <2>2. \A i \in ToSet(code) : p \notin ToSet(ops[i].in)
    <3> SUFFICES ASSUME NEW i \in ToSet(code), p \in ToSet(ops[i].in)
                 PROVE  FALSE
      OBVIOUS
    <3>1. IsSeq(ops[i].in)
      BY <1>5, <1>6 DEF OpOk
    <3>2. PICK k \in 1..Len(ops[i].in) : p = ops[i].in[k]
      BY <3>1, IsSeqElements
    <3> QED
      BY <1>8, <2>1, <3>2
  <2>3. \A a \in ToSet(alts) : a.val # p
    BY <1>6, <1>7, <2>1, IsSeqElements
  <2> QED
    BY <1>4, <2>2, <2>3 DEF Unused
<1> QED
  BY <1>2, <1>4, <1>9, <1>10, <1>11, <1>12

LEMMA renameKeeps ==
    ASSUME DceInv, rename
    PROVE  DceInv'
<1>1. /\ pc = "rename" /\ live' = live /\ tmp' = tmp /\ NextLive("sweep")
      /\ pc \in {"uses", "rename", "sweep"}
  BY DEF rename
<1>2. PICK b : b = live[at.c]
  OBVIOUS
<1>3. PICK M, N \in Nat : M = Len(blocks) /\ N = Len(ops)
  BY <1>1, PhaseFacts, ShapeFacts
<1>4. PICK B : B = Before(at.c)
  OBVIOUS
<1>5. PICK L : L = ToSet(live)
  OBVIOUS
<1>6. b \in L /\ L \subseteq 1..M /\ B \subseteq L /\ b \notin B
  BY <1>1, <1>2, <1>3, <1>4, <1>5, PhaseFacts
<1>7. ProcOk(ops, blocks) /\ DOMAIN tmp = 1..N /\ progress \in BOOLEAN
  BY <1>1, <1>3, PhaseFacts DEF Shape
<1>8. /\ IsSeq(ops') /\ Len(ops') = N /\ IsSeq(blocks') /\ Len(blocks') = M
      /\ nUse' \in [1..N -> Int]
      /\ \A v \in 1..N : /\ OpOk(ops'[v], M)
                         /\ ops'[v].opcode = ops[v].opcode /\ ops'[v].label = ops[v].label
                         /\ ops'[v].block = ops[v].block
                         /\ ops[v].in = << >> => ops'[v].in = << >>
  BY <1>2, <1>3, renameFacts
<1>9. /\ \A c \in 1..M : /\ DOMAIN blocks'[c] = {"code", "args", "alts", "live"}
                         /\ blocks'[c].code = blocks[c].code
                         /\ blocks'[c].live = blocks[c].live
                         /\ c # b => blocks'[c].alts = blocks[c].alts
      /\ IsSeq(blocks'[b].alts) /\ Len(blocks'[b].alts) = Len(blocks[b].alts)
      /\ \A n \in 1..Len(blocks[b].alts) :
            /\ DOMAIN blocks'[b].alts[n] = {"phi", "src", "val"}
            /\ blocks'[b].alts[n].phi = blocks[b].alts[n].phi
  BY <1>2, <1>3, renameFacts
<1>10. /\ \A c \in 1..M : IsSeq(blocks[c].alts) /\ IsSeq(blocks'[c].alts)
       /\ \A c \in 1..M : Len(blocks'[c].alts) = Len(blocks[c].alts)
       /\ \A c \in 1..M : \A n \in 1..Len(blocks[c].alts) :
             blocks'[c].alts[n].phi = blocks[c].alts[n].phi
  <2>1. \A c \in 1..M : IsSeq(blocks[c].alts)
    BY <1>3, <1>7 DEF ProcOk, BlockOk
  <2> QED
    BY <1>9, <2>1
<1>11. ASSUME NEW c \in 1..M, NEW a \in ToSet(blocks'[c].alts)
       PROVE  \E n \in 1..Len(blocks[c].alts) :
                 /\ a = blocks'[c].alts[n] /\ a.phi = blocks[c].alts[n].phi
                 /\ blocks[c].alts[n] \in ToSet(blocks[c].alts)
  <2>1. PICK n \in 1..Len(blocks'[c].alts) : a = blocks'[c].alts[n]
    BY <1>10, IsSeqElements
  <2>2. n \in 1..Len(blocks[c].alts)
    BY <1>10, <2>1
  <2>3. blocks[c].alts[n] \in ToSet(blocks[c].alts)
    BY <1>10, <2>2, IsSeqElements
  <2> QED
    BY <1>10, <2>1, <2>2, <2>3
<1>12. Shape'
  <2>1. ProcOk(ops', blocks)
    BY <1>3, <1>7, <1>8, OpsKept
  <2>2. ASSUME NEW c \in 1..M
        PROVE  BlockOk(ops', blocks'[c], c)
    <3>1. BlockOk(ops', blocks[c], c)
      BY <1>3, <2>1 DEF ProcOk
    <3>2. ASSUME NEW a \in ToSet(blocks'[c].alts)
          PROVE  AltOk(ops', blocks[c].code, a, c)
      <4>1. CASE c # b
        BY <1>9, <3>1, <4>1 DEF BlockOk
      <4>2. CASE c = b
        <5>1. PICK n \in 1..Len(blocks[c].alts) :
                 /\ a = blocks'[c].alts[n] /\ a.phi = blocks[c].alts[n].phi
                 /\ blocks[c].alts[n] \in ToSet(blocks[c].alts)
          BY <1>11
        <5>2. AltOk(ops', blocks[c].code, blocks[c].alts[n], c)
          BY <3>1, <5>1 DEF BlockOk
        <5>3. DOMAIN a = {"phi", "src", "val"}
          BY <1>9, <4>2, <5>1
        <5> QED
          BY <5>1, <5>2, <5>3 DEF AltOk
      <4> QED
        BY <4>1, <4>2
    <3> QED
      BY <1>9, <1>10, <3>1, <3>2 DEF BlockOk
  <2> QED
    BY <1>3, <1>8, <2>1, <2>2 DEF Shape, ProcOk
<1>13. CodeOf(L)' = CodeOf(L) /\ CodeOf(L) \subseteq 1..N
  <2>1. CodeOf(L)' = CodeOf(L)
    BY <1>6, <1>9 DEF CodeOf
  <2> QED
    BY <1>3, <1>6, <1>7, <2>1, CodeOfFacts DEF Shape
<1>14. TypeInv' /\ FrontInv' /\ LiveInv' /\ WalkInv' /\ WalkCounts'
  <2>1. \A i \in CodeOf(L)' : Goes(i, L)'
    BY <1>1, <1>5, <1>8, <1>13, PhaseFacts DEF Goes
  <2>2. progress' \in BOOLEAN
    BY <1>7, renameEffect
  <2> QED
    BY <1>1, <1>3, <1>5, <1>7, <1>8, <1>9, <2>1, <2>2, PhaseKeeps
<1>15. \A c \in L : Cleaned(c)'
  <2> SUFFICES ASSUME NEW c \in L, NEW a \in ToSet(blocks'[c].alts)
               PROVE  ops'[a.phi].opcode # "nop"
    BY DEF Cleaned
  <2>1. c \in 1..M
    BY <1>6
  <2>2. PICK n \in 1..Len(blocks[c].alts) :
           a.phi = blocks[c].alts[n].phi /\ blocks[c].alts[n] \in ToSet(blocks[c].alts)
    BY <1>11, <2>1
  <2>3. a.phi \in 1..N
    BY <1>3, <1>7, <2>1, <2>2 DEF ProcOk, BlockOk, AltOk
  <2>4. Cleaned(c)
    BY <1>1, <1>5 DEF DceInv, PhaseInv
  <2> QED
    BY <1>8, <2>2, <2>3, <2>4 DEF Cleaned
<1>16. ASSUME ~progress'
       PROVE  /\ ~progress /\ Unrenamed(b) /\ nUse' = nUse
              /\ \A v \in 1..N : ops'[v].in = ops[v].in
              /\ \A c \in 1..M : \A n \in 1..Len(blocks[c].alts) :
                    blocks'[c].alts[n].val = blocks[c].alts[n].val
  <2>1. progress' = (progress \/ OldInputs(b) # {} \/ OldAlts(b) # {})
    BY <1>2, renameEffect
  <2>2. ~progress /\ OldInputs(b) = {} /\ OldAlts(b) = {}
    BY <1>16, <2>1
  <2>3. /\ Unrenamed(b) /\ nUse' = nUse /\ \A v \in 1..N : ops'[v].in = ops[v].in
        /\ \A n \in 1..Len(blocks[b].alts) : blocks'[b].alts[n].val = blocks[b].alts[n].val
    BY <1>2, <1>3, <2>2, renameNothing
  <2> QED
    BY <1>9, <2>2, <2>3
<1>17. ASSUME ~progress'
       PROVE  CountedTo(L)'
  <2>1. CountedTo(L)
    BY <1>1, <1>5, <1>16, <1>17 DEF DceInv, PhaseInv
  <2>2. \A v : InUses(ops', CodeOf(L), v) = InUses(ops, CodeOf(L), v)
    <3>1. \A i \in CodeOf(L) : ops'[i].in = ops[i].in
      BY <1>13, <1>16, <1>17
    <3> QED
      BY <3>1, InUsesSame
  <2>3. \A v : AltUses(blocks', tmp, L, v) = AltUses(blocks, tmp, L, v)
    <3>1. \A c \in L : Len(blocks'[c].alts) = Len(blocks[c].alts)
      BY <1>6, <1>10
    <3>2. \A c \in L : \A n \in 1..Len(blocks[c].alts) :
               /\ blocks'[c].alts[n].val = blocks[c].alts[n].val
               /\ blocks'[c].alts[n].phi = blocks[c].alts[n].phi
      BY <1>6, <1>10, <1>16, <1>17
    <3> QED
      BY <3>1, <3>2, AltUsesLike
  <2>4. nUse' = nUse
    BY <1>16, <1>17
  <2> QED
    BY <1>1, <1>5, <1>13, <2>1, <2>2, <2>3, <2>4 DEF CountedTo
<1>18. ASSUME ~progress'
       PROVE  \A c \in B \cup {b} : Unrenamed(c)'
  <2> SUFFICES ASSUME NEW c \in B \cup {b}, NEW p \in 1..N,
                      ops'[p].opcode = "phi", tmp[p] # p
               PROVE  Unused(p, c)'
    BY <1>1, <1>8 DEF Unrenamed
  <2>1. c \in 1..M /\ c \in L
    BY <1>6
  <2>2. Unrenamed(c)
    BY <1>1, <1>4, <1>16, <1>18 DEF DceInv, PhaseInv
  <2>3. Unused(p, c)
    BY <1>3, <1>8, <2>2 DEF Unrenamed
  <2>4. \A i \in ToSet(blocks'[c].code) : p \notin ToSet(ops'[i].in)
    <3>1. \A i \in ToSet(blocks[c].code) : i \in 1..N
      BY <1>13, <2>1 DEF CodeOf
    <3>2. \A i \in ToSet(blocks[c].code) : ops'[i].in = ops[i].in
      BY <1>16, <1>18, <3>1
    <3> QED
      BY <1>9, <2>1, <2>3, <3>2 DEF Unused
  <2>5. \A a \in ToSet(blocks'[c].alts) : a.val # p
    <3> SUFFICES ASSUME NEW a \in ToSet(blocks'[c].alts)
                 PROVE  a.val # p
      OBVIOUS
    <3>1. PICK n \in 1..Len(blocks[c].alts) :
             a = blocks'[c].alts[n] /\ blocks[c].alts[n] \in ToSet(blocks[c].alts)
      BY <1>11, <2>1
    <3>2. a.val = blocks[c].alts[n].val
      BY <1>16, <1>18, <2>1, <3>1
    <3> QED
      BY <2>3, <3>1, <3>2 DEF Unused
  <2> QED
    BY <2>4, <2>5 DEF Unused
<1>19. PhaseInv'
  <2>1. \/ pc' = "rename" /\ Before(at.c)' = B \cup {b}
        \/ pc' = "sweep" /\ Before(at.c)' = {} /\ L = B \cup {b}
    BY <1>1, <1>2, <1>4, <1>5, NextLiveFacts
  <2>2. CASE pc' = "rename" /\ Before(at.c)' = B \cup {b}
    BY <1>1, <1>5, <1>15, <1>17, <1>18, <2>2 DEF PhaseInv
  <2>3. CASE pc' = "sweep" /\ Before(at.c)' = {} /\ L = B \cup {b}
    BY <1>1, <1>5, <1>15, <1>17, <1>18, <2>3 DEF PhaseInv
  <2> QED
    BY <2>1, <2>2, <2>3
<1> QED
  BY <1>12, <1>14, <1>19 DEF DceInv

(* What stays of code after the sweep has come to state s.                 *)
Stays(code, s) ==
    { c \in ToSet(code) : /\ c # noVal /\ s.ops[c].opcode # "nop"
                          /\ hasSideFX(s.ops[c].opcode) \/ s.nUse[c] # 0 }

LEMMA sweepEffect ==
    ASSUME sweep, NEW b, b = live[at.c], NEW code, code = blocks[b].code, NEW s, s = Swept(code)
    PROVE  /\ ops' = s.ops /\ nUse' = s.nUse
           /\ blocks' = [blocks EXCEPT ![b].code = Keep(code, Stays(code, s))]
           /\ progress' = (progress \/ Keep(code, Stays(code, s)) # code)
<1>1. PICK c \in {blocks[live[at.c]].code} :
        \E swept \in {Swept(c)} :
        \E kept \in {Keep(c, { i \in ToSet(c) :
                      /\ i # noVal /\ swept.ops[i].opcode # "nop"
                      /\ hasSideFX(swept.ops[i].opcode) \/ swept.nUse[i] # 0 })} :
          /\ ops' = swept.ops
          /\ nUse' = swept.nUse
          /\ blocks' = [blocks EXCEPT ![live[at.c]].code = kept]
          /\ progress' = (progress \/ kept # c)
  BY DEF sweep
<1>2. c = code
  BY <1>1
<1>3. PICK swept \in {Swept(c)} :
        \E kept \in {Keep(c, Stays(c, swept))} :
          /\ ops' = swept.ops
          /\ nUse' = swept.nUse
          /\ blocks' = [blocks EXCEPT ![live[at.c]].code = kept]
          /\ progress' = (progress \/ kept # c)
  BY <1>1 DEF Stays
<1>4. swept = s
  BY <1>2, <1>3
<1>5. PICK kept \in {Keep(c, Stays(c, swept))} :
          /\ ops' = swept.ops
          /\ nUse' = swept.nUse
          /\ blocks' = [blocks EXCEPT ![live[at.c]].code = kept]
          /\ progress' = (progress \/ kept # c)
  BY <1>3
<1>6. kept = Keep(code, Stays(code, s))
  BY <1>2, <1>4, <1>5
<1> QED
  BY <1>2, <1>4, <1>5, <1>6

LEMMA sweepKeeps ==
    ASSUME DceInv, sweep
    PROVE  DceInv'
<1>1. /\ pc = "sweep" /\ live' = live /\ tmp' = tmp /\ NextLive("round")
      /\ pc \in {"uses", "rename", "sweep"}
  BY DEF sweep
<1>2. PICK b : b = live[at.c]
  OBVIOUS
<1>3. PICK M, N \in Nat : M = Len(blocks) /\ N = Len(ops)
  BY <1>1, PhaseFacts, ShapeFacts
<1>4. PICK B : B = Before(at.c)
  OBVIOUS
<1>5. PICK L : L = ToSet(live)
  OBVIOUS
<1>6. b \in L /\ L \subseteq 1..M /\ B \subseteq L /\ b \notin B
  BY <1>1, <1>2, <1>3, <1>4, <1>5, PhaseFacts
<1>7. /\ ProcOk(ops, blocks) /\ DOMAIN tmp = 1..N /\ progress \in BOOLEAN
      /\ nUse \in [1..N -> Int]
  BY <1>1, <1>3, PhaseFacts DEF Shape
<1>8. PICK code : code = blocks[b].code
  OBVIOUS
<1>9. PICK s : s = Swept(code)
  OBVIOUS
<1>10. PICK kept : kept = Keep(code, Stays(code, s))
  OBVIOUS
<1>11. /\ ops' = s.ops /\ nUse' = s.nUse
       /\ blocks' = [blocks EXCEPT ![b].code = kept]
       /\ progress' = (progress \/ kept # code)
  BY <1>2, <1>8, <1>9, <1>10, sweepEffect
<1>12. /\ CodeOk(ops, code, b) /\ IsSeq(code) /\ ToSet(code) \subseteq 1..N /\ Len(code) \in Nat
       /\ IsSeq(ops) /\ \A v \in 1..N : OpOk(ops[v], M)
       /\ blocks = [c \in 1..M |-> blocks[c]]
       /\ \A c \in 1..M : BlockOk(ops, blocks[c], c)
  <2>1. CodeOk(ops, code, b)
    BY <1>3, <1>6, <1>7, <1>8 DEF ProcOk, BlockOk
  <2>2. code \in Seq(1..N)
    BY <1>3, <2>1 DEF CodeOk
  <2>3. Shape
    BY <1>7 DEF Shape
  <2> QED
    BY <1>3, <2>1, <2>2, <2>3, SeqElements, ShapeFacts
<1>13. s \in SweptTo(code, Len(code))
  BY <1>3, <1>7, <1>9, <1>12, SweptFacts
<1>14. Handled(code, Len(code)) = ToSet(code)
  <2>1. PICK l \in Nat : l = Len(code)
    BY <1>12
  <2>2. \A m \in 1..l : l + 1 - m \in 1..l /\ l + 1 - (l + 1 - m) = m
    OBVIOUS
  <2>3. /\ \A k \in 1..l : code[k] \in ToSet(code)
        /\ \A x \in ToSet(code) : \E k \in 1..l : x = code[k]
    BY <1>12, <2>1, IsSeqElements
  <2>4. Handled(code, l) = { code[l + 1 - m] : m \in 1..l }
    BY <2>1 DEF Handled
  <2>5. Handled(code, l) \subseteq ToSet(code)
    BY <2>2, <2>3, <2>4
  <2>6. ASSUME NEW x \in ToSet(code)
        PROVE  x \in Handled(code, l)
    <3>1. PICK k \in 1..l : x = code[k]
      BY <2>3
    <3>2. PICK m \in 1..l : m = l + 1 - k /\ l + 1 - m = k
      BY <2>2
    <3> QED
      BY <2>4, <3>1, <3>2
  <2> QED
    BY <2>1, <2>5, <2>6
<1>15. /\ s.nUse \in [1..N -> Int] /\ s.ops = [v \in 1..N |-> s.ops[v]]
       /\ \A v \in 1..N : s.ops[v] \in {ops[v], makeNOP(ops[v])}
       /\ \/ s.ops = ops /\ s.nUse = nUse
          \/ \E i \in ToSet(code) : s.ops[i].opcode = "nop"
       /\ \A i \in ToSet(code) : s.ops[i].opcode = "phi" => s.nUse[i] # 0
  BY <1>3, <1>13, <1>14 DEF SweptTo, SweepStates
<1>16. \A v \in 1..N :
          /\ OpOk(s.ops[v], M) /\ s.ops[v].block = ops[v].block
          /\ ops[v].in = << >> => s.ops[v].in = << >>
          /\ s.ops[v].opcode # "nop" => s.ops[v] = ops[v]
  <2> SUFFICES ASSUME NEW v \in 1..N
               PROVE  /\ OpOk(s.ops[v], M) /\ s.ops[v].block = ops[v].block
                      /\ ops[v].in = << >> => s.ops[v].in = << >>
                      /\ s.ops[v].opcode # "nop" => s.ops[v] = ops[v]
    OBVIOUS
  <2>1. OpOk(ops[v], M) /\ s.ops[v] \in {ops[v], makeNOP(ops[v])}
    BY <1>12, <1>15
  <2>2. /\ makeNOP(ops[v]).opcode = "nop" /\ makeNOP(ops[v]).in = << >>
        /\ makeNOP(ops[v]).block = ops[v].block /\ OpOk(makeNOP(ops[v]), M)
    BY <2>1, NopFacts
  <2> QED
    BY <2>1, <2>2
<1>17. IsSeq(ops') /\ Len(ops') = N
  BY <1>11, <1>15, TupleIsSeq
<1>18. ProcOk(ops', blocks)
  <2>1. \A v \in 1..N : /\ OpOk(ops'[v], M) /\ ops'[v].block = ops[v].block
                        /\ ops[v].in = << >> => ops'[v].in = << >>
                        /\ ops'[v].opcode # "nop" =>
                              /\ ops[v].opcode # "nop"
                              /\ ops[v].opcode = "phi" <=> ops'[v].opcode = "phi"
    BY <1>11, <1>16
  <2> QED
    BY <1>3, <1>7, <1>17, <2>1, OpsKept
<1>19. CodeOk(ops', kept, b) /\ ToSet(kept) = ToSet(code) \cap Stays(code, s)
  <2>1. CodeOk(ops', code, b)
    BY <1>3, <1>6, <1>8, <1>18 DEF ProcOk, BlockOk
  <2> QED
    BY <1>10, <2>1, CodeOkKept
<1>20. /\ blocks' = [c \in 1..M |-> blocks'[c]]
       /\ \A c \in 1..M : /\ DOMAIN blocks'[c] = {"code", "args", "alts", "live"}
                          /\ blocks'[c].alts = blocks[c].alts
                          /\ blocks'[c].live = blocks[c].live
                          /\ c # b => blocks'[c].code = blocks[c].code
       /\ blocks'[b].code = kept
  <2>1. \A c \in 1..M : DOMAIN blocks[c] = {"code", "args", "alts", "live"}
    BY <1>12 DEF BlockOk
  <2> QED
    BY <1>6, <1>11, <1>12, <2>1
<1>21. IsSeq(blocks') /\ Len(blocks') = M
  BY <1>20, TupleIsSeq
<1>22. Shape'
  <2>1. ASSUME NEW c \in 1..M
        PROVE  BlockOk(ops', blocks'[c], c)
    <3>1. BlockOk(ops', blocks[c], c)
      BY <1>3, <1>18, <2>1 DEF ProcOk
    <3>2. CASE c # b
      BY <1>20, <2>1, <3>1, <3>2 DEF BlockOk
    <3>3. CASE c = b
      <4>1. ASSUME NEW a \in ToSet(blocks[c].alts)
            PROVE  AltOk(ops', kept, a, c)
        <5>1. AltOk(ops', code, a, c)
          BY <1>8, <3>1, <3>3 DEF BlockOk
        <5>2. ASSUME ops'[a.phi].opcode # "nop"
              PROVE  a.phi \in ToSet(kept)
          <6>1. a.phi \in ToSet(code) /\ ops'[a.phi].opcode = "phi"
            BY <5>1, <5>2 DEF AltOk
          <6>2. a.phi # noVal
            BY <1>12, <6>1 DEF noVal
          <6>3. s.nUse[a.phi] # 0
            BY <1>11, <1>15, <6>1
          <6>4. a.phi \in Stays(code, s)
            BY <1>11, <5>2, <6>1, <6>2, <6>3 DEF Stays
          <6> QED
            BY <1>19, <6>1, <6>4
        <5> QED
          BY <5>1, <5>2 DEF AltOk
      <4> QED
        BY <1>19, <1>20, <2>1, <3>1, <3>3, <4>1 DEF BlockOk
    <3> QED
      BY <3>2, <3>3
  <2> QED
    BY <1>3, <1>17, <1>18, <1>21, <2>1 DEF Shape, ProcOk
<1>23. CodeOf(L) \subseteq 1..N /\ CodeOf(L)' \subseteq CodeOf(L)
  <2>1. CodeOf(L) \subseteq 1..N
    BY <1>3, <1>6, <1>7, CodeOfFacts DEF Shape
  <2>2. \A c \in L : ToSet(blocks'[c].code) \subseteq ToSet(blocks[c].code)
    BY <1>6, <1>8, <1>19, <1>20
  <2> QED
    BY <2>1, <2>2 DEF CodeOf
<1>24. TypeInv' /\ FrontInv' /\ LiveInv' /\ WalkInv' /\ WalkCounts'
  <2>1. ASSUME NEW i \in CodeOf(L)', ops'[i].opcode \in Jumps
        PROVE  ToSet(ops'[i].label) \subseteq L
    <3>1. i \in 1..N /\ i \in CodeOf(L)
      BY <1>23, <2>1
    <3>2. ops'[i] = ops[i]
      BY <1>11, <1>16, <2>1, <3>1, OpcodeFacts
    <3>3. Goes(i, L)
      BY <1>1, <1>5, <3>1, PhaseFacts
    <3> QED
      BY <2>1, <3>2, <3>3 DEF Goes
  <2>2. \A i \in CodeOf(L)' : Goes(i, L)'
    BY <2>1 DEF Goes
  <2>3. progress' \in BOOLEAN
    BY <1>7, <1>11
  <2> QED
    BY <1>1, <1>3, <1>5, <1>7, <1>11, <1>15, <1>17, <1>20, <1>21, <2>2, <2>3, PhaseKeeps
<1>25. ASSUME ~progress'
       PROVE  /\ ~progress /\ ops' = ops /\ nUse' = nUse
              /\ \A c \in 1..M : blocks'[c].code = blocks[c].code
              /\ Needed(b)
  <2>1. ~progress /\ kept = code
    BY <1>11, <1>25
  <2>2. ToSet(code) \subseteq Stays(code, s)
    BY <1>19, <2>1
  <2>3. \A i \in ToSet(code) : /\ s.ops[i].opcode # "nop"
                               /\ hasSideFX(s.ops[i].opcode) \/ s.nUse[i] # 0
    BY <2>2 DEF Stays
  <2>4. s.ops = ops /\ s.nUse = nUse
    BY <1>15, <2>3
  <2> QED
    BY <1>8, <1>11, <1>20, <2>1, <2>3, <2>4 DEF Needed
<1>26. ASSUME ~progress'
       PROVE  /\ CountedTo(L)'
              /\ \A c \in L : Cleaned(c)' /\ Unrenamed(c)'
              /\ \A c \in B \cup {b} : Needed(c)'
  <2>1. ~progress /\ ops' = ops /\ nUse' = nUse /\ Needed(b)
    BY <1>25, <1>26
  <2>2. \A c \in L : blocks'[c].code = blocks[c].code /\ blocks'[c].alts = blocks[c].alts
    BY <1>6, <1>20, <1>25, <1>26
  <2>3. /\ CountedTo(L)
        /\ \A c \in L : Cleaned(c) /\ Unrenamed(c)
        /\ \A c \in B : Needed(c)
    BY <1>1, <1>4, <1>5, <2>1 DEF DceInv, PhaseInv
  <2>4. CodeOf(L)' = CodeOf(L)
    BY <2>2 DEF CodeOf
  <2>5. \A v : AltUses(blocks', tmp, L, v) = AltUses(blocks, tmp, L, v)
    <3>1. \A c \in L : IsSeq(blocks[c].alts) /\ blocks'[c].alts = blocks[c].alts
      BY <1>6, <1>12, <2>2 DEF BlockOk
    <3> QED
      BY <3>1, AltUsesSame
  <2>6. CountedTo(L)'
    BY <1>1, <1>5, <2>1, <2>3, <2>4, <2>5 DEF CountedTo
  <2>7. \A c \in L : Cleaned(c)' /\ Unrenamed(c)'
    BY <1>1, <2>1, <2>2, <2>3 DEF Cleaned, Unrenamed, Unused
  <2>8. \A c \in B \cup {b} : Needed(c)'
    BY <1>6, <2>1, <2>2, <2>3 DEF Needed
  <2> QED
    BY <2>6, <2>7, <2>8
<1>27. PhaseInv'
  <2>1. \/ pc' = "sweep" /\ Before(at.c)' = B \cup {b}
        \/ pc' = "round" /\ Before(at.c)' = {} /\ L = B \cup {b}
    BY <1>1, <1>2, <1>4, <1>5, NextLiveFacts
  <2>2. CASE pc' = "sweep" /\ Before(at.c)' = B \cup {b}
    BY <1>1, <1>5, <1>26, <2>2 DEF PhaseInv
  <2>3. CASE pc' = "round" /\ Before(at.c)' = {} /\ L = B \cup {b}
    BY <1>1, <1>5, <1>26, <2>3 DEF PhaseInv
  <2> QED
    BY <2>1, <2>2, <2>3
<1> QED
  BY <1>22, <1>24, <1>27 DEF DceInv

-----------------------------------------------------------------------------
(* The counts that the pass leaves.                                        *)

(* The phis that have alternatives are those of the block, and have no     *)
(* other name: one that had would not be used, and not be there.           *)
LEMMA PhisStay ==
    ASSUME DceInv, pc = "done", NEW b \in ToSet(live), NEW a \in ToSet(blocks[b].alts)
    PROVE  tmp[a.phi] = a.phi
<1>1. PICK L : L = ToSet(live)
  OBVIOUS
<1>2. /\ Shape /\ CountedTo(L)
      /\ \A c \in L : Cleaned(c) /\ Unrenamed(c) /\ Needed(c)
  BY <1>1 DEF DceInv, PhaseInv
<1>3. PICK M, N \in Nat : M = Len(blocks) /\ N = Len(ops)
  BY <1>2, ShapeFacts
<1>4. L \subseteq 1..M
  BY <1>1, <1>3, SeqElements DEF DceInv, LiveInv
<1>5. AltOk(ops, blocks[b].code, a, b)
  <2>1. BlockOk(ops, blocks[b], b)
    BY <1>1, <1>2, <1>3, <1>4, ShapeFacts
  <2> QED
    BY <2>1 DEF BlockOk
<1>6. PICK p \in 1..N : p = a.phi
  BY <1>3, <1>5 DEF AltOk
<1>7. ops[p].opcode = "phi" /\ p \in ToSet(blocks[b].code)
  BY <1>1, <1>2, <1>5, <1>6 DEF AltOk, Cleaned
<1>8. SUFFICES ASSUME tmp[p] # p
               PROVE  FALSE
  BY <1>6
<1>9. \A c \in L : Unused(p, c)
  BY <1>2, <1>3, <1>7, <1>8 DEF Unrenamed
<1>10. p \in CodeOf(L)
  BY <1>1, <1>7 DEF CodeOf
<1>11. InUses(ops, CodeOf(L), p) = 0
  <2>1. ASSUME NEW u \in InPlaces(ops, CodeOf(L), p)
        PROVE  FALSE
    <3>1. /\ u[1] \in CodeOf(L) /\ u[2] \in 1..2
          /\ u[2] <= Len(ops[u[1]].in) /\ ops[u[1]].in[u[2]] = p
      BY <2>1 DEF InPlaces
    <3>2. PICK c \in L : u[1] \in ToSet(blocks[c].code)
      BY <3>1 DEF CodeOf
    <3>3. p \notin ToSet(ops[u[1]].in)
      BY <1>9, <3>2 DEF Unused
    <3>4. u[1] \in 1..N
      BY <1>2, <1>3, <1>4, <3>1, CodeOfFacts
    <3>5. IsSeq(ops[u[1]].in)
      BY <1>2, <1>3, <3>4, ShapeFacts DEF OpOk
    <3>6. u[2] \in 1..Len(ops[u[1]].in)
      BY <3>1, <3>5, IsSeqElements
    <3> QED
      BY <3>1, <3>3, <3>5, <3>6, IsSeqElements
  <2>2. InPlaces(ops, CodeOf(L), p) = {}
    BY <2>1
  <2> QED
    BY <2>2, FS_EmptySet DEF InUses
<1>12. AltUses(blocks, tmp, L, p) = 0
  <2>1. ASSUME NEW u \in UsingAlts(blocks, tmp, L, p)
        PROVE  FALSE
    <3>1. /\ u[1] \in L /\ u[2] \in 1..Len(blocks[u[1]].alts)
          /\ blocks[u[1]].alts[u[2]].val = p
      BY <2>1 DEF UsingAlts, AltPlaces, Counts
    <3>2. IsSeq(blocks[u[1]].alts)
      BY <1>2, <1>3, <1>4, <3>1, ShapeFacts DEF BlockOk
    <3>3. blocks[u[1]].alts[u[2]] \in ToSet(blocks[u[1]].alts)
      BY <3>1, <3>2, IsSeqElements
    <3> QED
      BY <1>9, <3>1, <3>3 DEF Unused
  <2>2. UsingAlts(blocks, tmp, L, p) = {}
    BY <2>1
  <2> QED
    BY <2>2, FS_EmptySet DEF AltUses
<1>13. nUse[p] = 0
  BY <1>1, <1>2, <1>10, <1>11, <1>12 DEF CountedTo
<1>14. nUse[p] # 0
  BY <1>1, <1>2, <1>7, OpcodeFacts DEF Needed
<1> QED
  BY <1>13, <1>14

LEMMA CountsExact ==
    ASSUME DceInv
    PROVE  UseCountsExact
<1> SUFFICES ASSUME pc = "done", NEW b \in ToSet(live), NEW v \in ToSet(blocks[b].code)
             PROVE  nUse[v] = Uses(v)
  BY DEF UseCountsExact
<1>1. PICK L : L = ToSet(live)
  OBVIOUS
<1>2. Shape /\ CountedTo(L)
  BY <1>1 DEF DceInv, PhaseInv
<1>3. PICK M, N \in Nat : M = Len(blocks) /\ N = Len(ops)
  BY <1>2, ShapeFacts
<1>4. L \subseteq 1..M
  BY <1>1, <1>3, SeqElements DEF DceInv, LiveInv
<1>5. PICK C : C = CodeOf(L)
  OBVIOUS
<1>6. C \subseteq 1..N /\ IsFiniteSet(C) /\ \A i \in C : ops[i].block \in L
  BY <1>2, <1>3, <1>4, <1>5, CodeOfFacts
<1>7. nUse[v] = InUses(ops, C, v) + AltUses(blocks, tmp, L, v)
  <2>1. v \in C
    BY <1>1, <1>5 DEF CodeOf
  <2> QED
    BY <1>1, <1>2, <1>5, <2>1 DEF CountedTo
<1>8. PICK S : S = InPlaces(ops, C, v)
  OBVIOUS
<1>9. PICK T : T = { u \in L \X (1..N) \X (1..2) :
                        /\ u[2] \in ToSet(blocks[u[1]].code)
                        /\ u[3] <= Len(ops[u[2]].in) /\ ops[u[2]].in[u[3]] = v }
  OBVIOUS
<1>10. \A c \in L : \A i \in ToSet(blocks[c].code) : i \in C /\ ops[i].block = c
  <2>1. \A c \in L : BlockOk(ops, blocks[c], c)
    BY <1>2, <1>3, <1>4, ShapeFacts
  <2> QED
    BY <1>5, <2>1 DEF BlockOk, CodeOk, CodeOf
<1>11. \A i \in C : i \in ToSet(blocks[ops[i].block].code)
  BY <1>5, <1>10 DEF CodeOf
<1> DEFINE f == [u \in S |-> <<ops[u[1]].block, u[1], u[2]>>]
<1>12. f \in [S -> T]
  <2> SUFFICES ASSUME NEW u \in S
               PROVE  <<ops[u[1]].block, u[1], u[2]>> \in T
    OBVIOUS
  <2>1. /\ u[1] \in C /\ u[2] \in 1..2
        /\ u[2] <= Len(ops[u[1]].in) /\ ops[u[1]].in[u[2]] = v
    BY <1>8 DEF InPlaces
  <2> QED
    BY <1>6, <1>9, <1>11, <2>1
<1>13. \A x, y \in S : f[x] = f[y] => x = y
  BY <1>8 DEF InPlaces
<1>14. ASSUME NEW t \in T
       PROVE  \E u \in S : f[u] = t
  <2>1. /\ t = <<t[1], t[2], t[3]>> /\ t[1] \in L /\ t[2] \in ToSet(blocks[t[1]].code)
        /\ t[3] \in 1..2 /\ t[3] <= Len(ops[t[2]].in) /\ ops[t[2]].in[t[3]] = v
    BY <1>9
  <2>2. t[2] \in C /\ ops[t[2]].block = t[1]
    BY <1>10, <2>1
  <2>3. <<t[2], t[3]>> \in S
    BY <1>8, <2>1, <2>2 DEF InPlaces
  <2>4. f[<<t[2], t[3]>>] = t
    BY <2>1, <2>2, <2>3
  <2> QED
    BY <2>3, <2>4
<1>15. Cardinality(T) = InUses(ops, C, v)
  <2>1. IsFiniteSet(S)
    BY <1>6, <1>8, InUsesNat
  <2> HIDE DEF f
  <2>2. Cardinality(T) = Cardinality(S)
    BY <1>12, <1>13, <1>14, <2>1, SameNumber
  <2> QED
    BY <1>8, <2>2 DEF InUses
<1>16. PICK Q : Q = { u \in UNION { {c} \X (1..Len(blocks[c].alts)) : c \in L } :
                         blocks[u[1]].alts[u[2]].val = v }
  OBVIOUS
<1>17. Cardinality(Q) = AltUses(blocks, tmp, L, v)
  <2>1. ASSUME NEW u \in AltPlaces(blocks, L)
        PROVE  tmp[blocks[u[1]].alts[u[2]].phi] = blocks[u[1]].alts[u[2]].phi
    <3>1. u[1] \in L /\ u[2] \in 1..Len(blocks[u[1]].alts)
      BY <2>1 DEF AltPlaces
    <3>2. IsSeq(blocks[u[1]].alts)
      BY <1>2, <1>3, <1>4, <3>1, ShapeFacts DEF BlockOk
    <3>3. blocks[u[1]].alts[u[2]] \in ToSet(blocks[u[1]].alts)
      BY <3>1, <3>2, IsSeqElements
    <3> QED
      BY <1>1, <3>1, <3>3, PhisStay
  <2>2. Q = UsingAlts(blocks, tmp, L, v)
    BY <1>16, <2>1 DEF UsingAlts, AltPlaces, Counts
  <2> QED
    BY <2>2 DEF AltUses
<1>18. Uses(v) = Cardinality(T) + Cardinality(Q)
  BY <1>1, <1>3, <1>9, <1>16 DEF Uses
<1> QED
  BY <1>7, <1>15, <1>17, <1>18

-----------------------------------------------------------------------------
LEMMA StutterKeeps ==
    ASSUME DceInv, UNCHANGED vars
    PROVE  DceInv'
<1> USE DEF vars, buildVars
<1>1. TypeInv' /\ Shape' /\ FrontInv'
  BY DEF DceInv, TypeInv, Shape, FrontInv, ArgsOk
<1>2. LiveInv'
  BY DEF DceInv, LiveInv, CodeOf, Goes, Distinct
<1>3. Walking' = Walking /\ Walked' = Walked /\ Seen' = Seen /\ Counted' = Counted
  BY DEF Walking, Walked, Seen, Counted, CodeOf, Passed, Code, Here
<1>4. WalkInv'
  BY <1>3 DEF DceInv, WalkInv, Goes, Distinct, Code, Here
<1>5. WalkCounts'
  BY <1>3 DEF DceInv, WalkCounts, CountsIn, CodeOf, Goes
<1>6. PhaseInv'
  BY DEF DceInv, PhaseInv, CountedTo, CodeOf, Before, Cleaned, Unrenamed, Unused, Needed
<1> QED
  BY <1>1, <1>2, <1>4, <1>5, <1>6 DEF DceInv

LEMMA NextKeeps ==
    ASSUME DceInv, [Next]_vars
    PROVE  DceInv'
<1>1. CASE FrontEnd
  BY <1>1, FrontEndKeeps
<1>2. CASE compile
  BY <1>2, compileKeeps
<1>3. CASE beginRound
  BY <1>3, beginRoundKeeps
<1>4. CASE endDce
  BY <1>4, endDceKeeps
<1>5. CASE popBlock
  BY <1>5, popBlockKeeps
<1>6. CASE visit
  BY <1>6, visitKeeps
<1>7. CASE thread
  BY <1>7, threadKeeps
<1>8. CASE follow
  BY <1>8, followKeeps
<1>9. CASE phiUses
  BY <1>9, phiUsesKeeps
<1>10. CASE rename
  BY <1>10, renameKeeps
<1>11. CASE sweep
  BY <1>11, sweepKeeps
<1>12. CASE UNCHANGED vars
  BY <1>12, StutterKeeps
<1> QED
  BY <1>1, <1>2, <1>3, <1>4, <1>5, <1>6, <1>7, <1>8, <1>9, <1>10, <1>11, <1>12
  DEF Next, Dce, Terminated

(* When dead code elimination is done, however often it has gone around,   *)
(* nUse of every value in a live block is the number of its uses: by the   *)
(* operations of live blocks, and by the alternatives of their phis.       *)
THEOREM UsesAreCounted == Spec => []UseCountsExact
<1>1. Init => DceInv
  BY InitInv
<1>2. DceInv /\ [Next]_vars => DceInv'
  BY NextKeeps
<1>3. DceInv => UseCountsExact
  BY CountsExact
<1> QED
  BY <1>1, <1>2, <1>3, PTL DEF Spec
=============================================================================
