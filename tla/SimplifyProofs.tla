--------------------------- MODULE SimplifyProofs ---------------------------
(***************************************************************************)
(* Folding and reassociation keep operands before their users, and know    *)
(* how often a value is used, for every procedure, as long as no jump      *)
(* loses its operand.                                                      *)
(***************************************************************************)
EXTENDS Simplify, SetInduction, SequenceTheorems

-----------------------------------------------------------------------------
(* The inductive invariant.                                                *)

IsState(t) ==
    /\ DOMAIN t = {"ops", "nUse", "unsafe", "at", "rename", "progress"}
    /\ t.progress \in BOOLEAN
    /\ IsProcedure(t.ops)

(* What has been renamed is a nop.                                         *)
RenamesBefore(t) ==
    /\ t.rename \in Seq(Nat \X Nat)
    /\ \A n \in 1..Len(t.rename) :
        /\ t.rename[n][1] \in DOMAIN t.ops
        /\ t.rename[n][2] \in 1..(t.rename[n][1] - 1)
        /\ t.ops[t.rename[n][1]].op = "nop"

(* In a round the operations visited have operands that are computed; those *)
(* of the others are, once they have their new names.                      *)
ComputedTo(t, m) ==
    \A i \in DOMAIN t.ops : i <= m =>
        \A k \in DOMAIN t.ops[i].in : HasOutput(t.ops[t.ops[i].in[k]])

RenamedAfter(t, m) ==
    \A i \in DOMAIN t.ops : i > m =>
        \A k \in DOMAIN t.ops[i].in : HasOutput(t.ops[Renamed(t, t.ops[i].in[k])])

FoldOk(t, m) == IsState(t) /\ RenamesBefore(t) /\ ComputedTo(t, m) /\ RenamedAfter(t, m)

(* nUse[v] is how often v is used.                                         *)
Exact(t) ==
    /\ t.nUse \in [DOMAIN t.ops -> Int]
    /\ \A v \in DOMAIN t.ops : t.nUse[v] = TotalUses(t.ops, v)

(* Until folding has changed something, the counts of the clean-up hold.   *)
FoldInv ==
    pc = "fold" =>
        /\ FoldOk(s, s.at) /\ s.at \in 0..Len(s.ops)
        /\ s.at = 0 => OperandsComputed(s.ops)
        /\ ~repeat /\ ~s.progress => Exact(s) /\ s.rename = << >>

ReassocInv == pc = "reassoc" => Exact(s) /\ s.at \in 0..Len(s.ops)

SimplifyInv ==
    /\ pc \in {"dce", "fold", "reassoc", "done"}
    /\ repeat \in BOOLEAN
    /\ IsState(s)
    /\ pc # "fold" => OperandsComputed(s.ops)
    /\ FoldInv /\ ReassocInv

-----------------------------------------------------------------------------
(* Opcodes and operands.                                                   *)

Binaries == Compares \cup DivOps \cup {"iadd", "isub", "imul", "iand", "ior", "ixor",
                "ishl", "ishr", "ushr", "dadd", "dsub", "dmul", "ddiv"}

(* The sets of opcodes, element by element.                                *)
LEMMA Opcodes ==
    /\ Compares = {"ilt", "ige", "igt", "ile", "ult", "uge", "ugt", "ule",
                   "dlt", "dge", "dgt", "dle", "ieq", "ine", "deq", "dne"}
    /\ Ordered = {"ilt", "ige", "igt", "ile", "ult", "uge", "ugt", "ule",
                  "dlt", "dge", "dgt", "dle"}
    /\ \A c \in Compares : Negated[c] \in Compares
    /\ \A c \in Ordered : Swapped[c] \in Ordered
    /\ IntCompares \subseteq Compares /\ Ordered \subseteq Compares
    /\ IntOps \subseteq Binaries \cup {"ineg", "inot"}
    /\ DblOps \subseteq Binaries \cup {"dneg"}
    /\ Compares \subseteq Binaries /\ ImmOps \subseteq Binaries
    /\ \A c \in Binaries : c \notin {"nop", "iret", "si", "s2i", "li", "l2i", "jz", "jnz", "jmp",
                                    "ineg", "inot", "dneg", "alloc", "arg", "lci", "lcd"}
<1>1. /\ Compares = {"ilt", "ige", "igt", "ile", "ult", "uge", "ugt", "ule",
                     "dlt", "dge", "dgt", "dle", "ieq", "ine", "deq", "dne"}
      /\ Ordered = {"ilt", "ige", "igt", "ile", "ult", "uge", "ugt", "ule",
                    "dlt", "dge", "dgt", "dle"}
  BY DEF Compares, Ordered, Negated, Swapped
<1>2. \A c \in Compares : Negated[c] \in Compares
  BY <1>1 DEF Negated
<1>3. \A c \in Ordered : Swapped[c] \in Ordered
  BY <1>1 DEF Swapped
<1>4. IntCompares \subseteq Compares /\ Ordered \subseteq Compares
  BY <1>1 DEF IntCompares
<1>5. IntOps \subseteq Binaries \cup {"ineg", "inot"} /\ DblOps \subseteq Binaries \cup {"dneg"}
  BY DEF IntOps, DblOps, Binaries
<1>6. Compares \subseteq Binaries /\ ImmOps \subseteq Binaries
  BY <1>4 DEF ImmOps, Binaries
<1>7. \A c \in Binaries : c \notin {"nop", "iret", "si", "s2i", "li", "l2i", "jz", "jnz", "jmp",
                                   "ineg", "inot", "dneg", "alloc", "arg", "lci", "lcd"}
  BY <1>1 DEF Binaries, DivOps
<1> QED
  BY <1>1, <1>2, <1>3, <1>4, <1>5, <1>6, <1>7

(* An operation with two operands, or one and an immediate, is one of the  *)
(* binary ones.                                                            *)
LEMMA BinaryInputs ==
    ASSUME NEW o, o.op \in Binaries
    PROVE  nInputs(o) = IF o.hasImm THEN 1 ELSE 2
BY Opcodes DEF nInputs, Binaries, DivOps

LEMMA BlankFacts ==
    /\ DOMAIN Blank = {"op", "jump", "hasImm", "in", "imm", "label", "alt"}
    /\ Blank.op = "nop" /\ Blank.jump = FALSE /\ Blank.hasImm = FALSE
    /\ Blank.in = << >> /\ Blank.label = << >> /\ Blank.alt = 0
    /\ IsOperation(Blank)
BY DEF Blank, IsOperation, nInputs

LEMMA OperationFacts ==
    ASSUME NEW o, IsOperation(o)
    PROVE  /\ DOMAIN o = {"op", "jump", "hasImm", "in", "imm", "label", "alt"}
           /\ o.jump \in BOOLEAN /\ o.hasImm \in BOOLEAN
           /\ o.in \in Seq(Nat) /\ Len(o.in) \in Nat /\ DOMAIN o.in = 1..Len(o.in)
           /\ \A k \in DOMAIN o.in : o.in[k] \in Nat
           /\ Len(o.in) = nInputs(o)
           /\ o.op \in Binaries => Len(o.in) = IF o.hasImm THEN 1 ELSE 2
           /\ o.op \in {"ineg", "inot", "dneg", "li", "jz", "jnz"} => Len(o.in) = 1
           /\ o.op \in {"si", "l2i"} => Len(o.in) = 2
           /\ o.op = "s2i" => Len(o.in) = 3
           /\ o.op = "nop" => o.in = << >>
           /\ ~o.jump => o.label = << >>
<1>1. DOMAIN o = {"op", "jump", "hasImm", "in", "imm", "label", "alt"}
  BY BlankFacts DEF IsOperation
<1>2. o.op \in Binaries => nInputs(o) = IF o.hasImm THEN 1 ELSE 2
  BY BinaryInputs
<1>3. /\ o.op \in {"ineg", "inot", "dneg", "li", "jz", "jnz"} => nInputs(o) = 1
      /\ o.op \in {"si", "l2i"} => nInputs(o) = 2
      /\ o.op = "s2i" => nInputs(o) = 3
      /\ o.op = "nop" => nInputs(o) = 0
  BY DEF nInputs
<1> QED
  BY <1>1, <1>2, <1>3 DEF IsOperation

-----------------------------------------------------------------------------
(* Uses.                                                                   *)

OneIf(x, v) == IF x = v THEN 1 ELSE 0

LEMMA UsesByNat ==
    ASSUME NEW o, IsOperation(o), NEW v
    PROVE  UsesBy(o, v) \in Nat
<1>1. Len(o.in) \in Nat /\ DOMAIN o.in = 1..Len(o.in)
  BY OperationFacts
<1>2. IsFiniteSet(DOMAIN o.in)
  BY <1>1, FS_Interval
<1>3. IsFiniteSet({ k \in DOMAIN o.in : o.in[k] = v })
  BY <1>2, FS_Subset
<1> QED
  BY <1>3, FS_CardinalityType DEF UsesBy

Occurrences(in, v) == Cardinality({ k \in DOMAIN in : in[k] = v })

(* What operands count, if there are at most two.                          *)
LEMMA FewOperands ==
    ASSUME NEW in, NEW v
    PROVE  /\ in = << >> => Occurrences(in, v) = 0
           /\ \A x \in Nat : in = <<x>> => Occurrences(in, v) = OneIf(x, v)
           /\ \A x, y \in Nat :
                in = <<x, y>> => Occurrences(in, v) = OneIf(x, v) + OneIf(y, v)
<1>1. ASSUME in = << >>
      PROVE  Cardinality({ k \in DOMAIN in : in[k] = v }) = 0
  <2>1. { k \in DOMAIN in : in[k] = v } = {}
    BY <1>1
  <2> QED
    BY <2>1, FS_EmptySet
<1>2. ASSUME NEW x \in Nat, in = <<x>>
      PROVE  Cardinality({ k \in DOMAIN in : in[k] = v }) = OneIf(x, v)
  <2>1. { k \in DOMAIN in : in[k] = v } = IF x = v THEN {1} ELSE {}
    BY <1>2
  <2> QED
    BY <2>1, FS_EmptySet, FS_Singleton DEF OneIf
<1>3. ASSUME NEW x \in Nat, NEW y \in Nat, in = <<x, y>>
      PROVE  Cardinality({ k \in DOMAIN in : in[k] = v }) = OneIf(x, v) + OneIf(y, v)
  <2>1. { k \in DOMAIN in : in[k] = v } =
            (IF x = v THEN {1} ELSE {}) \cup (IF y = v THEN {2} ELSE {})
    BY <1>3
  <2>2. Cardinality({1, 2}) = 2
    <3>1. IsFiniteSet({1}) /\ Cardinality({1}) = 1
      BY FS_Singleton
    <3>2. Cardinality({1} \cup {2}) = Cardinality({1}) + 1
      BY <3>1, FS_AddElement
    <3>3. {1} \cup {2} = {1, 2}
      OBVIOUS
    <3> QED
      BY <3>1, <3>2, <3>3
  <2>3. CASE x = v /\ y = v
    <3>1. { k \in DOMAIN in : in[k] = v } = {1, 2}
      BY <2>1, <2>3
    <3> QED
      BY <3>1, <2>2, <2>3 DEF OneIf
  <2>4. CASE x = v /\ y # v
    <3>1. { k \in DOMAIN in : in[k] = v } = {1}
      BY <2>1, <2>4
    <3>2. Cardinality({1}) = 1
      BY FS_Singleton
    <3>3. OneIf(x, v) = 1 /\ OneIf(y, v) = 0
      BY <2>4 DEF OneIf
    <3> QED
      BY <3>1, <3>2, <3>3
  <2>5. CASE x # v /\ y = v
    <3>1. { k \in DOMAIN in : in[k] = v } = {2}
      BY <2>1, <2>5
    <3>2. Cardinality({2}) = 1
      BY FS_Singleton
    <3>3. OneIf(x, v) = 0 /\ OneIf(y, v) = 1
      BY <2>5 DEF OneIf
    <3> QED
      BY <3>1, <3>2, <3>3
  <2>6. CASE x # v /\ y # v
    <3>1. { k \in DOMAIN in : in[k] = v } = {}
      BY <2>1, <2>6
    <3> QED
      BY <3>1, <2>6, FS_EmptySet DEF OneIf
  <2> QED
    BY <2>3, <2>4, <2>5, <2>6
<1> QED
  BY <1>1, <1>2, <1>3 DEF Occurrences

(* The uses by an operation that is no jump and has at most two operands.  *)
LEMMA UsesByFew ==
    ASSUME NEW o, o.label = << >>, NEW v
    PROVE  /\ o.in = << >> => UsesBy(o, v) = 0
           /\ \A x \in Nat : o.in = <<x>> => UsesBy(o, v) = OneIf(x, v)
           /\ \A x, y \in Nat : o.in = <<x, y>> => UsesBy(o, v) = OneIf(x, v) + OneIf(y, v)
<1>1. PICK in : in = o.in
  OBVIOUS
<1>2. PICK c : c = Occurrences(in, v)
  OBVIOUS
<1>3. UsesBy(o, v) = c + 0
  <2>1. ~ \E k \in DOMAIN o.label : o.label[k] = "exit"
    OBVIOUS
  <2> QED
    BY <1>1, <1>2, <2>1 DEF UsesBy, Occurrences
<1>4. /\ in = << >> => c = 0
      /\ \A x \in Nat : in = <<x>> => c = OneIf(x, v)
      /\ \A x, y \in Nat : in = <<x, y>> => c = OneIf(x, v) + OneIf(y, v)
  BY <1>2, FewOperands
<1>5. \A x : OneIf(x, v) \in Nat
  BY DEF OneIf
<1>6. c \in Nat => UsesBy(o, v) = c
  BY <1>3
<1>7. in = << >> => UsesBy(o, v) = 0
  BY <1>4, <1>6
<1>8. ASSUME NEW x \in Nat, in = <<x>>
      PROVE  UsesBy(o, v) = OneIf(x, v)
  BY <1>4, <1>5, <1>6, <1>8
<1>9. ASSUME NEW x \in Nat, NEW y \in Nat, in = <<x, y>>
      PROVE  UsesBy(o, v) = OneIf(x, v) + OneIf(y, v)
  <2>1. c = OneIf(x, v) + OneIf(y, v)
    BY <1>4, <1>9
  <2>2. c \in Nat
    BY <1>5, <2>1
  <2> QED
    BY <1>6, <2>1, <2>2
<1> QED
  BY <1>1, <1>7, <1>8, <1>9

-----------------------------------------------------------------------------
(* Sums of uses.                                                           *)

SumsOf(ops, v) ==
    { by \in [0..Len(ops) -> Int] :
        by[0] = 0 /\ \A i \in 1..Len(ops) : by[i] = by[i - 1] + UsesBy(ops[i], v) }

LEMMA OpsFacts ==
    ASSUME NEW ops, IsProcedure(ops)
    PROVE  /\ Len(ops) \in Nat /\ DOMAIN ops = 1..Len(ops)
           /\ ops = [i \in 1..Len(ops) |-> ops[i]]
           /\ \A i \in 1..Len(ops) :
                /\ IsOperation(ops[i])
                /\ \A k \in DOMAIN ops[i].in : ops[i].in[k] \in 1..(i - 1)
BY DEF IsProcedure

LEMMA UsesAddUp ==
    ASSUME NEW ops, IsProcedure(ops), NEW v
    PROVE  \E by \in SumsOf(ops, v) : TotalUses(ops, v) = by[Len(ops)]
<1>1. PICK len \in Nat : len = Len(ops)
  BY OpsFacts
<1>2. \A i \in 1..len : UsesBy(ops[i], v) \in Int
  <2>1. \A i \in 1..len : UsesBy(ops[i], v) \in Nat
    BY <1>1, OpsFacts, UsesByNat
  <2> QED
    BY <2>1
<1>3. PICK D : D = Int
  OBVIOUS
<1> DEFINE G == [i \in 1..len |-> [x \in D |-> x + UsesBy(ops[i], v)]]
<1>4. /\ G \in [1..len -> [D -> D]] /\ 0 \in D
      /\ \A i \in 1..len, x \in D : G[i][x] = x + UsesBy(ops[i], v)
  BY <1>2, <1>3
<1> HIDE DEF G
<1>5. PICK h : h \in Recursive(D, 0, len, G)
  BY <1>4, RecursionExists
<1>6. /\ h \in [0..len -> D] /\ h[0] = 0
      /\ \A i \in 1..len : h[i] = G[i][h[i - 1]]
  BY <1>5 DEF Recursive
<1> DEFINE Unfold(g) == [i \in 0..len |-> IF i = 0 THEN 0 ELSE g[i - 1] + UsesBy(ops[i], v)]
<1>7. h = Unfold(h)
  <2>1. \A i \in 1..len : i - 1 \in 0..len
    OBVIOUS
  <2>2. \A i \in 1..len : h[i] = h[i - 1] + UsesBy(ops[i], v)
    BY <1>4, <1>6, <2>1
  <2>3. \A i \in 0..len : i = 0 \/ i \in 1..len
    OBVIOUS
  <2>4. \A i \in 0..len : h[i] = Unfold(h)[i]
    BY <1>6, <2>2, <2>3
  <2> QED
    BY <1>6, <2>4
<1> DEFINE f == CHOOSE g : g = Unfold(g)
<1>8. f = Unfold(f)
  <2> HIDE DEF Unfold
  <2> QED
    BY <1>7
<1>9. TotalUses(ops, v) = f[len]
  BY <1>1 DEF TotalUses
<1> HIDE DEF f
<1>10. /\ f = [i \in 0..len |-> f[i]] /\ f[0] = 0
      /\ \A i \in 1..len : f[i] = f[i - 1] + UsesBy(ops[i], v)
  <2>1. \A i \in 0..len : f[i] = IF i = 0 THEN 0 ELSE f[i - 1] + UsesBy(ops[i], v)
    BY <1>8
  <2>2. \A i \in 1..len : i \in 0..len /\ i # 0
    OBVIOUS
  <2>3. DOMAIN f = 0..len /\ f = [i \in DOMAIN f |-> f[i]]
    BY <1>8
  <2> QED
    BY <2>1, <2>2, <2>3
<1>11. f \in Recursive(D, 0, len, G)
  <2>1. \A i \in 1..len : f[i - 1] \in D => f[i] = G[i][f[i - 1]]
    BY <1>4, <1>10
  <2> QED
    BY <1>4, <1>10, <2>1, RecursionTyped
<1>12. f \in SumsOf(ops, v)
  BY <1>1, <1>10, <1>11, <1>3 DEF SumsOf, Recursive
<1> QED
  BY <1>1, <1>9, <1>12

(* One operation changes the sum by what it counts.                        *)
LEMMA TotalChanges ==
    ASSUME NEW p, IsProcedure(p), NEW q, IsProcedure(q), NEW v,
           Len(q) = Len(p), NEW i \in 1..Len(p),
           \A j \in 1..Len(p) : j # i => UsesBy(q[j], v) = UsesBy(p[j], v)
    PROVE  TotalUses(q, v) = TotalUses(p, v) + UsesBy(q[i], v) - UsesBy(p[i], v)
<1>1. PICK len \in Nat : len = Len(p)
  BY OpsFacts
<1>2. PICK f \in SumsOf(p, v) : TotalUses(p, v) = f[len]
  BY <1>1, UsesAddUp
<1>3. PICK g \in SumsOf(q, v) : TotalUses(q, v) = g[len]
  BY <1>1, UsesAddUp
<1>4. /\ f \in [0..len -> Int] /\ f[0] = 0
      /\ \A j \in 1..len : f[j] = f[j - 1] + UsesBy(p[j], v)
  BY <1>1, <1>2 DEF SumsOf
<1>5. /\ g \in [0..len -> Int] /\ g[0] = 0
      /\ \A j \in 1..len : g[j] = g[j - 1] + UsesBy(q[j], v)
  BY <1>1, <1>3 DEF SumsOf
<1>6. UsesBy(p[i], v) \in Nat /\ UsesBy(q[i], v) \in Nat
  BY OpsFacts, UsesByNat
<1>7. \A j \in 1..len : UsesBy(p[j], v) \in Nat /\ UsesBy(q[j], v) \in Nat
  BY <1>1, OpsFacts, UsesByNat
<1> DEFINE d == UsesBy(q[i], v) - UsesBy(p[i], v)
           S == { n \in Nat : n <= len => g[n] = f[n] + IF n < i THEN 0 ELSE d }
<1>8. 0 \in S
  BY <1>1, <1>4, <1>5
<1>9. ASSUME NEW n \in Nat, n \in S
      PROVE  n + 1 \in S
  <2> SUFFICES ASSUME n + 1 <= len
               PROVE  g[n + 1] = f[n + 1] + IF n + 1 < i THEN 0 ELSE d
    OBVIOUS
  <2>1. n + 1 \in 1..len /\ (n + 1) - 1 = n /\ n \in 0..len /\ n + 1 \in 0..len
    OBVIOUS
  <2>2. /\ f[n + 1] = f[n] + UsesBy(p[n + 1], v)
        /\ g[n + 1] = g[n] + UsesBy(q[n + 1], v)
    BY <1>4, <1>5, <2>1
  <2>3. f[n] \in Int /\ g[n] \in Int
    BY <1>4, <1>5, <2>1
  <2>4. g[n] = f[n] + IF n < i THEN 0 ELSE d
    BY <1>9
  <2>5. CASE n + 1 # i
    <3>1. UsesBy(q[n + 1], v) = UsesBy(p[n + 1], v)
      BY <1>1, <2>1, <2>5
    <3>2. n < i <=> n + 1 < i
      BY <1>1, <2>5
    <3> QED
      BY <1>6, <1>7, <2>1, <2>2, <2>3, <2>4, <3>1, <3>2
  <2>6. CASE n + 1 = i
    <3>1. g[n] = f[n]
      BY <1>6, <2>3, <2>4, <2>6
    <3> QED
      BY <1>6, <2>2, <2>3, <2>6, <3>1
  <2> QED
    BY <2>5, <2>6
<1>10. len \in S
  <2> HIDE DEF S
  <2> QED
    BY <1>8, <1>9, SetOfAllNumbers
<1>11. g[len] = f[len] + d
  BY <1>1, <1>10
<1>12. f[len] \in Int
  BY <1>4
<1> QED
  BY <1>2, <1>3, <1>6, <1>11, <1>12

LEMMA TotalSame ==
    ASSUME NEW p, IsProcedure(p), NEW q, IsProcedure(q), NEW v, Len(q) = Len(p),
           \A j \in 1..Len(p) : UsesBy(q[j], v) = UsesBy(p[j], v)
    PROVE  TotalUses(q, v) = TotalUses(p, v)
<1>1. PICK len \in Nat : len = Len(p)
  BY OpsFacts
<1>2. PICK f \in SumsOf(p, v) : TotalUses(p, v) = f[len]
  BY <1>1, UsesAddUp
<1>3. PICK g \in SumsOf(q, v) : TotalUses(q, v) = g[len]
  BY <1>1, UsesAddUp
<1>4. f \in [0..len -> Int] /\ f[0] = 0 /\ \A j \in 1..len : f[j] = f[j - 1] + UsesBy(p[j], v)
  BY <1>1, <1>2 DEF SumsOf
<1>5. g \in [0..len -> Int] /\ g[0] = 0 /\ \A j \in 1..len : g[j] = g[j - 1] + UsesBy(p[j], v)
  BY <1>1, <1>3 DEF SumsOf
<1> DEFINE S == { n \in Nat : n <= len => g[n] = f[n] }
<1>6. 0 \in S
  BY <1>4, <1>5
<1>7. ASSUME NEW n \in Nat, n \in S
      PROVE  n + 1 \in S
  <2>1. n + 1 <= len => n + 1 \in 1..len /\ (n + 1) - 1 = n
    OBVIOUS
  <2> QED
    BY <1>4, <1>5, <1>7, <2>1
<1>8. len \in S
  <2> HIDE DEF S
  <2> QED
    BY <1>6, <1>7, SetOfAllNumbers
<1> QED
  BY <1>2, <1>3, <1>8

-----------------------------------------------------------------------------
(* New names.                                                              *)

RenamesOf(r, v) ==
    { f \in [0..Len(r) -> Nat] :
        /\ f[0] = v
        /\ \A n \in 1..Len(r) : f[n] = IF f[n - 1] = r[n][1] THEN r[n][2] ELSE f[n - 1] }

LEMMA RenamedIsLast ==
    ASSUME NEW r \in Seq(Nat \X Nat), NEW v \in Nat
    PROVE  \E f \in RenamesOf(r, v) : NewName(r, v) = f[Len(r)]
<1>2. PICK len \in Nat : len = Len(r)
  OBVIOUS
<1>3. \A n \in 1..len : r[n][2] \in Nat
  BY <1>2
<1>4. PICK D : D = Nat
  OBVIOUS
<1> DEFINE To(n, x) == IF x = r[n][1] THEN r[n][2] ELSE x
           G == [n \in 1..len |-> [x \in D |-> To(n, x)]]
<1>5. /\ G \in [1..len -> [D -> D]] /\ v \in D
      /\ \A n \in 1..len, x \in D : G[n][x] = To(n, x)
  BY <1>3, <1>4
<1> HIDE DEF G, To
<1>6. PICK h : h \in Recursive(D, v, len, G)
  <2>1. G \in [1..len -> [D -> D]] /\ v \in D
    BY <1>5
  <2>2. Recursive(D, v, len, G) # {}
    BY <1>2, <2>1, RecursionExists
  <2> QED
    BY <2>2
<1>7. h \in [0..len -> D] /\ h[0] = v /\ \A n \in 1..len : h[n] = G[n][h[n - 1]]
  BY <1>6 DEF Recursive
<1> DEFINE Unfold(g) == [n \in 0..len |-> IF n = 0 THEN v ELSE To(n, g[n - 1])]
<1>8. h = Unfold(h)
  <2>1. \A n \in 1..len : n - 1 \in 0..len
    OBVIOUS
  <2>2. \A n \in 1..len : h[n] = To(n, h[n - 1])
    BY <1>5, <1>7, <2>1
  <2>3. \A n \in 0..len : n = 0 \/ n \in 1..len
    OBVIOUS
  <2>4. \A n \in 0..len : h[n] = Unfold(h)[n]
    BY <1>7, <2>2, <2>3
  <2> QED
    BY <1>7, <2>4
<1> DEFINE f == CHOOSE g : g = Unfold(g)
<1>9. f = Unfold(f)
  <2> HIDE DEF Unfold
  <2> QED
    BY <1>8
<1>10. NewName(r, v) = f[len]
  BY <1>2 DEF NewName, To
<1> HIDE DEF f
<1>11. /\ f = [n \in 0..len |-> f[n]] /\ f[0] = v
       /\ \A n \in 1..len : f[n] = To(n, f[n - 1])
  <2>1. \A n \in 0..len : f[n] = IF n = 0 THEN v ELSE To(n, f[n - 1])
    BY <1>9
  <2>2. \A n \in 1..len : n \in 0..len /\ n # 0
    OBVIOUS
  <2>3. DOMAIN f = 0..len /\ f = [n \in DOMAIN f |-> f[n]]
    BY <1>9
  <2>4. f[0] = v
    BY <2>1
  <2>5. \A n \in 1..len : f[n] = To(n, f[n - 1])
    BY <2>1, <2>2
  <2> QED
    BY <2>3, <2>4, <2>5
<1>12. f \in Recursive(D, v, len, G)
  <2>1. \A n \in 1..len : f[n - 1] \in D => f[n] = G[n][f[n - 1]]
    BY <1>5, <1>11
  <2> QED
    BY <1>5, <1>11, <2>1, RecursionTyped
<1>13. f \in RenamesOf(r, v)
  <2>1. f \in [0..len -> Nat]
    BY <1>4, <1>12 DEF Recursive
  <2>2. \A n \in 1..len : f[n] = IF f[n - 1] = r[n][1] THEN r[n][2] ELSE f[n - 1]
    BY <1>11 DEF To
  <2> QED
    BY <1>2, <1>11, <2>1, <2>2 DEF RenamesOf
<1> QED
  BY <1>2, <1>10, <1>13

(* A value that is no key keeps its name; others get an earlier one.       *)
LEMMA RenamedFacts ==
    ASSUME NEW t, RenamesBefore(t), NEW v \in Nat \ {0}
    PROVE  /\ Renamed(t, v) \in 1..v
           /\ t.ops[v].op # "nop" => Renamed(t, v) = v
           /\ t.rename = << >> => Renamed(t, v) = v
<1>1. PICK len \in Nat : len = Len(t.rename)
  BY DEF RenamesBefore
<1>2. PICK r : r = t.rename
  OBVIOUS
<1>3. PICK f \in RenamesOf(r, v) : Renamed(t, v) = f[len]
  BY <1>1, <1>2, RenamedIsLast DEF RenamesBefore, Renamed
<1>4. /\ f[0] = v
      /\ \A n \in 1..len : f[n] = IF f[n - 1] = r[n][1] THEN r[n][2] ELSE f[n - 1]
  BY <1>1, <1>2 DEF RenamesOf
<1>5. \A n \in 1..len : r[n][2] \in 1..(r[n][1] - 1) /\ r[n][1] \in Nat
  BY <1>1, <1>2 DEF RenamesBefore
<1> DEFINE S == { n \in Nat : n <= len => f[n] \in 1..v }
<1>6. 0 \in S
  BY <1>4
<1>7. ASSUME NEW n \in Nat, n \in S
      PROVE  n + 1 \in S
  <2> SUFFICES ASSUME n + 1 <= len
               PROVE  f[n + 1] \in 1..v
    OBVIOUS
  <2>1. n + 1 \in 1..len /\ (n + 1) - 1 = n /\ f[n] \in 1..v
    BY <1>7
  <2>2. f[n + 1] = IF f[n] = r[n + 1][1] THEN r[n + 1][2] ELSE f[n]
    BY <1>4, <2>1
  <2> QED
    BY <1>5, <2>1, <2>2
<1>8. len \in S
  <2> HIDE DEF S
  <2> QED
    BY <1>6, <1>7, SetOfAllNumbers
<1>9. ASSUME t.ops[v].op # "nop"
      PROVE  f[len] = v
  <2>1. \A n \in 1..len : r[n][1] # v
    BY <1>1, <1>2, <1>9 DEF RenamesBefore
  <2> DEFINE T == { n \in Nat : n <= len => f[n] = v }
  <2>2. 0 \in T
    BY <1>4
  <2>3. ASSUME NEW n \in Nat, n \in T
        PROVE  n + 1 \in T
    <3>1. n + 1 <= len => n + 1 \in 1..len /\ (n + 1) - 1 = n
      OBVIOUS
    <3> QED
      BY <1>4, <2>1, <2>3, <3>1
  <2>4. len \in T
    <3> HIDE DEF T
    <3> QED
      BY <2>2, <2>3, SetOfAllNumbers
  <2> QED
    BY <2>4
<1>10. t.rename = << >> => len = 0
  BY <1>1
<1> QED
  BY <1>3, <1>4, <1>8, <1>9, <1>10

LEMMA RenamedByOneMore ==
    ASSUME NEW r \in Seq(Nat \X Nat), NEW i \in Nat, NEW x \in Nat, NEW v \in Nat
    PROVE  NewName(Append(r, <<i, x>>), v) =
                IF NewName(r, v) = i THEN x ELSE NewName(r, v)
<1>1. PICK len \in Nat : len = Len(r)
  OBVIOUS
<1>3. PICK w : w = Append(r, <<i, x>>)
  OBVIOUS
<1>4. /\ w \in Seq(Nat \X Nat) /\ Len(w) = len + 1 /\ w[len + 1] = <<i, x>>
      /\ \A n \in 1..len : w[n] = r[n]
  BY <1>1, <1>3
<1>5. PICK f \in RenamesOf(r, v) : NewName(r, v) = f[len]
  BY <1>1, RenamedIsLast
<1>6. PICK g \in RenamesOf(w, v) : NewName(w, v) = g[len + 1]
  BY <1>4, RenamedIsLast
<1>7. /\ f[0] = v
      /\ \A n \in 1..len : f[n] = IF f[n - 1] = r[n][1] THEN r[n][2] ELSE f[n - 1]
  BY <1>1, <1>5 DEF RenamesOf
<1>8. /\ g[0] = v
      /\ \A n \in 1..(len + 1) : g[n] = IF g[n - 1] = w[n][1] THEN w[n][2] ELSE g[n - 1]
  BY <1>4, <1>6 DEF RenamesOf
<1> DEFINE S == { n \in Nat : n <= len => g[n] = f[n] }
<1>9. 0 \in S
  BY <1>7, <1>8
<1>10. ASSUME NEW n \in Nat, n \in S
       PROVE  n + 1 \in S
  <2>1. n + 1 <= len => n + 1 \in 1..len /\ n + 1 \in 1..(len + 1) /\ (n + 1) - 1 = n
    OBVIOUS
  <2>2. ASSUME n + 1 <= len
        PROVE  g[n + 1] = f[n + 1]
    <3>1. g[n] = f[n]
      BY <1>10, <2>1, <2>2
    <3>2. f[n + 1] = IF f[n] = r[n + 1][1] THEN r[n + 1][2] ELSE f[n]
      BY <1>7, <2>1, <2>2
    <3>3. g[n + 1] = IF g[n] = w[n + 1][1] THEN w[n + 1][2] ELSE g[n]
      BY <1>8, <2>1, <2>2
    <3>4. w[n + 1] = r[n + 1]
      BY <1>4, <2>1, <2>2
    <3> QED
      BY <3>1, <3>2, <3>3, <3>4
  <2> QED
    BY <2>2
<1>11. len \in S
  <2> HIDE DEF S
  <2> QED
    BY <1>9, <1>10, SetOfAllNumbers
<1>12. g[len + 1] = IF g[len] = i THEN x ELSE g[len]
  <2>1. len + 1 \in 1..(len + 1) /\ (len + 1) - 1 = len
    OBVIOUS
  <2> QED
    BY <1>4, <1>8, <2>1
<1> QED
  BY <1>3, <1>5, <1>6, <1>11, <1>12

-----------------------------------------------------------------------------
(* What a rule of folding does to the operation visited.                   *)

Visiting(t) == FoldOk(t, t.at) /\ t.at \in DOMAIN t.ops

(* A rule keeps the rest; without progress it changes no uses.             *)
After(t, q) ==
    /\ Visiting(q)
    /\ q.at = t.at /\ q.nUse = t.nUse /\ q.unsafe = t.unsafe
    /\ DOMAIN q.ops = DOMAIN t.ops
    /\ t.progress => q.progress
    /\ ~q.progress =>
        /\ q.rename = t.rename
        /\ \A i \in DOMAIN t.ops : \A v : UsesBy(q.ops[i], v) = UsesBy(t.ops[i], v)

LEMMA AfterSelf ==
    ASSUME NEW t, Visiting(t)
    PROVE  After(t, t)
BY DEF After

LEMMA AfterVisits ==
    ASSUME NEW t, NEW q, After(t, q)
    PROVE  Visiting(q)
BY DEF After

LEMMA AfterChain ==
    ASSUME NEW t, NEW q, NEW r, After(t, q), After(q, r)
    PROVE  After(t, r)
<1>1. /\ Visiting(r) /\ r.at = t.at /\ r.nUse = t.nUse /\ r.unsafe = t.unsafe
      /\ DOMAIN r.ops = DOMAIN t.ops
      /\ t.progress => r.progress
  BY DEF After
<1>2. ASSUME ~r.progress
      PROVE  /\ r.rename = t.rename
             /\ \A i \in DOMAIN t.ops : \A v : UsesBy(r.ops[i], v) = UsesBy(t.ops[i], v)
  <2>1. ~q.progress
    BY <1>2 DEF After
  <2> QED
    BY <1>2, <2>1 DEF After
<1> QED
  BY <1>1, <1>2 DEF After

(* An operation that may be put where the one visited is.                  *)
Fits(t, o) ==
    /\ Cur(t).op # "nop"
    /\ IsOperation(o)
    /\ \A k \in DOMAIN o.in : o.in[k] \in 1..(t.at - 1) /\ HasOutput(t.ops[o.in[k]])
    /\ HasOutput(Cur(t)) => HasOutput(o)

LEMMA VisitingFacts ==
    ASSUME NEW t, Visiting(t)
    PROVE  /\ t.at \in 1..Len(t.ops) /\ Len(t.ops) \in Nat /\ DOMAIN t.ops = 1..Len(t.ops)
           /\ DOMAIN t = {"ops", "nUse", "unsafe", "at", "rename", "progress"}
           /\ t.progress \in BOOLEAN
           /\ \A i \in 1..Len(t.ops) :
                /\ IsOperation(t.ops[i])
                /\ \A k \in DOMAIN t.ops[i].in : t.ops[i].in[k] \in 1..(i - 1)
           /\ IsOperation(Cur(t))
           /\ Cur(t) = t.ops[t.at]
           /\ \A k \in DOMAIN Cur(t).in :
                /\ N(t, k) = t.ops[Cur(t).in[k]]
                /\ Cur(t).in[k] \in 1..(t.at - 1) /\ HasOutput(N(t, k))
                /\ IsOperation(N(t, k))
                /\ \A j \in DOMAIN N(t, k).in :
                    N(t, k).in[j] \in 1..(t.at - 1) /\ HasOutput(t.ops[N(t, k).in[j]])
<1>1. /\ Len(t.ops) \in Nat /\ DOMAIN t.ops = 1..Len(t.ops) /\ t.at \in 1..Len(t.ops)
      /\ DOMAIN t = {"ops", "nUse", "unsafe", "at", "rename", "progress"}
      /\ t.progress \in BOOLEAN
      /\ \A i \in 1..Len(t.ops) :
            /\ IsOperation(t.ops[i])
            /\ \A k \in DOMAIN t.ops[i].in : t.ops[i].in[k] \in 1..(i - 1)
  BY OpsFacts DEF Visiting, FoldOk, IsState
<1>2. Cur(t) = t.ops[t.at] /\ \A k : N(t, k) = t.ops[Cur(t).in[k]]
  BY DEF Cur, N
<1>3. \A i \in 1..Len(t.ops) : i <= t.at =>
            \A k \in DOMAIN t.ops[i].in : HasOutput(t.ops[t.ops[i].in[k]])
  BY <1>1 DEF Visiting, FoldOk, ComputedTo
<1>4. IsOperation(Cur(t))
  BY <1>1, <1>2
<1>5. ASSUME NEW k \in DOMAIN Cur(t).in
      PROVE  /\ Cur(t).in[k] \in 1..(t.at - 1) /\ HasOutput(N(t, k))
             /\ IsOperation(N(t, k))
             /\ \A j \in DOMAIN N(t, k).in :
                    N(t, k).in[j] \in 1..(t.at - 1) /\ HasOutput(t.ops[N(t, k).in[j]])
  <2>1. PICK i : i = Cur(t).in[k]
    OBVIOUS
  <2>2. i \in 1..(t.at - 1) /\ i \in 1..Len(t.ops) /\ i <= t.at /\ t.at <= Len(t.ops)
    BY <1>1, <1>2, <1>5, <2>1
  <2>3. HasOutput(t.ops[i])
    BY <1>1, <1>2, <1>3, <1>5, <2>1
  <2>4. \A j \in DOMAIN t.ops[i].in : t.ops[i].in[j] \in 1..(i - 1)
    BY <1>1, <2>2
  <2>5. \A j \in DOMAIN t.ops[i].in : t.ops[i].in[j] \in 1..(t.at - 1)
    BY <1>1, <2>2, <2>4
  <2>6. N(t, k) = t.ops[i]
    BY <1>2, <2>1
  <2> QED
    BY <1>1, <1>3, <2>1, <2>2, <2>3, <2>5, <2>6
<1> QED
  BY <1>1, <1>2, <1>4, <1>5

LEMMA ProcedureChanges ==
    ASSUME NEW p, IsProcedure(p), NEW i \in DOMAIN p, NEW o, IsOperation(o),
           \A k \in DOMAIN o.in : o.in[k] \in 1..(i - 1)
    PROVE  /\ IsProcedure([p EXCEPT ![i] = o])
           /\ DOMAIN [p EXCEPT ![i] = o] = DOMAIN p
<1>1. Len(p) \in Nat /\ DOMAIN p = 1..Len(p)
  BY OpsFacts
<1>2. PICK q : q = [p EXCEPT ![i] = o]
  OBVIOUS
<1>3. q = [j \in 1..Len(p) |-> IF j = i THEN o ELSE p[j]]
  BY <1>1, <1>2
<1>4. q \in Seq({ q[j] : j \in DOMAIN q }) /\ DOMAIN q = 1..Len(p)
  <2>1. q \in [1..Len(p) -> { q[j] : j \in DOMAIN q }]
    BY <1>3
  <2> QED
    BY <1>1, <1>3, <2>1
<1>5. ASSUME NEW j \in DOMAIN q
      PROVE  /\ IsOperation(q[j])
             /\ \A k \in DOMAIN q[j].in : q[j].in[k] \in 1..(j - 1)
  <2>1. CASE j = i
    BY <1>1, <1>3, <1>4, <2>1
  <2>2. CASE j # i
    <3>1. q[j] = p[j] /\ j \in 1..Len(p)
      BY <1>3, <1>4, <2>2
    <3> QED
      BY <3>1, OpsFacts
  <2> QED
    BY <2>1, <2>2
<1> QED
  BY <1>1, <1>2, <1>4, <1>5 DEF IsProcedure

(* q has o where t has the operation visited.                              *)
Wrote(t, q, o) ==
    /\ DOMAIN q = {"ops", "nUse", "unsafe", "at", "rename", "progress"}
    /\ q.ops = [t.ops EXCEPT ![t.at] = o]
    /\ q.at = t.at /\ q.nUse = t.nUse /\ q.unsafe = t.unsafe
    /\ q.rename = t.rename
    /\ \/ q.progress = TRUE
       \/ q.progress = t.progress /\ \A v : UsesBy(o, v) = UsesBy(Cur(t), v)

LEMMA WriteAfter ==
    ASSUME NEW t, Visiting(t), NEW o, Fits(t, o), NEW q, Wrote(t, q, o)
    PROVE  After(t, q)
<1>0. PICK n \in Nat : n = Len(t.ops)
  BY VisitingFacts
<1>1. /\ t.at \in 1..n /\ DOMAIN t.ops = 1..n
      /\ Cur(t) = t.ops[t.at] /\ t.progress \in BOOLEAN
  BY <1>0, VisitingFacts
<1>2. IsProcedure(q.ops) /\ DOMAIN q.ops = DOMAIN t.ops
  <2>1. \A k \in DOMAIN o.in : o.in[k] \in 1..(t.at - 1)
    BY DEF Fits
  <2>2. IsProcedure(t.ops) /\ t.at \in DOMAIN t.ops /\ IsOperation(o)
    BY DEF Visiting, FoldOk, IsState, Fits
  <2> QED
    BY <2>1, <2>2, ProcedureChanges DEF Wrote
<1>3. \A j \in 1..n : q.ops[j] = IF j = t.at THEN o ELSE t.ops[j]
  BY <1>1 DEF Wrote
<1>4. IsState(q)
  <2>1. q.progress \in BOOLEAN
    BY <1>1 DEF Wrote
  <2> QED
    BY <1>2, <2>1 DEF Wrote, IsState
<1>5. \A j \in 1..n : HasOutput(t.ops[j]) => HasOutput(q.ops[j])
  BY <1>1, <1>3 DEF Fits
<1>6. RenamesBefore(q)
  <2>1. RenamesBefore(t)
    BY DEF Visiting, FoldOk
  <2>2. ASSUME NEW m \in 1..Len(t.rename)
        PROVE  q.ops[t.rename[m][1]].op = "nop"
    <3>1. t.rename[m][1] \in 1..n /\ t.ops[t.rename[m][1]].op = "nop"
      BY <1>1, <2>1 DEF RenamesBefore
    <3>2. t.rename[m][1] # t.at
      BY <1>1, <3>1 DEF Fits
    <3> QED
      BY <1>3, <3>1, <3>2
  <2> QED
    BY <1>2, <2>1, <2>2 DEF RenamesBefore, Wrote
<1>7. ComputedTo(q, q.at)
  <2> SUFFICES ASSUME NEW i \in 1..n, i <= t.at, NEW k \in DOMAIN q.ops[i].in
               PROVE  HasOutput(q.ops[q.ops[i].in[k]])
    BY <1>1, <1>2 DEF ComputedTo, Wrote
  <2>1. CASE i = t.at
    <3>1. q.ops[i] = o /\ o.in[k] \in 1..(t.at - 1) /\ HasOutput(t.ops[o.in[k]])
      BY <1>1, <1>3, <2>1 DEF Fits
    <3>2. o.in[k] \in 1..n
      BY <1>1, <3>1
    <3> QED
      BY <1>5, <3>1, <3>2
  <2>2. CASE i # t.at
    <3>1. q.ops[i] = t.ops[i]
      BY <1>3, <2>2
    <3>2. HasOutput(t.ops[t.ops[i].in[k]])
      BY <1>1, <3>1 DEF Visiting, FoldOk, ComputedTo
    <3>3. t.ops[i].in[k] \in 1..(i - 1)
      BY <1>0, <3>1, VisitingFacts
    <3>4. t.ops[i].in[k] \in 1..n
      BY <3>3
    <3> QED
      BY <1>5, <3>1, <3>2, <3>4
  <2> QED
    BY <2>1, <2>2
<1>8. RenamedAfter(q, q.at)
  <2> SUFFICES ASSUME NEW i \in 1..n, i > t.at, NEW k \in DOMAIN q.ops[i].in
               PROVE  HasOutput(q.ops[Renamed(q, q.ops[i].in[k])])
    BY <1>1, <1>2 DEF RenamedAfter, Wrote
  <2>1. q.ops[i] = t.ops[i]
    BY <1>1, <1>3
  <2>2. HasOutput(t.ops[Renamed(t, t.ops[i].in[k])])
    BY <1>1, <2>1 DEF Visiting, FoldOk, RenamedAfter
  <2>3. t.ops[i].in[k] \in 1..(i - 1)
    BY <1>0, <2>1, VisitingFacts
  <2>4. Renamed(q, q.ops[i].in[k]) = Renamed(t, t.ops[i].in[k])
    BY <2>1 DEF Renamed, Wrote
  <2>5. Renamed(t, t.ops[i].in[k]) \in 1..t.ops[i].in[k]
    BY <2>3, RenamedFacts DEF Visiting, FoldOk
  <2>6. Renamed(t, t.ops[i].in[k]) \in 1..n
    BY <2>3, <2>5
  <2> QED
    BY <1>5, <2>2, <2>4, <2>6
<1>9. Visiting(q)
  BY <1>1, <1>2, <1>4, <1>6, <1>7, <1>8 DEF Visiting, FoldOk, Wrote
<1>10. ASSUME ~q.progress
       PROVE  \A i \in 1..n : \A v : UsesBy(q.ops[i], v) = UsesBy(t.ops[i], v)
  <2>1. \A v : UsesBy(o, v) = UsesBy(Cur(t), v)
    BY <1>10 DEF Wrote
  <2> QED
    BY <1>1, <1>3, <2>1
<1>11. t.progress => q.progress
  BY DEF Wrote
<1> QED
  BY <1>1, <1>2, <1>9, <1>10, <1>11 DEF After, Wrote

LEMMA PutAfter ==
    ASSUME NEW t, Visiting(t), NEW o, Fits(t, o)
    PROVE  After(t, Put(t, o))
<1>1. Wrote(t, Put(t, o), o)
  BY VisitingFacts DEF Put, Wrote
<1> QED
  BY <1>1, WriteAfter

LEMMA RenameToAfter ==
    ASSUME NEW t, Visiting(t), Cur(t).op # "nop",
           NEW x \in 1..(t.at - 1), HasOutput(t.ops[x])
    PROVE  After(t, RenameTo(t, x))
<1>0. PICK n \in Nat : n = Len(t.ops)
  BY VisitingFacts
<1>1. /\ t.at \in 1..n /\ DOMAIN t.ops = 1..n /\ Cur(t) = t.ops[t.at]
      /\ DOMAIN t = {"ops", "nUse", "unsafe", "at", "rename", "progress"}
  BY <1>0, VisitingFacts
<1>2. PICK q : q = RenameTo(t, x)
  OBVIOUS
<1>3. /\ DOMAIN q = DOMAIN t
      /\ q.ops = [t.ops EXCEPT ![t.at] = Blank]
      /\ q.at = t.at /\ q.nUse = t.nUse /\ q.unsafe = t.unsafe
      /\ q.rename = Append(t.rename, <<t.at, x>>) /\ q.progress = TRUE
  BY <1>1, <1>2 DEF RenameTo
<1>4. IsProcedure(q.ops) /\ DOMAIN q.ops = DOMAIN t.ops
  <2>1. IsProcedure(t.ops)
    BY DEF Visiting, FoldOk, IsState
  <2> QED
    BY <1>1, <1>3, <2>1, BlankFacts, ProcedureChanges
<1>5. \A j \in 1..n : q.ops[j] = IF j = t.at THEN Blank ELSE t.ops[j]
  BY <1>1, <1>3
<1>6. IsState(q)
  BY <1>1, <1>3, <1>4 DEF IsState
<1>7. t.rename \in Seq(Nat \X Nat) /\ RenamesBefore(t)
  BY DEF Visiting, FoldOk, RenamesBefore
<1>8. RenamesBefore(q)
  <2>1. PICK r : r = t.rename
    OBVIOUS
  <2>2. PICK m \in Nat : m = Len(r)
    BY <1>7, <2>1
  <2>3. /\ q.rename \in Seq(Nat \X Nat) /\ Len(q.rename) = m + 1
        /\ q.rename[m + 1] = <<t.at, x>>
        /\ \A k \in 1..m : q.rename[k] = r[k]
    <3>1. <<t.at, x>> \in Nat \X Nat
      BY <1>1
    <3> QED
      BY <1>3, <1>7, <2>1, <2>2, <3>1
  <2>4. ASSUME NEW k \in 1..(m + 1)
        PROVE  /\ q.rename[k][1] \in DOMAIN q.ops
               /\ q.rename[k][2] \in 1..(q.rename[k][1] - 1)
               /\ q.ops[q.rename[k][1]].op = "nop"
    <3>1. CASE k = m + 1
      BY <1>1, <1>4, <1>5, <2>3, <3>1, BlankFacts
    <3>2. CASE k \in 1..m
      <4>1. /\ r[k][1] \in DOMAIN t.ops /\ r[k][2] \in 1..(r[k][1] - 1)
            /\ t.ops[r[k][1]].op = "nop"
        BY <1>7, <2>1, <2>2, <3>2 DEF RenamesBefore
      <4>2. q.rename[k] = r[k]
        BY <2>3, <3>2
      <4> QED
        BY <1>1, <1>4, <1>5, <4>1, <4>2, BlankFacts
    <3> QED
      BY <3>1, <3>2
  <2> QED
    BY <2>3, <2>4 DEF RenamesBefore
<1>9. ComputedTo(q, q.at)
  <2> SUFFICES ASSUME NEW i \in 1..n, i <= t.at, NEW k \in DOMAIN q.ops[i].in
               PROVE  HasOutput(q.ops[q.ops[i].in[k]])
    BY <1>1, <1>3, <1>4 DEF ComputedTo
  <2>1. CASE i = t.at
    BY <1>1, <1>5, <2>1, BlankFacts
  <2>2. CASE i # t.at
    <3>1. q.ops[i] = t.ops[i]
      BY <1>5, <2>2
    <3>2. HasOutput(t.ops[t.ops[i].in[k]])
      BY <1>1, <3>1 DEF Visiting, FoldOk, ComputedTo
    <3>3. t.ops[i].in[k] \in 1..(i - 1)
      BY <1>0, <3>1, VisitingFacts
    <3>4. t.ops[i].in[k] \in 1..n /\ t.ops[i].in[k] # t.at
      BY <1>1, <3>3
    <3> QED
      BY <1>5, <3>1, <3>2, <3>4
  <2> QED
    BY <2>1, <2>2
<1>10. RenamedAfter(q, q.at)
  <2> SUFFICES ASSUME NEW i \in 1..n, i > t.at, NEW k \in DOMAIN q.ops[i].in
               PROVE  HasOutput(q.ops[Renamed(q, q.ops[i].in[k])])
    BY <1>1, <1>3, <1>4 DEF RenamedAfter
  <2>1. q.ops[i] = t.ops[i]
    BY <1>1, <1>5
  <2>2. PICK v : v = t.ops[i].in[k]
    OBVIOUS
  <2>3. HasOutput(t.ops[Renamed(t, v)])
    BY <1>1, <2>1, <2>2 DEF Visiting, FoldOk, RenamedAfter
  <2>4. v \in 1..(i - 1)
    BY <1>0, <2>1, <2>2, VisitingFacts
  <2>5. Renamed(t, v) \in 1..n
    <3>1. Renamed(t, v) \in 1..v
      BY <1>7, <2>4, RenamedFacts
    <3> QED
      BY <2>4, <3>1
  <2>6. Renamed(q, v) = IF Renamed(t, v) = t.at THEN x ELSE Renamed(t, v)
    <3>1. t.at \in Nat /\ x \in Nat /\ v \in Nat
      BY <1>1, <2>4
    <3> QED
      BY <1>3, <1>7, <3>1, RenamedByOneMore DEF Renamed
  <2>7. x \in 1..n /\ x # t.at
    BY <1>1
  <2> QED
    BY <1>5, <2>1, <2>2, <2>3, <2>5, <2>6, <2>7
<1>11. Visiting(q)
  BY <1>1, <1>3, <1>4, <1>6, <1>8, <1>9, <1>10 DEF Visiting, FoldOk
<1> QED
  BY <1>2, <1>3, <1>4, <1>11 DEF After

-----------------------------------------------------------------------------
(* The rules of folding, in the order of the code.                         *)

(* The operation visited may use x.                                        *)
Ready(t, x) == x \in 1..(t.at - 1) /\ HasOutput(t.ops[x])

LEMMA CurFacts ==
    ASSUME NEW t, Visiting(t)
    PROVE  /\ IsOperation(Cur(t)) /\ t.at \in Nat
           /\ Arity(t) = Len(Cur(t).in) /\ Arity(t) \in Nat
           /\ DOMAIN Cur(t).in = 1..Arity(t) /\ Cur(t).in \in Seq(Nat)
BY VisitingFacts, OperationFacts DEF Arity

LEMMA OperandFacts ==
    ASSUME NEW t, Visiting(t), NEW k \in 1..Arity(t)
    PROVE  /\ Cur(t).in[k] \in Nat /\ Ready(t, Cur(t).in[k])
           /\ IsOperation(N(t, k)) /\ HasOutput(N(t, k))
           /\ \A j \in 1..Len(N(t, k).in) :
                N(t, k).in[j] \in Nat /\ Ready(t, N(t, k).in[j])
<1>1. k \in DOMAIN Cur(t).in /\ t.at \in Nat
  BY CurFacts
<1>2. PICK x : x = Cur(t).in[k]
  OBVIOUS
<1>3. PICK n : n = N(t, k)
  OBVIOUS
<1>4. /\ n = t.ops[x] /\ x \in 1..(t.at - 1) /\ HasOutput(n) /\ IsOperation(n)
      /\ \A j \in DOMAIN n.in : n.in[j] \in 1..(t.at - 1) /\ HasOutput(t.ops[n.in[j]])
  BY <1>1, <1>2, <1>3, VisitingFacts
<1>5. DOMAIN n.in = 1..Len(n.in)
  BY <1>4, OperationFacts
<1>6. x \in Nat /\ Ready(t, x)
  BY <1>1, <1>4 DEF Ready
<1>7. \A j \in 1..Len(n.in) : n.in[j] \in Nat /\ Ready(t, n.in[j])
  BY <1>1, <1>4, <1>5 DEF Ready
<1> QED
  BY <1>2, <1>3, <1>4, <1>6, <1>7

LEMMA SameUses ==
    ASSUME NEW o, NEW q, q.label = o.label, q.alt = o.alt, NEW x \in Nat, NEW y \in Nat,
           \/ q.in = o.in
           \/ o.in = <<x, y>> /\ q.in = <<y, x>>,
           NEW v
    PROVE  UsesBy(q, v) = UsesBy(o, v)
<1>1. \A r : UsesBy(r, v) = Occurrences(r.in, v)
                + (IF r.alt = v /\ (\E k \in DOMAIN r.label : r.label[k] = "exit") THEN 1 ELSE 0)
  BY DEF UsesBy, Occurrences
<1>2. Occurrences(q.in, v) = Occurrences(o.in, v)
  <2>1. ASSUME o.in = <<x, y>>, q.in = <<y, x>>
        PROVE  Occurrences(q.in, v) = Occurrences(o.in, v)
    <3>1. Occurrences(q.in, v) = OneIf(y, v) + OneIf(x, v)
      BY <2>1, FewOperands
    <3>2. Occurrences(o.in, v) = OneIf(x, v) + OneIf(y, v)
      BY <2>1, FewOperands
    <3>3. OneIf(x, v) \in Nat /\ OneIf(y, v) \in Nat
      BY DEF OneIf
    <3> QED
      BY <3>1, <3>2, <3>3
  <2> QED
    BY <2>1
<1>3. PICK a : a = Occurrences(q.in, v)
  OBVIOUS
<1> QED
  BY <1>1, <1>2, <1>3

LEMMA SwapFits ==
    ASSUME NEW t, Visiting(t), Arity(t) = 2, Cur(t).op \in Symmetric \cup Ordered
    PROVE  /\ Fits(t, SwapIn(Cur(t)))
           /\ \A v : UsesBy(SwapIn(Cur(t)), v) = UsesBy(Cur(t), v)
<1>1. PICK o : o = Cur(t)
  OBVIOUS
<1>2. PICK q : q = SwapIn(o)
  OBVIOUS
<1>3. /\ IsOperation(o)
      /\ DOMAIN o = {"op", "jump", "hasImm", "in", "imm", "label", "alt"}
      /\ o.in \in Seq(Nat) /\ Len(o.in) = 2
      /\ Ready(t, o.in[1]) /\ Ready(t, o.in[2])
      /\ o.in[1] \in Nat /\ o.in[2] \in Nat
  <2>1. IsOperation(o) /\ o.in \in Seq(Nat) /\ Len(o.in) = 2
    BY <1>1, CurFacts
  <2>2. 1 \in 1..Arity(t) /\ 2 \in 1..Arity(t)
    OBVIOUS
  <2>3. \A k \in 1..Arity(t) : o.in[k] \in Nat /\ Ready(t, o.in[k])
    BY <1>1, OperandFacts
  <2> QED
    BY <2>1, <2>2, <2>3, OperationFacts
<1>4. /\ DOMAIN q = DOMAIN o
      /\ q.in = <<o.in[2], o.in[1]>>
      /\ q.op = IF o.op \in Ordered THEN Swapped[o.op] ELSE o.op
      /\ q.jump = o.jump /\ q.hasImm = o.hasImm /\ q.label = o.label /\ q.alt = o.alt
  BY <1>2, <1>3 DEF SwapIn
<1>5. /\ o.op \in Binaries /\ q.op \in Binaries
      /\ o.op \in Compares => q.op \in Compares
      /\ o.op \notin {"nop", "iret", "si", "s2i", "jz", "jnz", "jmp"}
      /\ q.op \notin {"nop", "iret", "si", "s2i", "jz", "jnz", "jmp"}
  BY <1>1, <1>4, Opcodes DEF Symmetric, Binaries
<1>6. IsOperation(q)
  <2>1. nInputs(q) = IF q.hasImm THEN 1 ELSE 2
    BY <1>5, BinaryInputs
  <2>2. nInputs(o) = IF o.hasImm THEN 1 ELSE 2
    BY <1>5, BinaryInputs
  <2>3. Len(q.in) = 2 /\ q.in \in Seq(Nat)
    BY <1>3, <1>4
  <2>4. nInputs(o) = 2
    BY <1>3 DEF IsOperation
  <2> QED
    BY <1>3, <1>4, <1>5, <2>1, <2>2, <2>3, <2>4 DEF IsOperation
<1>7. Fits(t, q)
  <2>1. \A k \in DOMAIN q.in : Ready(t, q.in[k])
    BY <1>3, <1>4
  <2>2. HasOutput(o) => HasOutput(q)
    BY <1>4, <1>5 DEF HasOutput
  <2> QED
    BY <1>1, <1>5, <1>6, <2>1, <2>2 DEF Fits, Ready
<1>8. \A v : UsesBy(q, v) = UsesBy(o, v)
  <2>1. o.in = <<o.in[1], o.in[2]>>
    BY <1>3
  <2> QED
    BY <1>3, <1>4, <2>1, SameUses
<1> QED
  BY <1>1, <1>2, <1>7, <1>8

LEMMA SortOperandsAfter ==
    ASSUME NEW t, Visiting(t)
    PROVE  After(t, SortOperands(t))
<1>1. CASE /\ Arity(t) = 2 /\ ~Cur(t).jump /\ Cur(t).op \in Symmetric \cup Ordered
           /\ ~IsConst(t, 1) /\ ~IsConst(t, 2)
           /\ shouldSwap(Cur(t).in[1], Cur(t).in[2])
  <2>1. PICK o : o = SwapIn(Cur(t))
    OBVIOUS
  <2>2. Fits(t, o) /\ \A v : UsesBy(o, v) = UsesBy(Cur(t), v)
    BY <1>1, <2>1, SwapFits
  <2>3. SortOperands(t) = [t EXCEPT !.ops[t.at] = o]
    BY <1>1, <2>1 DEF SortOperands
  <2>4. Wrote(t, SortOperands(t), o)
    BY <2>2, <2>3, VisitingFacts DEF Wrote
  <2> QED
    BY <2>2, <2>4, WriteAfter
<1>2. CASE SortOperands(t) = t
  BY <1>2, AfterSelf
<1> QED
  BY <1>1, <1>2 DEF SortOperands

LEMMA PutReady ==
    ASSUME NEW t, Visiting(t), NEW o, IsOperation(o),
           \A k \in 1..Len(o.in) : Ready(t, o.in[k]),
           Cur(t).op # "nop", HasOutput(Cur(t)) => HasOutput(o)
    PROVE  After(t, Put(t, o))
<1>1. DOMAIN o.in = 1..Len(o.in)
  BY OperationFacts
<1>2. Fits(t, o)
  BY <1>1 DEF Fits, Ready
<1> QED
  BY <1>2, PutAfter

LEMMA RenameReady ==
    ASSUME NEW t, Visiting(t), Cur(t).op # "nop", NEW x, Ready(t, x)
    PROVE  After(t, RenameTo(t, x))
BY RenameToAfter DEF Ready

(* What makes a record an operation.                                       *)
LEMMA MakesOperation ==
    ASSUME NEW o, DOMAIN o = {"op", "jump", "hasImm", "in", "imm", "label", "alt"},
           o.jump \in BOOLEAN, o.hasImm \in BOOLEAN, o.in \in Seq(Nat),
           IF o.jump THEN o.op \in {"jz", "jnz", "jmp"} \cup Compares
                     ELSE o.label = << >> /\ o.op \notin {"jz", "jnz", "jmp"},
           \/ o.op \in Binaries /\ Len(o.in) = (IF o.hasImm THEN 1 ELSE 2)
           \/ o.op \in {"jz", "jnz", "ineg", "inot", "dneg", "li"} /\ Len(o.in) = 1
           \/ o.op \in {"si", "l2i"} /\ Len(o.in) = 2
           \/ o.op = "s2i" /\ Len(o.in) = 3
           \/ o.op = "iret" /\ Len(o.in) = (IF o.hasImm THEN 0 ELSE 1)
           \/ o.op \in {"nop", "alloc", "arg", "lci", "lcd", "jmp"} /\ Len(o.in) = 0
    PROVE  IsOperation(o)
<1>1. Len(o.in) = nInputs(o)
  <2>1. CASE o.op \in Binaries /\ Len(o.in) = IF o.hasImm THEN 1 ELSE 2
    BY <2>1, BinaryInputs
  <2>2. CASE ~(o.op \in Binaries /\ Len(o.in) = IF o.hasImm THEN 1 ELSE 2)
    BY <2>2 DEF nInputs
  <2> QED
    BY <2>1, <2>2
<1> QED
  BY <1>1, BlankFacts DEF IsOperation

Lcd(x) == [Lci(x) EXCEPT !.op = "lcd"]

LEMMA ConstantsAreOperations ==
    ASSUME NEW o, \E x : o = Lci(x) \/ o = Lcd(x)
    PROVE  IsOperation(o) /\ HasOutput(o) /\ Len(o.in) = 0
<1>1. PICK x : o = Lci(x) \/ o = Lcd(x)
  OBVIOUS
<1>2. PICK q : q = Lci(x)
  OBVIOUS
<1>3. /\ DOMAIN q = {"op", "jump", "hasImm", "in", "imm", "label", "alt"} /\ q.op = "lci"
      /\ q.jump = FALSE /\ q.hasImm = FALSE /\ q.in = << >> /\ q.label = << >>
  BY <1>2, BlankFacts DEF Lci
<1>4. /\ DOMAIN o = {"op", "jump", "hasImm", "in", "imm", "label", "alt"}
      /\ o.op \in {"lci", "lcd"}
      /\ o.jump = FALSE /\ o.hasImm = FALSE /\ o.in = << >> /\ o.label = << >>
  BY <1>1, <1>2, <1>3 DEF Lcd
<1>5. o.in \in Seq(Nat) /\ Len(o.in) = 0
  BY <1>4
<1>6. IsOperation(o)
  BY <1>4, <1>5, MakesOperation
<1> QED
  BY <1>4, <1>5, <1>6 DEF HasOutput

LEMMA PutConstant ==
    ASSUME NEW t, Visiting(t), Cur(t).op # "nop", NEW o, \E x : o = Lci(x) \/ o = Lcd(x)
    PROVE  After(t, Put(t, o))
<1>1. IsOperation(o) /\ HasOutput(o) /\ Len(o.in) = 0
  BY ConstantsAreOperations
<1> QED
  BY <1>1, PutReady

(* The operand of a unary operation, the operands of others.               *)
LEMMA FirstReady ==
    ASSUME NEW t, Visiting(t), Arity(t) >= 1
    PROVE  /\ Cur(t).in[1] \in Nat /\ Ready(t, Cur(t).in[1])
           /\ IsOperation(N(t, 1)) /\ HasOutput(N(t, 1))
           /\ N(t, 1).in \in Seq(Nat) /\ Len(N(t, 1).in) \in Nat
           /\ \A j \in 1..Len(N(t, 1).in) :
                N(t, 1).in[j] \in Nat /\ Ready(t, N(t, 1).in[j])
<1>1. 1 \in 1..Arity(t)
  BY CurFacts
<1> QED
  BY <1>1, OperandFacts, OperationFacts

LEMMA SecondReady ==
    ASSUME NEW t, Visiting(t), Arity(t) >= 2
    PROVE  /\ Cur(t).in[2] \in Nat /\ Ready(t, Cur(t).in[2])
           /\ IsOperation(N(t, 2)) /\ HasOutput(N(t, 2))
           /\ N(t, 2).in \in Seq(Nat) /\ Len(N(t, 2).in) \in Nat
           /\ \A j \in 1..Len(N(t, 2).in) :
                N(t, 2).in[j] \in Nat /\ Ready(t, N(t, 2).in[j])
<1>1. 2 \in 1..Arity(t)
  BY CurFacts
<1> QED
  BY <1>1, OperandFacts, OperationFacts

(* Opcodes of rules that ask for an immediate, or for none.                *)
LEMMA IsFacts ==
    ASSUME NEW o, IsOperation(o), NEW c
    PROVE  /\ Is(o, c) \/ IsI(o, c) => o.op = c /\ o.jump = FALSE /\ o.label = << >>
           /\ IsI(o, c) => o.hasImm = TRUE
           /\ Is(o, c) => o.hasImm = FALSE
           /\ IsI(o, c) /\ c \in Binaries => Len(o.in) = 1
           /\ Is(o, c) /\ c \in Binaries => Len(o.in) = 2
           /\ Is(o, c) /\ c \in {"ineg", "inot", "dneg", "li"} => Len(o.in) = 1
<1>1. o.jump \in BOOLEAN /\ o.hasImm \in BOOLEAN /\ (~o.jump => o.label = << >>)
  BY OperationFacts
<1>2. o.op \in Binaries => Len(o.in) = IF o.hasImm THEN 1 ELSE 2
  BY OperationFacts
<1>3. o.op \in {"ineg", "inot", "dneg", "li"} => Len(o.in) = 1
  BY OperationFacts
<1> QED
  BY <1>1, <1>2, <1>3 DEF Is, IsI

LEMMA InvertTestAfter ==
    ASSUME NEW t, Visiting(t)
    PROVE  After(t, InvertTest(t))
<1>1. CASE InvertTest(t) = t
  BY <1>1, AfterSelf
<1>2. CASE InvertTest(t) # t
  <2>1. PICK n : n = N(t, 1)
    OBVIOUS
  <2>2. PICK o : o = [n EXCEPT !.op = IF Cur(t).op = "ieq" THEN Negated[@] ELSE @]
    OBVIOUS
  <2>3. /\ InvertTest(t) = Put(t, o)
        /\ IsI(Cur(t), "ieq") \/ IsI(Cur(t), "ine")
        /\ n.op \in Ordered /\ ~n.jump
    BY <1>2, <2>1, <2>2 DEF InvertTest
  <2>4. Arity(t) = 1 /\ Cur(t).op # "nop"
    <3>1. PICK c : c = Cur(t)
      OBVIOUS
    <3>2. IsOperation(c) /\ Arity(t) = Len(c.in)
      BY <3>1, CurFacts
    <3>3. "ieq" \in Binaries /\ "ine" \in Binaries
      BY Opcodes DEF Binaries
    <3>4. c.op \in {"ieq", "ine"} /\ Len(c.in) = 1
      BY <2>3, <3>1, <3>2, <3>3, IsFacts
    <3> QED
      BY <3>1, <3>2, <3>4
  <2>5. IsOperation(n) /\ \A j \in 1..Len(n.in) : Ready(t, n.in[j])
    BY <2>1, <2>4, FirstReady
  <2>6. /\ DOMAIN o = {"op", "jump", "hasImm", "in", "imm", "label", "alt"}
        /\ o.in = n.in /\ o.jump = n.jump /\ o.hasImm = n.hasImm /\ o.label = n.label
        /\ o.op \in Compares
    BY <2>2, <2>3, <2>5, OperationFacts, Opcodes
  <2>7. IsOperation(o)
    <3>1. o.op \in Binaries /\ n.op \in Binaries /\ o.op \notin {"jz", "jnz", "jmp"}
      BY <2>3, <2>6, Opcodes DEF Binaries
    <3>2. /\ n.jump \in BOOLEAN /\ n.hasImm \in BOOLEAN /\ n.in \in Seq(Nat) /\ n.label = << >>
          /\ Len(n.in) = IF n.hasImm THEN 1 ELSE 2
      BY <2>3, <2>5, <3>1, OperationFacts
    <3> QED
      BY <2>3, <2>6, <3>1, <3>2, MakesOperation
  <2>8. HasOutput(o)
    BY <2>3, <2>6, Opcodes DEF HasOutput
  <2> QED
    BY <2>3, <2>4, <2>5, <2>6, <2>7, <2>8, PutReady
<1> QED
  BY <1>1, <1>2

LEMMA ImmediateAfter ==
    ASSUME NEW t, Visiting(t)
    PROVE  After(t, Immediate(t))
<1>1. CASE Immediate(t) = t
  BY <1>1, AfterSelf
<1>2. CASE Immediate(t) # t
  <2>1. PICK c : c = Cur(t)
    OBVIOUS
  <2>2. PICK o : o = [c EXCEPT !.hasImm = TRUE, !.imm = N(t, 2).imm, !.in = <<@[1]>>]
    OBVIOUS
  <2>3. Immediate(t) = Put(t, o) /\ Arity(t) = 2 /\ c.op \in ImmOps
    BY <1>2, <2>1, <2>2 DEF Immediate
  <2>4. IsOperation(c) /\ c.in[1] \in Nat /\ Ready(t, c.in[1])
    <3>1. IsOperation(c)
      BY <2>1, CurFacts
    <3>2. Arity(t) >= 1
      BY <2>3
    <3>3. Cur(t).in[1] \in Nat /\ Ready(t, Cur(t).in[1])
      BY <3>2, FirstReady
    <3> QED
      BY <2>1, <3>1, <3>3
  <2>5. /\ c.op \in Binaries /\ c.op # "nop"
        /\ c.op \notin {"jz", "jnz", "jmp", "iret", "si", "s2i"}
    BY <2>3, Opcodes
  <2>6. /\ DOMAIN o = {"op", "jump", "hasImm", "in", "imm", "label", "alt"}
        /\ o.in = <<c.in[1]>> /\ o.hasImm = TRUE
        /\ o.op = c.op /\ o.jump = c.jump /\ o.label = c.label
    BY <2>2, <2>4, OperationFacts
  <2>7. IsOperation(o)
    <3>1. /\ c.jump \in BOOLEAN
          /\ IF c.jump THEN c.op \in {"jz", "jnz", "jmp"} \cup Compares
                       ELSE c.label = << >> /\ c.op \notin {"jz", "jnz", "jmp"}
      BY <2>4 DEF IsOperation
    <3>2. o.in \in Seq(Nat) /\ Len(o.in) = 1
      BY <2>4, <2>6
    <3> QED
      BY <2>5, <2>6, <3>1, <3>2, MakesOperation
  <2>8. HasOutput(c) => HasOutput(o)
    BY <2>6 DEF HasOutput
  <2>9. \A k \in 1..Len(o.in) : Ready(t, o.in[k])
    BY <2>4, <2>6
  <2> QED
    BY <2>1, <2>3, <2>5, <2>7, <2>8, <2>9, PutReady
<1> QED
  BY <1>1, <1>2

LEMMA JumpOnTestAfter ==
    ASSUME NEW t, Visiting(t)
    PROVE  After(t, JumpOnTest(t))
<1>1. CASE JumpOnTest(t) = t
  BY <1>1, AfterSelf
<1>2. CASE JumpOnTest(t) # t
  <2>1. PICK n : n = N(t, 1)
    OBVIOUS
  <2>2. PICK c : c = Cur(t)
    OBVIOUS
  <2>3. PICK o : o = [n EXCEPT !.op = IF c.op = "jz" THEN Negated[@] ELSE @,
                               !.jump = TRUE, !.label = c.label, !.alt = c.alt]
    OBVIOUS
  <2>4. /\ JumpOnTest(t) = Put(t, o)
        /\ c.op \in {"jz", "jnz"} /\ ~n.jump
        /\ n.op \in Compares
    BY <1>2, <2>1, <2>2, <2>3, Opcodes DEF JumpOnTest, FoldedTests
  <2>5. IsOperation(c) /\ Arity(t) = 1 /\ c.op # "nop" /\ ~HasOutput(c)
    <3>1. IsOperation(c) /\ Arity(t) = Len(c.in)
      BY <2>2, CurFacts
    <3>2. Len(c.in) = 1 /\ c.jump
      BY <2>4, <3>1, OperationFacts DEF IsOperation
    <3> QED
      BY <2>4, <3>1, <3>2 DEF HasOutput
  <2>6. IsOperation(n) /\ \A j \in 1..Len(n.in) : Ready(t, n.in[j])
    BY <2>1, <2>5, FirstReady
  <2>7. /\ DOMAIN o = {"op", "jump", "hasImm", "in", "imm", "label", "alt"}
        /\ o.in = n.in /\ o.jump = TRUE /\ o.hasImm = n.hasImm
        /\ o.op \in Compares
    BY <2>3, <2>4, <2>6, OperationFacts, Opcodes
  <2>8. IsOperation(o)
    <3>1. o.op \in Binaries /\ n.op \in Binaries
      BY <2>4, <2>7, Opcodes DEF Binaries
    <3>2. /\ n.hasImm \in BOOLEAN /\ n.in \in Seq(Nat)
          /\ Len(n.in) = IF n.hasImm THEN 1 ELSE 2
      BY <2>6, <3>1, OperationFacts
    <3> QED
      BY <2>7, <3>1, <3>2, MakesOperation
  <2> QED
    BY <2>2, <2>4, <2>5, <2>6, <2>7, <2>8, PutReady
<1> QED
  BY <1>1, <1>2

-----------------------------------------------------------------------------
(* Rules that put a value in the place of a value.                         *)

(* A value with opcode c.                                                  *)
IsValue(o, c, imm) ==
    /\ DOMAIN o = {"op", "jump", "hasImm", "in", "imm", "label", "alt"}
    /\ o.op = c /\ o.jump = FALSE /\ o.hasImm = imm /\ o.label = << >>

Unaries == {"ineg", "inot", "dneg"}

LEMMA PutOne ==
    ASSUME NEW t, Visiting(t), Cur(t).op # "nop", NEW x, Ready(t, x),
           NEW o, NEW c, o.in = <<x>>,
           \/ IsValue(o, c, TRUE) /\ c \in Binaries
           \/ IsValue(o, c, FALSE) /\ c \in Unaries
    PROVE  After(t, Put(t, o))
<1>1. x \in Nat
  BY CurFacts DEF Ready
<1>2. o.in \in Seq(Nat) /\ Len(o.in) = 1 /\ \A k \in 1..Len(o.in) : Ready(t, o.in[k])
  BY <1>1
<1>3. c \notin {"jz", "jnz", "jmp", "iret", "si", "s2i", "nop"}
  BY Opcodes DEF Unaries
<1>4. /\ DOMAIN o = {"op", "jump", "hasImm", "in", "imm", "label", "alt"}
      /\ o.op = c /\ o.jump = FALSE /\ o.label = << >> /\ o.hasImm \in BOOLEAN
      /\ \/ c \in Binaries /\ o.hasImm = TRUE
         \/ c \in Unaries
  BY DEF IsValue
<1>5. IsOperation(o)
  BY <1>2, <1>3, <1>4, MakesOperation DEF Unaries
<1>6. HasOutput(o)
  BY <1>3, <1>4 DEF HasOutput
<1> QED
  BY <1>2, <1>5, <1>6, PutReady

LEMMA PutTwo ==
    ASSUME NEW t, Visiting(t), Cur(t).op # "nop", NEW x, Ready(t, x), NEW y, Ready(t, y),
           NEW o, NEW c \in Binaries \cup {"l2i"}, o.in = <<x, y>>, IsValue(o, c, FALSE)
    PROVE  After(t, Put(t, o))
<1>1. x \in Nat /\ y \in Nat
  BY CurFacts DEF Ready
<1>2. o.in \in Seq(Nat) /\ Len(o.in) = 2 /\ \A k \in 1..Len(o.in) : Ready(t, o.in[k])
  BY <1>1
<1>3. c \notin {"jz", "jnz", "jmp", "iret", "si", "s2i", "nop"}
  BY Opcodes
<1>4. /\ DOMAIN o = {"op", "jump", "hasImm", "in", "imm", "label", "alt"}
      /\ o.op = c /\ o.jump = FALSE /\ o.label = << >> /\ o.hasImm = FALSE
  BY DEF IsValue
<1>5. IsOperation(o)
  BY <1>2, <1>3, <1>4, MakesOperation
<1>6. HasOutput(o)
  BY <1>3, <1>4 DEF HasOutput
<1> QED
  BY <1>2, <1>5, <1>6, PutReady

(* The operation visited, when a rule asks for its opcode.                 *)
LEMMA CurIs ==
    ASSUME NEW t, Visiting(t), NEW c
    PROVE  /\ IsI(Cur(t), c) /\ c \in Binaries =>
                /\ IsValue(Cur(t), c, TRUE) /\ c # "nop" /\ Arity(t) = 1
                /\ Ready(t, Cur(t).in[1]) /\ Cur(t).in = <<Cur(t).in[1]>>
           /\ Is(Cur(t), c) /\ c \in Binaries =>
                /\ IsValue(Cur(t), c, FALSE) /\ c # "nop" /\ Arity(t) = 2
                /\ Ready(t, Cur(t).in[1]) /\ Ready(t, Cur(t).in[2])
                /\ Cur(t).in = <<Cur(t).in[1], Cur(t).in[2]>>
           /\ Is(Cur(t), c) /\ c \in Unaries =>
                /\ IsValue(Cur(t), c, FALSE) /\ c # "nop" /\ Arity(t) = 1
                /\ Ready(t, Cur(t).in[1]) /\ Cur(t).in = <<Cur(t).in[1]>>
<1>1. PICK o : o = Cur(t)
  OBVIOUS
<1>2. IsOperation(o) /\ Arity(t) = Len(o.in) /\ o.in \in Seq(Nat)
  BY <1>1, CurFacts
<1>3. /\ Is(o, c) => IsValue(o, c, FALSE)
      /\ IsI(o, c) => IsValue(o, c, TRUE)
  BY <1>2, IsFacts, OperationFacts DEF IsValue
<1>4. c \in Binaries \cup Unaries => c # "nop"
  BY Opcodes DEF Unaries
<1>5. /\ IsI(o, c) /\ c \in Binaries => Len(o.in) = 1
      /\ Is(o, c) /\ c \in Binaries => Len(o.in) = 2
      /\ Is(o, c) /\ c \in Unaries => Len(o.in) = 1
  BY <1>2, IsFacts DEF Unaries
<1>6. /\ Len(o.in) = 1 => o.in = <<o.in[1]>>
      /\ Len(o.in) = 2 => o.in = <<o.in[1], o.in[2]>>
  BY <1>2
<1>7. /\ Len(o.in) = 1 => Ready(t, o.in[1])
      /\ Len(o.in) = 2 => Ready(t, o.in[1]) /\ Ready(t, o.in[2])
  BY <1>1, <1>2, FirstReady, SecondReady
<1> QED
  BY <1>1, <1>2, <1>3, <1>4, <1>5, <1>6, <1>7

(* An operand, when a rule asks for its opcode.                            *)
LEMMA OperandIs ==
    ASSUME NEW t, Visiting(t), NEW k \in {1, 2}, NEW c
    PROVE  /\ InIsI(t, k, c) /\ c \in Binaries =>
                /\ Arity(t) >= k /\ Ready(t, Cur(t).in[k]) /\ IsOperation(N(t, k))
                /\ Ready(t, N(t, k).in[1]) /\ N(t, k).in = <<N(t, k).in[1]>>
           /\ InIs(t, k, c) /\ c \in Binaries =>
                /\ Arity(t) >= k /\ Ready(t, Cur(t).in[k]) /\ IsOperation(N(t, k))
                /\ Ready(t, N(t, k).in[1]) /\ Ready(t, N(t, k).in[2])
                /\ N(t, k).in = <<N(t, k).in[1], N(t, k).in[2]>>
           /\ InIs(t, k, c) /\ c \in Unaries =>
                /\ Arity(t) >= k /\ Ready(t, Cur(t).in[k]) /\ IsOperation(N(t, k))
                /\ Ready(t, N(t, k).in[1])
<1> SUFFICES ASSUME InIsI(t, k, c) \/ InIs(t, k, c)
             PROVE  /\ InIsI(t, k, c) /\ c \in Binaries =>
                        /\ Arity(t) >= k /\ Ready(t, Cur(t).in[k]) /\ IsOperation(N(t, k))
                        /\ Ready(t, N(t, k).in[1]) /\ N(t, k).in = <<N(t, k).in[1]>>
                    /\ InIs(t, k, c) /\ c \in Binaries =>
                        /\ Arity(t) >= k /\ Ready(t, Cur(t).in[k]) /\ IsOperation(N(t, k))
                        /\ Ready(t, N(t, k).in[1]) /\ Ready(t, N(t, k).in[2])
                        /\ N(t, k).in = <<N(t, k).in[1], N(t, k).in[2]>>
                    /\ InIs(t, k, c) /\ c \in Unaries =>
                        /\ Arity(t) >= k /\ Ready(t, Cur(t).in[k]) /\ IsOperation(N(t, k))
                        /\ Ready(t, N(t, k).in[1])
  OBVIOUS
<1>1. Arity(t) >= k /\ k \in 1..Arity(t)
  BY CurFacts DEF InIs, InIsI
<1>2. PICK n : n = N(t, k)
  OBVIOUS
<1>3. /\ Ready(t, Cur(t).in[k]) /\ IsOperation(n)
      /\ \A j \in 1..Len(n.in) : Ready(t, n.in[j])
  BY <1>1, <1>2, OperandFacts
<1>4. n.in \in Seq(Nat)
  BY <1>3, OperationFacts
<1>5. /\ InIsI(t, k, c) => IsI(n, c)
      /\ InIs(t, k, c) => Is(n, c)
  BY <1>2 DEF InIs, InIsI
<1>6. /\ IsI(n, c) /\ c \in Binaries => Len(n.in) = 1
      /\ Is(n, c) /\ c \in Binaries => Len(n.in) = 2
      /\ Is(n, c) /\ c \in Unaries => Len(n.in) = 1
  BY <1>3, IsFacts DEF Unaries
<1>7. /\ Len(n.in) = 1 => n.in = <<n.in[1]>> /\ Ready(t, n.in[1])
      /\ Len(n.in) = 2 => n.in = <<n.in[1], n.in[2]>> /\ Ready(t, n.in[1]) /\ Ready(t, n.in[2])
  BY <1>3, <1>4
<1> QED
  BY <1>1, <1>2, <1>3, <1>5, <1>6, <1>7

(* The opcodes the rules name.                                             *)
LEMMA NamedOpcodes ==
    /\ {"iadd", "isub", "imul", "iand", "ior", "ixor", "ishl", "ishr", "ushr", "idiv",
        "udiv", "umod", "dadd", "dsub", "dmul", "ddiv"} \subseteq Binaries
    /\ {"ineg", "inot", "dneg"} \subseteq Unaries
BY DEF Binaries, Unaries, DivOps

LEMMA IdentityAfter ==
    ASSUME NEW t, Visiting(t)
    PROVE  After(t, Identity(t))
<1>1. CASE \/ Is(Cur(t), "ineg") /\ InIs(t, 1, "ineg")
           \/ Is(Cur(t), "dneg") /\ InIs(t, 1, "dneg")
  <2>1. Cur(t).op # "nop"
    BY <1>1 DEF Is
  <2>2. Ready(t, N(t, 1).in[1])
    BY <1>1, NamedOpcodes, OperandIs
  <2> QED
    BY <1>1, <2>1, <2>2, RenameReady DEF Identity
<1>2. CASE \/ IsI(Cur(t), "iadd") /\ Cur(t).imm = 0
           \/ IsI(Cur(t), "isub") /\ Cur(t).imm = 0
           \/ IsI(Cur(t), "imul") /\ Cur(t).imm = 1
           \/ Cur(t).op \in {"dadd", "dsub"} /\ InIsDbl(t, 2, 0)
           \/ Is(Cur(t), "dmul") /\ InIsDbl(t, 2, 1)
  <2>1. Cur(t).op # "nop"
    BY <1>2 DEF Is, IsI
  <2>2. Ready(t, Cur(t).in[1])
    <3>1. CASE \E c \in {"iadd", "isub", "imul"} : IsI(Cur(t), c)
      BY <3>1, NamedOpcodes, CurIs
    <3>2. CASE InIs(t, 2, "lcd")
      <4>1. Arity(t) >= 1
        BY <3>2, CurFacts DEF InIs
      <4> QED
        BY <4>1, FirstReady
    <3> QED
      BY <1>2, <3>1, <3>2 DEF InIsDbl
  <2>3. Identity(t) = RenameTo(t, Cur(t).in[1]) \/ After(t, Identity(t))
    BY <1>1, <1>2 DEF Identity
  <2> QED
    BY <2>1, <2>2, <2>3, RenameReady
<1>3. CASE Identity(t) = t
  BY <1>3, AfterSelf
<1> QED
  BY <1>1, <1>2, <1>3 DEF Identity

LEMMA Unary ==
    ASSUME NEW c \in Unaries, NEW in
    PROVE  /\ IsValue([Blank EXCEPT !.op = c, !.in = in], c, FALSE)
           /\ [Blank EXCEPT !.op = c, !.in = in].in = in
BY BlankFacts DEF IsValue

LEMMA ConstantSecondAfter ==
    ASSUME NEW t, Visiting(t)
    PROVE  After(t, ConstantSecond(t))
<1>1. CASE ConstantSecond(t) = t
  BY <1>1, AfterSelf
<1>2. CASE ConstantSecond(t) # t
  <2>1. PICK o : o = SwapIn(Cur(t))
    OBVIOUS
  <2>2. PICK q : q = [Blank EXCEPT !.op = "ineg", !.in = <<Cur(t).in[2]>>]
    OBVIOUS
  <2>3. /\ Arity(t) = 2
        /\ \/ /\ Cur(t).op \in Symmetric \cup Ordered
              /\ \/ ConstantSecond(t) = [t EXCEPT !.ops[t.at] = o]
                 \/ ConstantSecond(t) = Put(t, o)
           \/ Is(Cur(t), "isub") /\ ConstantSecond(t) = Put(t, q)
    BY <1>2, <2>1, <2>2 DEF ConstantSecond
  <2>4. ASSUME Cur(t).op \in Symmetric \cup Ordered
        PROVE  Fits(t, o) /\ \A v : UsesBy(o, v) = UsesBy(Cur(t), v)
    BY <2>1, <2>3, <2>4, SwapFits
  <2>5. CASE Cur(t).op \in Symmetric \cup Ordered /\ ConstantSecond(t) = [t EXCEPT !.ops[t.at] = o]
    <3>1. Wrote(t, ConstantSecond(t), o)
      BY <2>4, <2>5, VisitingFacts DEF Wrote
    <3> QED
      BY <2>4, <2>5, <3>1, WriteAfter
  <2>6. CASE Cur(t).op \in Symmetric \cup Ordered /\ ConstantSecond(t) = Put(t, o)
    BY <2>4, <2>6, PutAfter
  <2>7. CASE Is(Cur(t), "isub") /\ ConstantSecond(t) = Put(t, q)
    <3>1. IsValue(q, "ineg", FALSE) /\ q.in = <<Cur(t).in[2]>>
      BY <2>2, NamedOpcodes, Unary
    <3>2. Ready(t, Cur(t).in[2])
      BY <2>3, OperandFacts, CurFacts
    <3>3. Cur(t).op # "nop"
      BY <2>7 DEF Is
    <3> QED
      BY <2>7, <3>1, <3>2, <3>3, NamedOpcodes, PutOne
  <2> QED
    BY <2>3, <2>5, <2>6, <2>7
<1> QED
  BY <1>1, <1>2

LEMMA MulBySignAfter ==
    ASSUME NEW t, Visiting(t)
    PROVE  After(t, MulBySign(t))
<1>1. CASE IsI(Cur(t), "imul") /\ MulBySign(t) = Put(t, Lci(0))
  <2>1. Cur(t).op # "nop"
    BY <1>1 DEF IsI
  <2> QED
    BY <1>1, <2>1, PutConstant
<1>2. CASE /\ IsI(Cur(t), "imul")
           /\ MulBySign(t) = Put(t, [Blank EXCEPT !.op = "ineg", !.in = Cur(t).in])
  <2>1. PICK o : o = [Blank EXCEPT !.op = "ineg", !.in = Cur(t).in]
    OBVIOUS
  <2>2. IsValue(o, "ineg", FALSE) /\ o.in = Cur(t).in
    BY <2>1, NamedOpcodes, Unary
  <2>3. /\ Ready(t, Cur(t).in[1]) /\ Cur(t).in = <<Cur(t).in[1]>>
        /\ Cur(t).op # "nop"
    BY <1>2, NamedOpcodes, CurIs DEF IsI
  <2> QED
    BY <1>2, <2>1, <2>2, <2>3, NamedOpcodes, PutOne
<1>3. CASE /\ Is(Cur(t), "dmul")
           /\ MulBySign(t) = Put(t, [Blank EXCEPT !.op = "dneg", !.in = <<Cur(t).in[1]>>])
  <2>1. PICK o : o = [Blank EXCEPT !.op = "dneg", !.in = <<Cur(t).in[1]>>]
    OBVIOUS
  <2>2. IsValue(o, "dneg", FALSE) /\ o.in = <<Cur(t).in[1]>>
    BY <2>1, NamedOpcodes, Unary
  <2>3. Ready(t, Cur(t).in[1]) /\ Cur(t).op # "nop"
    BY <1>3, NamedOpcodes, CurIs DEF Is
  <2> QED
    BY <1>3, <2>1, <2>2, <2>3, NamedOpcodes, PutOne
<1>4. CASE MulBySign(t) = t
  BY <1>4, AfterSelf
<1> QED
  BY <1>1, <1>2, <1>3, <1>4 DEF MulBySign

LEMMA OfNegatedAfter ==
    ASSUME NEW t, Visiting(t), NEW op \in Binaries, NEW neg \in Unaries, NEW to \in Binaries
    PROVE  After(t, OfNegated(t, op, neg, to))
<1>1. CASE Is(Cur(t), op) /\ InIs(t, 2, neg)
  <2>1. PICK o : o = [Cur(t) EXCEPT !.op = to, !.in = <<@[1], N(t, 2).in[1]>>]
    OBVIOUS
  <2>2. /\ IsValue(Cur(t), op, FALSE) /\ op # "nop"
        /\ Ready(t, Cur(t).in[1]) /\ Ready(t, N(t, 2).in[1])
    BY <1>1, CurIs, OperandIs
  <2>3. IsValue(o, to, FALSE) /\ o.in = <<Cur(t).in[1], N(t, 2).in[1]>>
    BY <2>1, <2>2 DEF IsValue
  <2>4. Cur(t).op # "nop"
    BY <2>2 DEF IsValue
  <2> QED
    BY <1>1, <2>1, <2>2, <2>3, <2>4, PutTwo DEF OfNegated
<1>2. CASE ~(Is(Cur(t), op) /\ InIs(t, 2, neg))
  BY <1>2, AfterSelf DEF OfNegated
<1> QED
  BY <1>1, <1>2

LEMMA NegatedPlusAfter ==
    ASSUME NEW t, Visiting(t), NEW add \in Binaries, NEW sub \in Binaries, NEW neg \in Unaries
    PROVE  After(t, NegatedPlus(t, add, sub, neg))
<1>1. CASE Is(Cur(t), add) /\ InIs(t, 1, neg)
  <2>1. PICK o : o = [Cur(t) EXCEPT !.op = sub, !.in = <<@[2], N(t, 1).in[1]>>]
    OBVIOUS
  <2>2. /\ IsValue(Cur(t), add, FALSE) /\ add # "nop"
        /\ Ready(t, Cur(t).in[2]) /\ Ready(t, N(t, 1).in[1])
    BY <1>1, CurIs, OperandIs
  <2>3. IsValue(o, sub, FALSE) /\ o.in = <<Cur(t).in[2], N(t, 1).in[1]>>
    BY <2>1, <2>2 DEF IsValue
  <2>4. Cur(t).op # "nop"
    BY <2>2 DEF IsValue
  <2> QED
    BY <1>1, <2>1, <2>2, <2>3, <2>4, PutTwo DEF NegatedPlus
<1>2. CASE ~(Is(Cur(t), add) /\ InIs(t, 1, neg))
  BY <1>2, AfterSelf DEF NegatedPlus
<1> QED
  BY <1>1, <1>2

LEMMA NegationAfter ==
    ASSUME NEW t, Visiting(t), NEW add \in Binaries, NEW sub \in Binaries, NEW neg \in Unaries
    PROVE  After(t, Negation(t, add, sub, neg))
<1>1. PICK q : q = OfNegated(t, add, neg, sub)
  OBVIOUS
<1>2. PICK r : r = OfNegated(q, sub, neg, add)
  OBVIOUS
<1>3. After(t, q)
  BY <1>1, OfNegatedAfter
<1>4. After(q, r)
  BY <1>2, <1>3, OfNegatedAfter, AfterVisits
<1>5. After(r, NegatedPlus(r, add, sub, neg))
  BY <1>4, NegatedPlusAfter, AfterVisits
<1>6. Negation(t, add, sub, neg) = NegatedPlus(r, add, sub, neg)
  BY <1>1, <1>2 DEF Negation
<1> QED
  BY <1>3, <1>4, <1>5, <1>6, AfterChain

LEMMA AbsorptionAfter ==
    ASSUME NEW t, Visiting(t)
    PROVE  After(t, Absorption(t))
<1>1. CASE Absorption(t) = t
  BY <1>1, AfterSelf
<1>2. CASE Absorption(t) # t
  <2>1. Is(Cur(t), "iand") \/ Is(Cur(t), "ior")
    BY <1>2 DEF Absorption
  <2>2. \/ Absorption(t) = RenameTo(t, Cur(t).in[1])
        \/ Absorption(t) = RenameTo(t, Cur(t).in[2])
    BY <1>2 DEF Absorption
  <2>3. Ready(t, Cur(t).in[1]) /\ Ready(t, Cur(t).in[2]) /\ Cur(t).op # "nop"
    BY <2>1, NamedOpcodes, CurIs DEF Is
  <2> QED
    BY <2>2, <2>3, RenameReady
<1> QED
  BY <1>1, <1>2

LEMMA SameOperandAfter ==
    ASSUME NEW t, Visiting(t)
    PROVE  After(t, SameOperand(t))
<1>1. CASE SameOperand(t) = t
  BY <1>1, AfterSelf
<1>2. CASE SameOperand(t) # t
  <2>1. PICK c : c = Cur(t)
    OBVIOUS
  <2>2. PICK o : o = [c EXCEPT !.op = "ishl", !.hasImm = TRUE, !.imm = 1, !.in = <<@[1]>>]
    OBVIOUS
  <2>3. /\ Arity(t) = 2 /\ ~c.jump
        /\ \/ c.op = "iadd" /\ SameOperand(t) = Put(t, o)
           \/ c.op \in {"iand", "isub", "ixor"} /\ SameOperand(t) = Put(t, Lci(0))
           \/ c.op = "dsub" /\ SameOperand(t) = Put(t, Lcd(0))
    BY <1>2, <2>1, <2>2 DEF SameOperand, Lcd
  <2>4. c.op # "nop"
    BY <2>3
  <2>5. IsOperation(c) /\ Ready(t, c.in[1])
    BY <2>1, <2>3, CurFacts, FirstReady
  <2>6. CASE c.op = "iadd" /\ SameOperand(t) = Put(t, o)
    <3>1. o.in = <<c.in[1]>> /\ IsValue(o, "ishl", TRUE)
      BY <2>2, <2>3, <2>5, OperationFacts DEF IsValue
    <3> QED
      BY <2>1, <2>4, <2>5, <2>6, <3>1, NamedOpcodes, PutOne
  <2>7. CASE SameOperand(t) = Put(t, Lci(0)) \/ SameOperand(t) = Put(t, Lcd(0))
    BY <2>1, <2>4, <2>7, PutConstant
  <2> QED
    BY <2>3, <2>6, <2>7
<1> QED
  BY <1>1, <1>2

LEMMA MergeAfter ==
    ASSUME NEW t, Visiting(t), NEW outer \in Binaries, NEW inner \in Binaries,
           IsI(Cur(t), outer), InIsI(t, 1, inner), NEW v
    PROVE  After(t, Put(t, [Cur(t) EXCEPT !.imm = v, !.in = N(t, 1).in]))
<1>1. PICK o : o = [Cur(t) EXCEPT !.imm = v, !.in = N(t, 1).in]
  OBVIOUS
<1>2. /\ IsValue(Cur(t), outer, TRUE) /\ outer # "nop"
      /\ Ready(t, N(t, 1).in[1]) /\ N(t, 1).in = <<N(t, 1).in[1]>>
  BY CurIs, OperandIs
<1>3. IsValue(o, outer, TRUE) /\ o.in = <<N(t, 1).in[1]>>
  BY <1>1, <1>2 DEF IsValue
<1>4. Cur(t).op # "nop"
  BY <1>2 DEF IsValue
<1> QED
  BY <1>1, <1>2, <1>3, <1>4, PutOne

LEMMA MergeAddAfter ==
    ASSUME NEW t, Visiting(t), NEW outer \in Binaries, NEW inner \in Binaries
    PROVE  After(t, MergeAdd(t, outer, inner))
<1>1. CASE MergeAdd(t, outer, inner) = t
  BY <1>1, AfterSelf
<1>2. CASE MergeAdd(t, outer, inner) # t
  <2>1. /\ IsI(Cur(t), outer) /\ InIsI(t, 1, inner)
        /\ \E v : MergeAdd(t, outer, inner) =
                    Put(t, [Cur(t) EXCEPT !.imm = v, !.in = N(t, 1).in])
    BY <1>2 DEF MergeAdd, Merge
  <2> QED
    BY <2>1, MergeAfter
<1> QED
  BY <1>1, <1>2

LEMMA MergeAddsAfter ==
    ASSUME NEW t, Visiting(t)
    PROVE  After(t, MergeAdds(t))
<1>1. PICK q : q = MergeAdd(t, "iadd", "iadd")
  OBVIOUS
<1>2. PICK r : r = MergeAdd(q, "isub", "isub")
  OBVIOUS
<1>3. PICK p : p = MergeAdd(r, "iadd", "isub")
  OBVIOUS
<1>4. "iadd" \in Binaries /\ "isub" \in Binaries
  BY NamedOpcodes
<1>5. After(t, q)
  BY <1>1, <1>4, MergeAddAfter
<1>6. After(q, r)
  BY <1>2, <1>4, <1>5, AfterVisits, MergeAddAfter
<1>7. After(r, p)
  BY <1>3, <1>4, <1>6, AfterVisits, MergeAddAfter
<1>8. After(p, MergeAdd(p, "isub", "iadd"))
  BY <1>4, <1>7, AfterVisits, MergeAddAfter
<1>9. MergeAdds(t) = MergeAdd(p, "isub", "iadd")
  BY <1>1, <1>2, <1>3 DEF MergeAdds
<1> QED
  BY <1>5, <1>6, <1>7, <1>8, <1>9, AfterChain

LEMMA MergeShiftInMulAfter ==
    ASSUME NEW t, Visiting(t)
    PROVE  After(t, MergeShiftInMul(t))
<1>1. CASE MergeShiftInMul(t) = t
  BY <1>1, AfterSelf
<1>2. CASE MergeShiftInMul(t) # t
  <2>1. /\ IsI(Cur(t), "imul") /\ InIsI(t, 1, "ishl")
        /\ \E v : MergeShiftInMul(t) = Put(t, [Cur(t) EXCEPT !.imm = v, !.in = N(t, 1).in])
    BY <1>2 DEF MergeShiftInMul, Merge
  <2> QED
    BY <2>1, NamedOpcodes, MergeAfter
<1> QED
  BY <1>1, <1>2

LEMMA MergeMulAfter ==
    ASSUME NEW t, Visiting(t)
    PROVE  After(t, MergeMul(t))
<1>1. CASE MergeMul(t) = t
  BY <1>1, AfterSelf
<1>2. CASE MergeMul(t) # t
  <2>1. /\ IsI(Cur(t), "imul") /\ InIsI(t, 1, "imul")
        /\ \E v : MergeMul(t) = Put(t, [Cur(t) EXCEPT !.imm = v, !.in = N(t, 1).in])
    BY <1>2 DEF MergeMul, Merge
  <2> QED
    BY <2>1, NamedOpcodes, MergeAfter
<1> QED
  BY <1>1, <1>2

LEMMA MulToShiftAfter ==
    ASSUME NEW t, Visiting(t)
    PROVE  After(t, MulToShift(t))
<1>1. CASE MulToShift(t) = t
  BY <1>1, AfterSelf
<1>2. CASE MulToShift(t) # t
  <2>1. PICK o : o = [Cur(t) EXCEPT !.op = "ishl", !.imm = Shift(Cur(t).imm)]
    OBVIOUS
  <2>2. IsI(Cur(t), "imul") /\ MulToShift(t) = Put(t, o)
    BY <1>2, <2>1 DEF MulToShift
  <2>3. /\ IsValue(Cur(t), "imul", TRUE) /\ Ready(t, Cur(t).in[1])
        /\ Cur(t).in = <<Cur(t).in[1]>>
    BY <2>2, NamedOpcodes, CurIs
  <2>4. IsValue(o, "ishl", TRUE) /\ o.in = <<Cur(t).in[1]>> /\ Cur(t).op # "nop"
    BY <2>1, <2>3 DEF IsValue
  <2> QED
    BY <2>2, <2>3, <2>4, NamedOpcodes, PutOne
<1> QED
  BY <1>1, <1>2

LEMMA DivToShiftAfter ==
    ASSUME NEW t, Visiting(t)
    PROVE  After(t, DivToShift(t))
<1>1. CASE DivToShift(t) = t
  BY <1>1, AfterSelf
<1>2. CASE DivToShift(t) # t
  <2>1. PICK c : c = Cur(t)
    OBVIOUS
  <2>2. /\ c.op \in {"udiv", "umod"} /\ InIs(t, 2, "lci")
        /\ \E op \in {"ushr", "iand"} : \E v :
              DivToShift(t) = Put(t, [c EXCEPT !.op = op, !.hasImm = TRUE, !.imm = v, !.in = <<@[1]>>])
    BY <1>2, <2>1 DEF DivToShift
  <2>3. PICK op \in {"ushr", "iand"} : \E v :
            DivToShift(t) = Put(t, [c EXCEPT !.op = op, !.hasImm = TRUE, !.imm = v, !.in = <<@[1]>>])
    BY <2>2
  <2>4. PICK v : DivToShift(t) =
            Put(t, [c EXCEPT !.op = op, !.hasImm = TRUE, !.imm = v, !.in = <<@[1]>>])
    BY <2>3
  <2>5. PICK o : o = [c EXCEPT !.op = op, !.hasImm = TRUE, !.imm = v, !.in = <<@[1]>>]
    OBVIOUS
  <2>6. /\ IsOperation(c) /\ Ready(t, c.in[1]) /\ c.op # "nop"
        /\ c.op \in Binaries /\ c.op \notin Compares /\ c.op \notin {"jz", "jnz", "jmp"}
    <3>1. Arity(t) >= 1
      BY <2>2, CurFacts DEF InIs
    <3>2. IsOperation(c) /\ Ready(t, c.in[1])
      BY <2>1, <3>1, CurFacts, FirstReady
    <3> QED
      BY <2>2, <3>2, NamedOpcodes, Opcodes
  <2>7. c.jump = FALSE /\ c.label = << >>
    BY <2>6 DEF IsOperation
  <2>8. IsValue(o, op, TRUE) /\ o.in = <<c.in[1]>>
    BY <2>5, <2>6, <2>7, OperationFacts DEF IsValue
  <2>9. op \in Binaries
    BY NamedOpcodes
  <2>10. After(t, Put(t, o))
    BY <2>1, <2>6, <2>8, <2>9, PutOne
  <2> QED
    BY <2>4, <2>5, <2>10
<1> QED
  BY <1>1, <1>2

LEMMA MergeShiftAfter ==
    ASSUME NEW t, Visiting(t), NEW op \in Binaries
    PROVE  After(t, MergeShift(t, op))
<1>1. CASE MergeShift(t, op) = t
  BY <1>1, AfterSelf
<1>2. CASE MergeShift(t, op) # t
  <2>1. /\ IsI(Cur(t), op) /\ InIsI(t, 1, op)
        /\ \/ \E v : MergeShift(t, op) = Put(t, [Cur(t) EXCEPT !.imm = v, !.in = N(t, 1).in])
           \/ MergeShift(t, op) = Put(t, Lci(0))
    BY <1>2 DEF MergeShift
  <2>2. Cur(t).op # "nop"
    BY <2>1, CurIs DEF IsValue
  <2> QED
    BY <2>1, <2>2, MergeAfter, PutConstant
<1> QED
  BY <1>1, <1>2

LEMMA MergeShiftsAfter ==
    ASSUME NEW t, Visiting(t)
    PROVE  After(t, MergeShifts(t))
<1>1. PICK q : q = MergeShift(t, "ishl")
  OBVIOUS
<1>2. PICK r : r = MergeShift(q, "ishr")
  OBVIOUS
<1>3. {"ishl", "ishr", "ushr"} \subseteq Binaries
  BY NamedOpcodes
<1>4. After(t, q)
  BY <1>1, <1>3, MergeShiftAfter
<1>5. After(q, r)
  BY <1>2, <1>3, <1>4, AfterVisits, MergeShiftAfter
<1>6. After(r, MergeShift(r, "ushr"))
  BY <1>3, <1>5, AfterVisits, MergeShiftAfter
<1>7. MergeShifts(t) = MergeShift(r, "ushr")
  BY <1>1, <1>2 DEF MergeShifts
<1> QED
  BY <1>4, <1>5, <1>6, <1>7, AfterChain

LEMMA SubToAddAfter ==
    ASSUME NEW t, Visiting(t)
    PROVE  After(t, SubToAdd(t))
<1>1. CASE SubToAdd(t) = t
  BY <1>1, AfterSelf
<1>2. CASE SubToAdd(t) # t
  <2>1. PICK c : c = Cur(t)
    OBVIOUS
  <2>2. PICK o : o = [c EXCEPT !.op = "iadd", !.imm = -@]
    OBVIOUS
  <2>3. IsI(c, "isub") /\ SubToAdd(t) = [t EXCEPT !.ops[t.at].op = "iadd", !.ops[t.at].imm = -@]
    BY <1>2, <2>1 DEF SubToAdd
  <2>4. /\ IsValue(c, "isub", TRUE) /\ c.in = <<c.in[1]>> /\ Ready(t, c.in[1])
    BY <2>1, <2>3, NamedOpcodes, CurIs
  <2>5. /\ DOMAIN o = {"op", "jump", "hasImm", "in", "imm", "label", "alt"}
        /\ o.op = "iadd" /\ o.jump = FALSE /\ o.hasImm = TRUE /\ o.in = c.in
        /\ o.label = << >> /\ o.alt = c.alt /\ c.label = << >>
    BY <2>2, <2>4 DEF IsValue
  <2>6. IsOperation(o)
    <3>1. PICK x : x = c.in[1]
      OBVIOUS
    <3>2. x \in Nat /\ o.in = <<x>>
      BY <2>4, <2>5, <3>1, CurFacts DEF Ready
    <3>3. o.in \in Seq(Nat) /\ Len(o.in) = 1
      BY <3>2
    <3> QED
      BY <2>5, <3>3, NamedOpcodes, MakesOperation
  <2>7. Fits(t, o)
    <3>1. \A k \in DOMAIN o.in : Ready(t, o.in[k])
      BY <2>4, <2>5
    <3>2. HasOutput(o) /\ c.op # "nop"
      BY <2>4, <2>5 DEF HasOutput, IsValue
    <3> QED
      BY <2>1, <2>6, <3>1, <3>2 DEF Fits, Ready
  <2>8. \A v : UsesBy(o, v) = UsesBy(c, v)
    BY <2>5, SameUses
  <2>9. SubToAdd(t) = [t EXCEPT !.ops[t.at] = o]
    <3>1. t.at \in DOMAIN t.ops /\ c = t.ops[t.at]
      BY <2>1, VisitingFacts
    <3> QED
      BY <2>2, <2>3, <3>1, VisitingFacts
  <2>10. Wrote(t, SubToAdd(t), o)
    BY <2>1, <2>8, <2>9, VisitingFacts DEF Wrote
  <2> QED
    BY <2>7, <2>10, WriteAfter
<1> QED
  BY <1>1, <1>2

LEMMA NoShiftAfter ==
    ASSUME NEW t, Visiting(t)
    PROVE  After(t, NoShift(t))
<1>1. CASE NoShift(t) = t
  BY <1>1, AfterSelf
<1>2. CASE \E c \in {"ishl", "ishr", "ushr"} : IsI(Cur(t), c)
  <2>1. Ready(t, Cur(t).in[1]) /\ Cur(t).op # "nop"
    BY <1>2, NamedOpcodes, CurIs DEF IsI
  <2>2. NoShift(t) = RenameTo(t, Cur(t).in[1]) \/ NoShift(t) = t
    BY <1>2 DEF NoShift, Is, IsI
  <2> QED
    BY <1>1, <2>1, <2>2, RenameReady
<1>3. CASE Is(Cur(t), "inot") /\ InIs(t, 1, "inot")
  <2>1. Ready(t, N(t, 1).in[1]) /\ Cur(t).op # "nop"
    BY <1>3, NamedOpcodes, OperandIs DEF Is
  <2>2. NoShift(t) = RenameTo(t, N(t, 1).in[1])
    BY <1>3 DEF NoShift, Is, IsI
  <2> QED
    BY <2>1, <2>2, RenameReady
<1> QED
  BY <1>1, <1>2, <1>3 DEF NoShift

LEMMA MergeBitsAfter ==
    ASSUME NEW t, Visiting(t), NEW op \in Binaries
    PROVE  After(t, MergeBits(t, op))
<1>1. CASE MergeBits(t, op) = t
  BY <1>1, AfterSelf
<1>2. CASE MergeBits(t, op) # t
  <2>1. /\ IsI(Cur(t), op) /\ InIsI(t, 1, op)
        /\ \E v : MergeBits(t, op) = Put(t, [Cur(t) EXCEPT !.imm = v, !.in = N(t, 1).in])
    BY <1>2 DEF MergeBits
  <2> QED
    BY <2>1, MergeAfter
<1> QED
  BY <1>1, <1>2

LEMMA XorIdentityAfter ==
    ASSUME NEW t, Visiting(t)
    PROVE  After(t, XorIdentity(t))
<1>1. CASE XorIdentity(t) = t
  BY <1>1, AfterSelf
<1>2. CASE XorIdentity(t) # t
  <2>1. PICK o : o = [Blank EXCEPT !.op = "inot", !.in = Cur(t).in]
    OBVIOUS
  <2>2. /\ IsI(Cur(t), "ixor")
        /\ XorIdentity(t) = Put(t, o) \/ XorIdentity(t) = RenameTo(t, Cur(t).in[1])
    BY <1>2, <2>1 DEF XorIdentity
  <2>3. /\ Ready(t, Cur(t).in[1]) /\ Cur(t).in = <<Cur(t).in[1]>> /\ Cur(t).op # "nop"
    BY <2>2, NamedOpcodes, CurIs DEF IsI
  <2>4. IsValue(o, "inot", FALSE) /\ o.in = <<Cur(t).in[1]>>
    BY <2>1, <2>3, NamedOpcodes, Unary
  <2> QED
    BY <2>2, <2>3, <2>4, NamedOpcodes, PutOne, RenameReady
<1> QED
  BY <1>1, <1>2

(* An operand rewritten in place, with the operands it has.                *)
LEMMA InPlaceAfter ==
    ASSUME NEW t, Visiting(t), NEW x \in 1..(t.at - 1), NEW o, IsOperation(o),
           o.in = t.ops[x].in, HasOutput(t.ops[x]), HasOutput(o),
           \A v : UsesBy(o, v) = UsesBy(t.ops[x], v)
    PROVE  /\ After(t, [t EXCEPT !.ops[x] = o])
           /\ \A y : Ready(t, y) => Ready([t EXCEPT !.ops[x] = o], y)
<1>0. PICK n \in Nat : n = Len(t.ops)
  BY VisitingFacts
<1>1. /\ t.at \in 1..n /\ DOMAIN t.ops = 1..n /\ x \in 1..n
      /\ DOMAIN t = {"ops", "nUse", "unsafe", "at", "rename", "progress"}
      /\ t.progress \in BOOLEAN /\ IsProcedure(t.ops)
  BY <1>0, VisitingFacts DEF Visiting, FoldOk, IsState
<1>2. PICK q : q = [t EXCEPT !.ops[x] = o]
  OBVIOUS
<1>3. /\ DOMAIN q = DOMAIN t
      /\ q.ops = [t.ops EXCEPT ![x] = o]
      /\ q.at = t.at /\ q.nUse = t.nUse /\ q.unsafe = t.unsafe
      /\ q.rename = t.rename /\ q.progress = t.progress
  BY <1>1, <1>2
<1>4. IsProcedure(q.ops) /\ DOMAIN q.ops = 1..n
  <2>1. \A k \in DOMAIN o.in : o.in[k] \in 1..(x - 1)
    BY <1>0, <1>1, VisitingFacts
  <2> QED
    BY <1>1, <1>3, <2>1, ProcedureChanges
<1>5. \A j \in 1..n : q.ops[j] = IF j = x THEN o ELSE t.ops[j]
  BY <1>1, <1>3
<1>6. \A j \in 1..n : q.ops[j].in = t.ops[j].in /\ (HasOutput(t.ops[j]) => HasOutput(q.ops[j]))
  BY <1>5
<1>7. IsState(q)
  BY <1>1, <1>3, <1>4 DEF IsState
<1>8. RenamesBefore(q)
  <2>1. RenamesBefore(t)
    BY DEF Visiting, FoldOk
  <2>2. ASSUME NEW m \in 1..Len(t.rename)
        PROVE  q.ops[t.rename[m][1]].op = "nop"
    <3>1. t.rename[m][1] \in 1..n /\ t.ops[t.rename[m][1]].op = "nop"
      BY <1>1, <2>1 DEF RenamesBefore
    <3>2. t.rename[m][1] # x
      BY <3>1 DEF HasOutput
    <3> QED
      BY <1>5, <3>1, <3>2
  <2> QED
    BY <1>1, <1>3, <1>4, <2>1, <2>2 DEF RenamesBefore
<1>9. ComputedTo(q, q.at)
  <2> SUFFICES ASSUME NEW i \in 1..n, i <= t.at, NEW k \in DOMAIN t.ops[i].in
               PROVE  HasOutput(q.ops[t.ops[i].in[k]])
    BY <1>3, <1>4, <1>6 DEF ComputedTo
  <2>1. HasOutput(t.ops[t.ops[i].in[k]])
    BY <1>1 DEF Visiting, FoldOk, ComputedTo
  <2>2. t.ops[i].in[k] \in 1..(i - 1)
    BY <1>0, VisitingFacts
  <2>3. t.ops[i].in[k] \in 1..n
    BY <2>2
  <2> QED
    BY <1>6, <2>1, <2>3
<1>10. RenamedAfter(q, q.at)
  <2> SUFFICES ASSUME NEW i \in 1..n, i > t.at, NEW k \in DOMAIN t.ops[i].in
               PROVE  HasOutput(q.ops[Renamed(q, t.ops[i].in[k])])
    BY <1>3, <1>4, <1>6 DEF RenamedAfter
  <2>1. HasOutput(t.ops[Renamed(t, t.ops[i].in[k])])
    BY <1>1 DEF Visiting, FoldOk, RenamedAfter
  <2>2. t.ops[i].in[k] \in 1..(i - 1)
    BY <1>0, VisitingFacts
  <2>3. Renamed(q, t.ops[i].in[k]) = Renamed(t, t.ops[i].in[k])
    BY <1>3 DEF Renamed
  <2>4. Renamed(t, t.ops[i].in[k]) \in 1..t.ops[i].in[k]
    BY <2>2, RenamedFacts DEF Visiting, FoldOk
  <2>5. Renamed(t, t.ops[i].in[k]) \in 1..n
    BY <2>2, <2>4
  <2> QED
    BY <1>6, <2>1, <2>3, <2>5
<1>11. Visiting(q)
  BY <1>1, <1>3, <1>4, <1>7, <1>8, <1>9, <1>10 DEF Visiting, FoldOk
<1>12. \A i \in 1..n : \A v : UsesBy(q.ops[i], v) = UsesBy(t.ops[i], v)
  BY <1>5
<1>13. After(t, q)
  BY <1>1, <1>3, <1>4, <1>11, <1>12 DEF After
<1>14. ASSUME NEW y, Ready(t, y)
       PROVE  Ready(q, y)
  <2>1. y \in 1..n
    BY <1>1, <1>14 DEF Ready
  <2> QED
    BY <1>3, <1>6, <1>14, <2>1 DEF Ready
<1> QED
  BY <1>2, <1>13, <1>14

LEMMA ShiftOfAddAfter ==
    ASSUME NEW t, Visiting(t), NEW add \in Binaries
    PROVE  After(t, ShiftOfAdd(t, add))
<1>1. CASE ShiftOfAdd(t, add) = t
  BY <1>1, AfterSelf
<1>2. CASE ShiftOfAdd(t, add) # t
  <2>1. PICK c : c = Cur(t)
    OBVIOUS
  <2>2. PICK x : x = c.in[1]
    OBVIOUS
  <2>3. PICK a : a = N(t, 1)
    OBVIOUS
  <2>4. /\ IsI(c, "ishl") /\ InIsI(t, 1, add)
        /\ \E shift, imm : ShiftOfAdd(t, add) =
                Put([t EXCEPT !.ops[x] = [@ EXCEPT !.op = "ishl", !.imm = shift]],
                    [c EXCEPT !.op = add, !.imm = imm])
    BY <1>2, <2>1, <2>2, <2>3 DEF ShiftOfAdd
  <2>5. PICK shift, imm : ShiftOfAdd(t, add) =
                Put([t EXCEPT !.ops[x] = [@ EXCEPT !.op = "ishl", !.imm = shift]],
                    [c EXCEPT !.op = add, !.imm = imm])
    BY <2>4
  <2>6. PICK m : m = [a EXCEPT !.op = "ishl", !.imm = shift]
    OBVIOUS
  <2>7. PICK o : o = [c EXCEPT !.op = add, !.imm = imm]
    OBVIOUS
  <2>8. /\ IsValue(c, "ishl", TRUE) /\ c.in = <<x>> /\ Ready(t, x)
    BY <2>1, <2>2, <2>4, NamedOpcodes, CurIs
  <2>9. a = t.ops[x] /\ IsI(a, add) /\ IsOperation(a) /\ HasOutput(a)
    <3>1. Arity(t) >= 1 /\ IsI(a, add)
      BY <2>3, <2>4, CurFacts DEF InIsI
    <3>2. a = t.ops[x]
      BY <2>1, <2>2, <2>3 DEF N
    <3> QED
      BY <2>3, <3>1, <3>2, FirstReady
  <2>10. /\ DOMAIN m = {"op", "jump", "hasImm", "in", "imm", "label", "alt"}
         /\ m.op = "ishl" /\ m.jump = FALSE /\ m.hasImm = TRUE /\ m.in = a.in
         /\ m.label = << >> /\ a.label = << >> /\ m.alt = a.alt
    BY <2>6, <2>9, OperationFacts, IsFacts
  <2>11. IsOperation(m) /\ HasOutput(m)
    <3>1. a.in \in Seq(Nat) /\ Len(a.in) = 1
      BY <2>9, IsFacts, OperationFacts
    <3>2. IsOperation(m)
      BY <2>10, <3>1, NamedOpcodes, MakesOperation
    <3> QED
      BY <2>10, <3>2 DEF HasOutput
  <2>12. \A v : UsesBy(m, v) = UsesBy(a, v)
    BY <2>10, SameUses
  <2>13. PICK q : q = [t EXCEPT !.ops[x] = m]
    OBVIOUS
  <2>14. x \in 1..(t.at - 1)
    BY <2>8 DEF Ready
  <2>15. After(t, q) /\ Ready(q, x)
    BY <2>8, <2>9, <2>10, <2>11, <2>12, <2>13, <2>14, InPlaceAfter
  <2>16. Cur(q).op # "nop"
    <3>1. Cur(q) = c
      BY <2>1, <2>13, <2>14, VisitingFacts DEF Cur
    <3> QED
      BY <2>8, <3>1 DEF IsValue
  <2>17. IsValue(o, add, TRUE) /\ o.in = <<x>>
    BY <2>7, <2>8 DEF IsValue
  <2>18. After(q, Put(q, o))
    BY <2>15, <2>16, <2>17, AfterVisits, PutOne
  <2>19. ShiftOfAdd(t, add) = Put(q, o)
    <3>1. [t EXCEPT !.ops[x] = [@ EXCEPT !.op = "ishl", !.imm = shift]] = q
      BY <2>6, <2>9, <2>13, <2>14, VisitingFacts
    <3> QED
      BY <2>5, <2>7, <3>1
  <2> QED
    BY <2>15, <2>18, <2>19, AfterChain
<1> QED
  BY <1>1, <1>2

LEMMA AddressOfAddAfter ==
    ASSUME NEW t, Visiting(t)
    PROVE  After(t, AddressOfAdd(t))
<1>1. CASE AddressOfAdd(t) = t
  BY <1>1, AfterSelf
<1>2. CASE AddressOfAdd(t) # t
  <2>1. PICK c : c = Cur(t)
    OBVIOUS
  <2>2. IsOperation(c) /\ Arity(t) = Len(c.in)
    BY <2>1, CurFacts
  <2>3. /\ DOMAIN c = {"op", "jump", "hasImm", "in", "imm", "label", "alt"}
        /\ c.hasImm \in BOOLEAN /\ c.jump \in BOOLEAN
        /\ c.op \in {"li", "si"} => c.jump = FALSE /\ c.label = << >>
    BY <2>2, OperationFacts, Opcodes DEF IsOperation
  <2>4. CASE c.op = "li" /\ InIs(t, 1, "iadd")
    <3>1. PICK in : in = N(t, 1).in
      OBVIOUS
    <3>2. PICK o : o = [c EXCEPT !.op = "l2i", !.in = in]
      OBVIOUS
    <3>3. AddressOfAdd(t) = Put(t, o)
      BY <1>2, <2>1, <2>4, <3>1, <3>2 DEF AddressOfAdd
    <3>4. PICK x, y : in = <<x, y>> /\ Ready(t, x) /\ Ready(t, y)
      BY <2>4, <3>1, NamedOpcodes, OperandIs
    <3>5. x \in Nat /\ y \in Nat
      BY <3>4, CurFacts DEF Ready
    <3>6. in \in Seq(Nat) /\ Len(in) = 2 /\ \A k \in 1..Len(in) : Ready(t, in[k])
      BY <3>4, <3>5
    <3>7. /\ DOMAIN o = {"op", "jump", "hasImm", "in", "imm", "label", "alt"}
          /\ o.op = "l2i" /\ o.in = in /\ o.jump = FALSE /\ o.label = << >>
          /\ o.hasImm \in BOOLEAN
      BY <2>3, <2>4, <3>2
    <3>8. IsOperation(o)
      BY <3>6, <3>7, MakesOperation
    <3>9. HasOutput(o)
      BY <3>7 DEF HasOutput
    <3>10. Cur(t).op # "nop"
      BY <2>1, <2>4
    <3> QED
      BY <3>3, <3>6, <3>7, <3>8, <3>9, <3>10, PutReady
  <2>5. CASE c.op = "si" /\ InIs(t, 2, "iadd")
    <3>1. PICK in : in = N(t, 2).in
      OBVIOUS
    <3>2. PICK z : z = c.in[1]
      OBVIOUS
    <3>3. PICK o : o = [c EXCEPT !.op = "s2i", !.in = <<z>> \o in]
      OBVIOUS
    <3>4. AddressOfAdd(t) = Put(t, o)
      BY <1>2, <2>1, <2>5, <3>1, <3>2, <3>3 DEF AddressOfAdd
    <3>5. PICK x, y : in = <<x, y>> /\ Ready(t, x) /\ Ready(t, y)
      BY <2>5, <3>1, NamedOpcodes, OperandIs
    <3>6. Ready(t, z)
      <4>1. Arity(t) >= 1
        BY <2>5, CurFacts DEF InIs
      <4> QED
        BY <2>1, <3>2, <4>1, FirstReady
    <3>7. x \in Nat /\ y \in Nat /\ z \in Nat
      BY <3>5, <3>6, CurFacts DEF Ready
    <3>8. PICK all : all = <<z>> \o in
      OBVIOUS
    <3>9. PICK first : first = <<z>>
      OBVIOUS
    <3>10. /\ first \in Seq(Nat) /\ Len(first) = 1 /\ first[1] = z
           /\ in \in Seq(Nat) /\ Len(in) = 2 /\ in[1] = x /\ in[2] = y
      BY <3>5, <3>7, <3>9
    <3>11. all \in Seq(Nat) /\ Len(all) = 3 /\ all[1] = z /\ all[2] = x /\ all[3] = y
      <4>1. all = first \o in
        BY <3>8, <3>9, Zenon
      <4>2. /\ all \in Seq(Nat) /\ Len(all) = Len(first) + Len(in)
            /\ \A i \in 1..Len(first) + Len(in) :
                    all[i] = IF i <= Len(first) THEN first[i] ELSE in[i - Len(first)]
        BY <3>10, <4>1, ConcatProperties, Zenon
      <4> QED
        BY <3>10, <4>2
    <3>12. \A k \in 1..Len(all) : Ready(t, all[k])
      BY <3>5, <3>6, <3>11
    <3>13. /\ DOMAIN o = {"op", "jump", "hasImm", "in", "imm", "label", "alt"}
           /\ o.op = "s2i" /\ o.in = all /\ o.jump = FALSE /\ o.label = << >>
           /\ o.hasImm \in BOOLEAN
      BY <2>3, <2>5, <3>3, <3>8
    <3>14. IsOperation(o)
      BY <3>11, <3>13, MakesOperation
    <3>15. ~HasOutput(Cur(t)) /\ Cur(t).op # "nop"
      BY <2>1, <2>5 DEF HasOutput
    <3> QED
      BY <3>4, <3>12, <3>13, <3>14, <3>15, PutReady
  <2> QED
    BY <1>2, <2>1, <2>4, <2>5 DEF AddressOfAdd
<1> QED
  BY <1>1, <1>2

LEMMA DecidedAfter ==
    ASSUME NEW t, Visiting(t), Cur(t).jump, Arity(t) >= 1, NEW taken
    PROVE  After(t, Decided(t, taken))
<1>1. PICK c : c = Cur(t)
  OBVIOUS
<1>2. PICK o : o = [c EXCEPT !.op = "jmp", !.jump = TRUE, !.hasImm = FALSE, !.in = << >>,
                             !.label = <<IF taken THEN @[1] ELSE @[2]>>]
  OBVIOUS
<1>3. Decided(t, taken) = Put(t, o)
  BY <1>1, <1>2 DEF Decided
<1>4. IsOperation(c) /\ Arity(t) = Len(c.in)
  BY <1>1, CurFacts
<1>5. /\ DOMAIN o = {"op", "jump", "hasImm", "in", "imm", "label", "alt"}
      /\ o.op = "jmp" /\ o.jump = TRUE /\ o.hasImm = FALSE /\ o.in = << >>
  BY <1>2, <1>4, OperationFacts
<1>6. o.in \in Seq(Nat) /\ Len(o.in) = 0
  BY <1>5
<1>7. IsOperation(o)
  BY <1>5, <1>6, MakesOperation
<1>8. ~HasOutput(Cur(t)) /\ Cur(t).op # "nop"
  <2>1. c.op = "nop" => Len(c.in) = 0
    BY <1>4, OperationFacts
  <2> QED
    BY <1>1, <1>4, <2>1 DEF HasOutput
<1> QED
  BY <1>3, <1>6, <1>7, <1>8, PutReady

LEMMA FoldConstantAfter ==
    ASSUME NEW t, Visiting(t)
    PROVE  After(t, FoldConstant(t))
<1>1. CASE FoldConstant(t) = t
  BY <1>1, AfterSelf
<1>2. CASE FoldConstant(t) # t
  <2>1. PICK c : c = Cur(t)
    OBVIOUS
  <2>2. IsOperation(c) /\ Arity(t) = Len(c.in) /\ Arity(t) = 1 /\ c.op # "nop"
    <3>1. IsOperation(c) /\ Arity(t) = Len(c.in)
      BY <2>1, CurFacts
    <3>2. Arity(t) = 1
      BY <1>2 DEF FoldConstant
    <3>3. c.op = "nop" => Len(c.in) = 0
      BY <3>1, OperationFacts
    <3> QED
      BY <3>1, <3>2, <3>3
  <2>3. CASE c.jump
    <3>1. \E taken : FoldConstant(t) = Decided(t, taken)
      BY <1>2, <2>1, <2>3 DEF FoldConstant, FoldOneJump
    <3> QED
      BY <2>1, <2>2, <2>3, <3>1, DecidedAfter
  <2>4. CASE ~c.jump
    <3>1. FoldConstant(t) = FoldOne(t)
      BY <1>2, <2>1, <2>4 DEF FoldConstant
    <3>2. CASE c.op = "iret" /\ \E v : FoldOne(t) =
                    Put(t, [c EXCEPT !.hasImm = TRUE, !.imm = v, !.in = << >>])
      <4>1. PICK v : FoldOne(t) = Put(t, [c EXCEPT !.hasImm = TRUE, !.imm = v, !.in = << >>])
        BY <3>2
      <4>2. PICK o : o = [c EXCEPT !.hasImm = TRUE, !.imm = v, !.in = << >>]
        OBVIOUS
      <4>3. /\ DOMAIN o = {"op", "jump", "hasImm", "in", "imm", "label", "alt"}
            /\ o.op = "iret" /\ o.jump = c.jump /\ o.hasImm = TRUE /\ o.in = << >>
            /\ o.label = c.label /\ c.jump = FALSE /\ c.label = << >>
        BY <2>2, <2>4, <3>2, <4>2, OperationFacts
      <4>4. o.in \in Seq(Nat) /\ Len(o.in) = 0 /\ o.jump = FALSE /\ o.label = << >>
        BY <4>3
      <4>5. IsOperation(o)
        <5>1. Len(o.in) = (IF o.hasImm THEN 0 ELSE 1)
          BY <4>3, <4>4
        <5>2. o.op = "iret" /\ o.hasImm \in BOOLEAN
          BY <4>3
        <5>3. DOMAIN o = {"op", "jump", "hasImm", "in", "imm", "label", "alt"}
          BY <4>3
        <5> QED
          BY <4>4, <5>1, <5>2, <5>3, MakesOperation
      <4>6. ~HasOutput(Cur(t))
        BY <2>1, <3>2 DEF HasOutput
      <4>7. After(t, Put(t, o))
        BY <2>1, <2>2, <4>4, <4>5, <4>6, PutReady
      <4> QED
        BY <3>1, <4>1, <4>2, <4>7
    <3>3. CASE \E o : FoldOne(t) = Put(t, o) /\ \E x : o = Lci(x) \/ o = Lcd(x)
      BY <2>1, <2>2, <3>1, <3>3, PutConstant
    <3> QED
      BY <1>2, <2>1, <3>1, <3>2, <3>3 DEF FoldOne, Lcd
  <2> QED
    BY <2>3, <2>4
<1> QED
  BY <1>1, <1>2

LEMMA FoldConstantsAfter ==
    ASSUME NEW t, Visiting(t)
    PROVE  After(t, FoldConstants(t))
<1>1. CASE FoldConstants(t) = t
  BY <1>1, AfterSelf
<1>2. CASE FoldConstants(t) # t
  <2>1. PICK c : c = Cur(t)
    OBVIOUS
  <2>2. IsOperation(c) /\ Arity(t) = Len(c.in) /\ Arity(t) = 2 /\ c.op # "nop"
    <3>1. IsOperation(c) /\ Arity(t) = Len(c.in)
      BY <2>1, CurFacts
    <3>2. Arity(t) = 2
      BY <1>2 DEF FoldConstants
    <3>3. c.op = "nop" => Len(c.in) = 0
      BY <3>1, OperationFacts
    <3> QED
      BY <3>1, <3>2, <3>3
  <2>3. CASE c.jump
    <3>1. \E taken : FoldConstants(t) = Decided(t, taken)
      BY <1>2, <2>1, <2>3 DEF FoldConstants
    <3> QED
      BY <2>1, <2>2, <2>3, <3>1, DecidedAfter
  <2>4. CASE ~c.jump
    <3>1. FoldConstants(t) = FoldTwo(t)
      BY <1>2, <2>1, <2>4 DEF FoldConstants
    <3>2. \E o : FoldTwo(t) = Put(t, o) /\ \E x : o = Lci(x) \/ o = Lcd(x)
      BY <1>2, <3>1 DEF FoldTwo, Lcd
    <3> QED
      BY <2>1, <2>2, <3>1, <3>2, PutConstant
  <2> QED
    BY <2>3, <2>4
<1> QED
  BY <1>1, <1>2

-----------------------------------------------------------------------------
(* A visit.                                                                *)

LEMMA NoNewName ==
    ASSUME NEW v
    PROVE  NewName(<< >>, v) = v
<1>1. Len(<< >>) = 0
  OBVIOUS
<1> DEFINE Unfold(g) ==
        [n \in 0..0 |-> IF n = 0 THEN v
                        ELSE IF g[n - 1] = << >>[n][1] THEN << >>[n][2] ELSE g[n - 1]]
<1>2. [n \in 0..0 |-> v] = Unfold([n \in 0..0 |-> v])
  BY SMT
<1> DEFINE f == CHOOSE g : g = Unfold(g)
<1>3. f = Unfold(f)
  <2> HIDE DEF Unfold
  <2> QED
    BY <1>2
<1>4. NewName(<< >>, v) = f[0]
  BY <1>1 DEF NewName
<1> HIDE DEF f
<1>5. f[0] = v
  BY <1>3
<1> QED
  BY <1>4, <1>5

LEMMA RenameInputsVisits ==
    ASSUME NEW t, FoldOk(t, t.at - 1), t.at \in DOMAIN t.ops,
           NEW q, q = RenameInputs(t)
    PROVE  /\ Visiting(q)
           /\ q.at = t.at /\ q.nUse = t.nUse /\ q.unsafe = t.unsafe
           /\ q.rename = t.rename /\ q.progress = t.progress
           /\ DOMAIN q.ops = DOMAIN t.ops
           /\ t.rename = << >> =>
                \A i \in DOMAIN t.ops : \A v : UsesBy(q.ops[i], v) = UsesBy(t.ops[i], v)
<1>0. PICK n \in Nat : n = Len(t.ops)
  BY OpsFacts DEF FoldOk, IsState
<1>1. /\ t.at \in 1..n /\ DOMAIN t.ops = 1..n
      /\ DOMAIN t = {"ops", "nUse", "unsafe", "at", "rename", "progress"}
      /\ t.progress \in BOOLEAN /\ IsProcedure(t.ops) /\ RenamesBefore(t)
      /\ \A i \in 1..n :
            /\ IsOperation(t.ops[i])
            /\ \A k \in DOMAIN t.ops[i].in : t.ops[i].in[k] \in 1..(i - 1)
  BY <1>0, OpsFacts DEF FoldOk, IsState
<1>2. PICK c : c = t.ops[t.at]
  OBVIOUS
<1>3. PICK in : in = [k \in DOMAIN c.in |-> Renamed(t, c.in[k])]
  OBVIOUS
<1>4. PICK alt : alt = IF \E k \in DOMAIN c.label : c.label[k] = "exit"
                       THEN Renamed(t, c.alt) ELSE c.alt
  OBVIOUS
<1>5. PICK o : o = [c EXCEPT !.in = in, !.alt = alt]
  OBVIOUS
<1>6. q = [t EXCEPT !.ops[t.at] = o]
  <2>1. Cur(t) = c
    BY <1>2 DEF Cur
  <2>2. o = [c EXCEPT !.in = [k \in DOMAIN @ |-> Renamed(t, @[k])],
                      !.alt = IF \E k \in DOMAIN c.label : c.label[k] = "exit"
                              THEN Renamed(t, @) ELSE @]
    BY <1>3, <1>4, <1>5
  <2> QED
    BY <2>1, <2>2 DEF RenameInputs
<1>7. /\ DOMAIN q = DOMAIN t
      /\ q.ops = [t.ops EXCEPT ![t.at] = o]
      /\ q.at = t.at /\ q.nUse = t.nUse /\ q.unsafe = t.unsafe
      /\ q.rename = t.rename /\ q.progress = t.progress
  BY <1>1, <1>6
<1>8. /\ IsOperation(c) /\ c.in \in Seq(Nat) /\ Len(c.in) \in Nat
      /\ DOMAIN c = {"op", "jump", "hasImm", "in", "imm", "label", "alt"}
      /\ DOMAIN c.in = 1..Len(c.in)
      /\ \A k \in DOMAIN c.in : c.in[k] \in 1..(t.at - 1) /\ c.in[k] \in Nat \ {0}
  <2>1. IsOperation(c)
    BY <1>1, <1>2
  <2>2. \A k \in DOMAIN c.in : c.in[k] \in 1..(t.at - 1)
    BY <1>1, <1>2
  <2> QED
    BY <2>1, <2>2, OperationFacts
<1>9. \A k \in DOMAIN c.in : in[k] \in 1..c.in[k] /\ in[k] = Renamed(t, c.in[k])
  <2>1. \A v \in Nat \ {0} : Renamed(t, v) \in 1..v
    BY <1>1, RenamedFacts
  <2> QED
    BY <1>3, <1>8, <2>1
<1>10. \A k \in DOMAIN c.in : in[k] \in 1..(t.at - 1) /\ HasOutput(t.ops[in[k]])
  <2>1. t.at > t.at - 1 /\ t.at \in DOMAIN t.ops
    BY <1>1
  <2>2. \A k \in DOMAIN c.in : HasOutput(t.ops[Renamed(t, c.in[k])])
    BY <1>2, <2>1 DEF FoldOk, RenamedAfter
  <2>3. ASSUME NEW k \in DOMAIN c.in
        PROVE  in[k] \in 1..(t.at - 1)
    <3>1. PICK x : x = c.in[k]
      OBVIOUS
    <3>2. x \in 1..(t.at - 1) /\ in[k] \in 1..x
      BY <1>8, <1>9, <3>1
    <3> QED
      BY <1>1, <3>2
  <2> QED
    BY <1>9, <2>2, <2>3
<1>11. IsOperation(o) /\ DOMAIN o.in = DOMAIN c.in /\ o.in = in
  <2>1. /\ DOMAIN o = DOMAIN c /\ o.in = in /\ o.op = c.op /\ o.jump = c.jump
        /\ o.hasImm = c.hasImm /\ o.label = c.label
    BY <1>5, <1>8
  <2>2. in \in [1..Len(c.in) -> Nat]
    <3>1. \A k \in DOMAIN c.in : in[k] \in Nat
      BY <1>8, <1>9
    <3> QED
      BY <1>3, <1>8, <3>1
  <2>3. in \in Seq(Nat) /\ Len(in) = Len(c.in)
    BY <1>8, <2>2
  <2>4. nInputs(o) = nInputs(c)
    BY <2>1 DEF nInputs
  <2> QED
    BY <1>3, <1>8, <2>1, <2>3, <2>4 DEF IsOperation
<1>12. IsProcedure(q.ops) /\ DOMAIN q.ops = 1..n
  BY <1>1, <1>7, <1>10, <1>11, ProcedureChanges
<1>13. \A j \in 1..n : q.ops[j] = IF j = t.at THEN o ELSE t.ops[j]
  BY <1>1, <1>7
<1>14. o.op = c.op /\ o.jump = c.jump /\ o.label = c.label /\ o.alt = alt
  BY <1>5, <1>8
<1>15. \A j \in 1..n : /\ q.ops[j].op = t.ops[j].op
                       /\ HasOutput(t.ops[j]) => HasOutput(q.ops[j])
  BY <1>2, <1>13, <1>14 DEF HasOutput
<1>16. RenamesBefore(q)
  BY <1>1, <1>7, <1>12, <1>15 DEF RenamesBefore
<1>17. ComputedTo(q, q.at)
  <2> SUFFICES ASSUME NEW i \in 1..n, i <= t.at, NEW k \in DOMAIN q.ops[i].in
               PROVE  HasOutput(q.ops[q.ops[i].in[k]])
    BY <1>1, <1>7, <1>12 DEF ComputedTo
  <2>1. CASE i = t.at
    <3>1. q.ops[i] = o /\ o.in[k] \in 1..(t.at - 1) /\ HasOutput(t.ops[o.in[k]])
      BY <1>10, <1>11, <1>13, <2>1
    <3>2. o.in[k] \in 1..n
      BY <1>1, <3>1
    <3> QED
      BY <1>15, <3>1, <3>2
  <2>2. CASE i # t.at
    <3>1. q.ops[i] = t.ops[i] /\ i <= t.at - 1
      BY <1>1, <1>13, <2>2
    <3>2. HasOutput(t.ops[t.ops[i].in[k]])
      BY <1>1, <3>1 DEF FoldOk, ComputedTo
    <3>3. t.ops[i].in[k] \in 1..(i - 1)
      BY <1>1, <3>1
    <3>4. t.ops[i].in[k] \in 1..n
      BY <3>3
    <3> QED
      BY <1>15, <3>1, <3>2, <3>4
  <2> QED
    BY <2>1, <2>2
<1>18. RenamedAfter(q, q.at)
  <2> SUFFICES ASSUME NEW i \in 1..n, i > t.at, NEW k \in DOMAIN q.ops[i].in
               PROVE  HasOutput(q.ops[Renamed(q, q.ops[i].in[k])])
    BY <1>1, <1>7, <1>12 DEF RenamedAfter
  <2>1. q.ops[i] = t.ops[i]
    BY <1>1, <1>13
  <2>2. HasOutput(t.ops[Renamed(t, t.ops[i].in[k])])
    BY <1>1, <2>1 DEF FoldOk, RenamedAfter
  <2>3. t.ops[i].in[k] \in 1..(i - 1)
    BY <1>1, <2>1
  <2>4. Renamed(q, q.ops[i].in[k]) = Renamed(t, t.ops[i].in[k])
    BY <1>7, <2>1 DEF Renamed
  <2>5. Renamed(t, t.ops[i].in[k]) \in 1..t.ops[i].in[k]
    <3>1. PICK v : v = t.ops[i].in[k]
      OBVIOUS
    <3>2. v \in Nat \ {0}
      BY <2>3, <3>1
    <3> QED
      BY <1>1, <3>1, <3>2, RenamedFacts
  <2>6. Renamed(t, t.ops[i].in[k]) \in 1..n
    BY <2>3, <2>5
  <2> QED
    BY <1>15, <2>2, <2>4, <2>6
<1>19. Visiting(q)
  BY <1>1, <1>7, <1>12, <1>16, <1>17, <1>18 DEF Visiting, FoldOk, IsState
<1>20. ASSUME t.rename = << >>
       PROVE  \A i \in 1..n : \A v : UsesBy(q.ops[i], v) = UsesBy(t.ops[i], v)
  <2>1. \A v : Renamed(t, v) = v
    BY <1>20, NoNewName DEF Renamed
  <2>2. in = c.in
    BY <1>3, <1>8, <2>1
  <2>3. alt = c.alt
    BY <1>4, <2>1
  <2>4. \A v : UsesBy(o, v) = UsesBy(c, v)
    BY <1>11, <1>14, <2>2, <2>3, SameUses
  <2> QED
    BY <1>2, <1>13, <2>4
<1> QED
  BY <1>1, <1>7, <1>12, <1>19, <1>20

LEMMA TestedAfter ==
    ASSUME NEW t, FoldOk(t, t.at - 1), t.at \in DOMAIN t.ops
    PROVE  After(RenameInputs(t), Tested(t))
<1>1. PICK q1 : q1 = RenameInputs(t)
  OBVIOUS
<1>2. PICK q2 : q2 = SortOperands(q1)
  OBVIOUS
<1>3. PICK q3 : q3 = ConstantSecond(q2)
  OBVIOUS
<1>4. PICK q4 : q4 = InvertTest(q3)
  OBVIOUS
<1>5. PICK q5 : q5 = Immediate(q4)
  OBVIOUS
<1>6. PICK q6 : q6 = JumpOnTest(q5)
  OBVIOUS
<1>7. Visiting(q1)
  BY <1>1, RenameInputsVisits
<1>8. After(q1, q2)
  BY <1>2, <1>7, SortOperandsAfter
<1>9. After(q1, q3)
  BY <1>3, <1>8, AfterVisits, ConstantSecondAfter, AfterChain
<1>10. After(q1, q4)
  BY <1>4, <1>9, AfterVisits, InvertTestAfter, AfterChain
<1>11. After(q1, q5)
  BY <1>5, <1>10, AfterVisits, ImmediateAfter, AfterChain
<1>12. After(q1, q6)
  BY <1>6, <1>11, AfterVisits, JumpOnTestAfter, AfterChain
<1>13. Tested(t) = q6
  BY <1>1, <1>2, <1>3, <1>4, <1>5, <1>6 DEF Tested
<1> QED
  BY <1>1, <1>12, <1>13

LEMMA FoldOpAfter ==
    ASSUME NEW t, FoldOk(t, t.at - 1), t.at \in DOMAIN t.ops,
           ~ComparesWithZero(Cur(Tested(t)))
    PROVE  After(RenameInputs(t), FoldOp(t))
<1>1. PICK q1 : q1 = RenameInputs(t)
  OBVIOUS
<1>2. PICK q2 : q2 = Tested(t)
  OBVIOUS
<1>3. PICK q3 : q3 = MulBySign(Identity(q2))
  OBVIOUS
<1>4. PICK q4 : q4 = Negation(Negation(q3, "iadd", "isub", "ineg"), "dadd", "dsub", "dneg")
  OBVIOUS
<1>5. PICK q5 : q5 = SameOperand(Absorption(q4))
  OBVIOUS
<1>6. PICK q6 : q6 = MulToShift(MergeMul(MergeShiftInMul(MergeAdds(q5))))
  OBVIOUS
<1>7. PICK q7 : q7 = ShiftOfAdd(ShiftOfAdd(MergeShifts(DivToShift(q6)), "iadd"), "isub")
  OBVIOUS
<1>8. PICK q8 : q8 = NoShift(SubToAdd(q7))
  OBVIOUS
<1>9. PICK q9 : q9 = MergeBits(MergeBits(MergeBits(q8, "iand"), "ior"), "ixor")
  OBVIOUS
<1>10. After(q1, q2)
  BY <1>1, <1>2, TestedAfter
<1>11. After(q2, q3)
  <2>1. Visiting(q2)
    BY <1>10, AfterVisits
  <2>2. After(q2, Identity(q2))
    BY <2>1, IdentityAfter
  <2> QED
    BY <1>3, <2>2, AfterVisits, MulBySignAfter, AfterChain
<1>12. After(q3, q4)
  <2>1. Visiting(q3)
    BY <1>11, AfterVisits
  <2>2. /\ "iadd" \in Binaries /\ "isub" \in Binaries /\ "ineg" \in Unaries
        /\ "dadd" \in Binaries /\ "dsub" \in Binaries /\ "dneg" \in Unaries
    BY NamedOpcodes
  <2>3. PICK q : q = Negation(q3, "iadd", "isub", "ineg")
    OBVIOUS
  <2>4. After(q3, q)
    BY <2>1, <2>2, <2>3, NegationAfter
  <2>5. After(q, Negation(q, "dadd", "dsub", "dneg"))
    BY <2>2, <2>4, AfterVisits, NegationAfter
  <2> QED
    BY <1>4, <2>3, <2>4, <2>5, AfterChain
<1>13. After(q4, q5)
  <2>1. After(q4, Absorption(q4))
    BY <1>12, AfterVisits, AbsorptionAfter
  <2> QED
    BY <1>5, <2>1, AfterVisits, SameOperandAfter, AfterChain
<1>14. After(q5, q6)
  <2>1. PICK r1 : r1 = MergeAdds(q5)
    OBVIOUS
  <2>2. PICK r2 : r2 = MergeShiftInMul(r1)
    OBVIOUS
  <2>3. PICK r3 : r3 = MergeMul(r2)
    OBVIOUS
  <2>4. After(q5, r1)
    BY <1>13, <2>1, AfterVisits, MergeAddsAfter
  <2>5. After(q5, r2)
    BY <2>2, <2>4, AfterVisits, MergeShiftInMulAfter, AfterChain
  <2>6. After(q5, r3)
    BY <2>3, <2>5, AfterVisits, MergeMulAfter, AfterChain
  <2>7. After(r3, MulToShift(r3))
    BY <2>6, AfterVisits, MulToShiftAfter
  <2>8. q6 = MulToShift(r3)
    BY <1>6, <2>1, <2>2, <2>3
  <2> QED
    BY <2>6, <2>7, <2>8, AfterChain
<1>15. After(q6, q7)
  <2>0. "iadd" \in Binaries /\ "isub" \in Binaries
    BY NamedOpcodes
  <2>1. PICK r1 : r1 = DivToShift(q6)
    OBVIOUS
  <2>2. PICK r2 : r2 = MergeShifts(r1)
    OBVIOUS
  <2>3. PICK r3 : r3 = ShiftOfAdd(r2, "iadd")
    OBVIOUS
  <2>4. After(q6, r1)
    BY <1>14, <2>1, AfterVisits, DivToShiftAfter
  <2>5. After(q6, r2)
    BY <2>2, <2>4, AfterVisits, MergeShiftsAfter, AfterChain
  <2>6. After(q6, r3)
    BY <2>0, <2>3, <2>5, AfterVisits, ShiftOfAddAfter, AfterChain
  <2>7. After(r3, ShiftOfAdd(r3, "isub"))
    BY <2>0, <2>6, AfterVisits, ShiftOfAddAfter
  <2>8. q7 = ShiftOfAdd(r3, "isub")
    BY <1>7, <2>1, <2>2, <2>3
  <2> QED
    BY <2>6, <2>7, <2>8, AfterChain
<1>16. After(q7, q8)
  <2>1. After(q7, SubToAdd(q7))
    BY <1>15, AfterVisits, SubToAddAfter
  <2> QED
    BY <1>8, <2>1, AfterVisits, NoShiftAfter, AfterChain
<1>17. After(q8, q9)
  <2>0. "iand" \in Binaries /\ "ior" \in Binaries /\ "ixor" \in Binaries
    BY NamedOpcodes
  <2>1. PICK r1 : r1 = MergeBits(q8, "iand")
    OBVIOUS
  <2>2. PICK r2 : r2 = MergeBits(r1, "ior")
    OBVIOUS
  <2>3. After(q8, r1)
    BY <1>16, <2>0, <2>1, AfterVisits, MergeBitsAfter
  <2>4. After(r1, r2)
    BY <2>0, <2>2, <2>3, AfterVisits, MergeBitsAfter
  <2>5. After(r2, MergeBits(r2, "ixor"))
    BY <2>0, <2>4, AfterVisits, MergeBitsAfter
  <2>6. q9 = MergeBits(r2, "ixor")
    BY <1>9, <2>1, <2>2
  <2> QED
    BY <2>3, <2>4, <2>5, <2>6, AfterChain
<1>18. PICK r1 : r1 = XorIdentity(q9)
  OBVIOUS
<1>19. PICK r2 : r2 = AddressOfAdd(r1)
  OBVIOUS
<1>20. PICK r3 : r3 = FoldConstant(r2)
  OBVIOUS
<1>21. PICK r4 : r4 = FoldConstants(r3)
  OBVIOUS
<1>22. After(q9, r1)
  BY <1>17, <1>18, AfterVisits, XorIdentityAfter
<1>23. After(q9, r2)
  BY <1>19, <1>22, AfterVisits, AddressOfAddAfter, AfterChain
<1>24. After(q9, r3)
  BY <1>20, <1>23, AfterVisits, FoldConstantAfter, AfterChain
<1>25. After(q9, r4)
  BY <1>21, <1>24, AfterVisits, FoldConstantsAfter, AfterChain
<1>26. FoldOp(t) = r4
  <2>1. JumpOnZero(q2) = q2
    BY <1>2 DEF JumpOnZero
  <2> QED
    BY <1>2, <1>3, <1>4, <1>5, <1>6, <1>7, <1>8, <1>9, <1>18, <1>19, <1>20, <1>21, <2>1 DEF FoldOp
<1>27. After(q1, q5)
  BY <1>10, <1>11, <1>12, <1>13, AfterChain
<1>28. After(q5, q8)
  BY <1>14, <1>15, <1>16, AfterChain
<1>29. After(q8, r4)
  BY <1>17, <1>25, AfterChain
<1> QED
  BY <1>1, <1>26, <1>27, <1>28, <1>29, AfterChain

-----------------------------------------------------------------------------
(* The clean-up.                                                           *)

LEMMA BlankUses ==
    ASSUME NEW v
    PROVE  UsesBy(Blank, v) = 0
BY BlankFacts, UsesByFew

LEMMA OperandCounts ==
    ASSUME NEW o, IsOperation(o), NEW k \in DOMAIN o.in
    PROVE  UsesBy(o, o.in[k]) >= 1
<1>1. PICK v : v = o.in[k]
  OBVIOUS
<1>2. PICK S : S = { j \in DOMAIN o.in : o.in[j] = v }
  OBVIOUS
<1>3. IsFiniteSet(S) /\ k \in S
  <2>1. Len(o.in) \in Nat /\ DOMAIN o.in = 1..Len(o.in)
    BY OperationFacts
  <2>2. IsFiniteSet(DOMAIN o.in)
    BY <2>1, FS_Interval
  <2>3. S \subseteq DOMAIN o.in
    BY <1>2
  <2> QED
    BY <1>1, <1>2, <2>2, <2>3, FS_Subset
<1>4. Cardinality(S) \in Nat /\ Cardinality(S) # 0
  BY <1>3, FS_CardinalityType, FS_EmptySet
<1>5. PICK c : c = Cardinality(S)
  OBVIOUS
<1>6. UsesBy(o, v) = c + IF o.alt = v /\ (\E j \in DOMAIN o.label : o.label[j] = "exit")
                         THEN 1 ELSE 0
  BY <1>2, <1>5 DEF UsesBy
<1> QED
  BY <1>1, <1>4, <1>5, <1>6

(* Operations that became nops leave a procedure.                          *)
LEMMA BlankedIsProcedure ==
    ASSUME NEW ops, IsProcedure(ops), NEW p, p = [j \in 1..Len(ops) |-> p[j]],
           \A j \in 1..Len(ops) : p[j] \in {ops[j], Blank}
    PROVE  IsProcedure(p) /\ Len(p) = Len(ops) /\ DOMAIN p = 1..Len(ops)
<1>1. PICK n \in Nat : n = Len(ops)
  BY OpsFacts
<1>2. DOMAIN p = 1..n
  BY <1>1
<1>3. p \in Seq({ p[j] : j \in DOMAIN p }) /\ Len(p) = n
  <2>1. p \in [1..n -> { p[j] : j \in DOMAIN p }]
    BY <1>1, <1>2
  <2> QED
    BY <2>1
<1>4. ASSUME NEW j \in 1..n
      PROVE  IsOperation(p[j]) /\ \A k \in DOMAIN p[j].in : p[j].in[k] \in 1..(j - 1)
  <2>1. CASE p[j] = ops[j]
    BY <1>1, <2>1, OpsFacts
  <2>2. CASE p[j] = Blank
    BY <2>2, BlankFacts
  <2> QED
    BY <1>1, <2>1, <2>2
<1> QED
  BY <1>1, <1>2, <1>3, <1>4 DEF IsProcedure

(* The operations from i on.                                               *)
From(ops, i) == [j \in 1..Len(ops) |-> IF j < i THEN Blank ELSE ops[j]]

LEMMA FromFacts ==
    ASSUME NEW ops, IsProcedure(ops), NEW i
    PROVE  /\ IsProcedure(From(ops, i)) /\ Len(From(ops, i)) = Len(ops)
           /\ \A j \in 1..Len(ops) : From(ops, i)[j] = IF j < i THEN Blank ELSE ops[j]
<1>1. PICK p : p = From(ops, i)
  OBVIOUS
<1>2. /\ p = [j \in 1..Len(ops) |-> p[j]]
      /\ \A j \in 1..Len(ops) : p[j] = IF j < i THEN Blank ELSE ops[j]
  BY <1>1 DEF From
<1>3. \A j \in 1..Len(ops) : p[j] \in {ops[j], Blank}
  BY <1>2
<1> QED
  BY <1>1, <1>2, <1>3, BlankedIsProcedure

LEMMA NothingUses ==
    ASSUME NEW p, IsProcedure(p), \A j \in 1..Len(p) : p[j] = Blank, NEW v
    PROVE  TotalUses(p, v) = 0
<1>1. PICK n \in Nat : n = Len(p)
  BY OpsFacts
<1>2. PICK f \in SumsOf(p, v) : TotalUses(p, v) = f[n]
  BY <1>1, UsesAddUp
<1>3. f[0] = 0 /\ \A j \in 1..n : f[j] = f[j - 1] + 0
  BY <1>1, <1>2, BlankUses DEF SumsOf
<1> DEFINE S == { m \in Nat : m <= n => f[m] = 0 }
<1>4. 0 \in S
  BY <1>3
<1>5. ASSUME NEW m \in Nat, m \in S
      PROVE  m + 1 \in S
  <2>1. m + 1 <= n => m + 1 \in 1..n /\ (m + 1) - 1 = m
    OBVIOUS
  <2> QED
    BY <1>3, <1>5, <2>1
<1>6. n \in S
  <2> HIDE DEF S
  <2> QED
    BY <1>4, <1>5, SetOfAllNumbers
<1> QED
  BY <1>2, <1>6

PruneStates(t) ==
    [ops : [1..Len(t.ops) -> { t.ops[j] : j \in 1..Len(t.ops) } \cup {Blank}],
     nUse : [1..Len(t.ops) -> Nat], unsafe : {t.unsafe}, at : {t.at},
     rename : {t.rename}, progress : {t.progress}]

(* What is so when the operations from i on have been visited, the last    *)
(* one first: what stays can be reached, its operands are used and stay,   *)
(* and uses are counted.                                                   *)
Visited(t, r, i) ==
    /\ \A j \in 1..Len(t.ops) : j < i => r.ops[j] = t.ops[j]
    /\ \A j \in 1..Len(t.ops) : j >= i =>
        \/ r.ops[j] = Blank
        \/ r.ops[j] = t.ops[j] /\ \A h \in 1..(j - 1) : ~Ends(t.ops[h])
    /\ \A j \in 1..Len(t.ops) : j >= i => \A k \in DOMAIN r.ops[j].in :
        /\ r.nUse[r.ops[j].in[k]] > 0
        /\ r.ops[r.ops[j].in[k]] = t.ops[r.ops[j].in[k]]
    /\ \A v \in 1..Len(t.ops) : r.nUse[v] = TotalUses(From(r.ops, i), v)

LEMMA VisitTyped ==
    ASSUME NEW t, IsProcedure(t.ops), NEW i \in 1..Len(t.ops), NEW r \in PruneStates(t)
    PROVE  Visit(r, i) \in PruneStates(t)
<1>0. PICK n \in Nat : n = Len(t.ops)
  BY OpsFacts
<1>1. PICK Either : Either = { t.ops[j] : j \in 1..n } \cup {Blank}
  OBVIOUS
<1>2. /\ r.ops \in [1..n -> Either] /\ r.nUse \in [1..n -> Nat]
      /\ DOMAIN r = {"ops", "nUse", "unsafe", "at", "rename", "progress"}
      /\ r.unsafe = t.unsafe /\ r.at = t.at /\ r.rename = t.rename /\ r.progress = t.progress
  BY <1>0, <1>1 DEF PruneStates
<1>3. PICK c : c = r.ops[i]
  OBVIOUS
<1>4. \A v : UsesBy(c, v) \in Nat
  <2>1. \A o \in Either : IsOperation(o)
    BY <1>0, <1>1, OpsFacts, BlankFacts
  <2>2. c \in Either
    BY <1>0, <1>2, <1>3
  <2> QED
    BY <2>1, <2>2, UsesByNat
<1>5. PICK q : q = Visit(r, i)
  OBVIOUS
<1>6. /\ DOMAIN q = DOMAIN r
      /\ q.unsafe = r.unsafe /\ q.at = r.at /\ q.rename = r.rename /\ q.progress = r.progress
      /\ \/ q.ops = r.ops /\ q.nUse = [v \in 1..n |-> r.nUse[v] + UsesBy(c, v)]
         \/ q.ops = [r.ops EXCEPT ![i] = Blank] /\ q.nUse = r.nUse
  BY <1>2, <1>3, <1>5 DEF Visit
<1>7. q.ops \in [1..n -> Either] /\ q.nUse \in [1..n -> Nat]
  <2>1. \A v \in 1..n : r.nUse[v] + UsesBy(c, v) \in Nat
    BY <1>2, <1>4
  <2>2. Blank \in Either
    BY <1>1
  <2> QED
    BY <1>2, <1>6, <2>1, <2>2
<1>8. DOMAIN q = {"ops", "nUse", "unsafe", "at", "rename", "progress"}
  BY <1>2, <1>6
<1>9. q = [ops |-> q.ops, nUse |-> q.nUse, unsafe |-> q.unsafe, at |-> q.at,
           rename |-> q.rename, progress |-> q.progress]
  BY <1>2, <1>5 DEF Visit
<1> QED
  BY <1>0, <1>1, <1>2, <1>5, <1>6, <1>7, <1>9 DEF PruneStates

LEMMA VisitKeeps ==
    ASSUME NEW t, IsProcedure(t.ops), NEW i \in 1..Len(t.ops),
           NEW r \in PruneStates(t), Visited(t, r, i + 1)
    PROVE  Visited(t, Visit(r, i), i)
<1>0. PICK n \in Nat : n = Len(t.ops)
  BY OpsFacts
<1>1. /\ i \in 1..n /\ i \in Nat
      /\ \A j \in 1..n : IsOperation(t.ops[j])
      /\ \A j \in 1..n : \A k \in DOMAIN t.ops[j].in : t.ops[j].in[k] \in 1..(j - 1)
  BY <1>0, OpsFacts
<1>2. PICK Either : Either = { t.ops[j] : j \in 1..n } \cup {Blank}
  OBVIOUS
<1>3. /\ r.ops \in [1..n -> Either] /\ r.nUse \in [1..n -> Nat]
      /\ DOMAIN r = {"ops", "nUse", "unsafe", "at", "rename", "progress"}
      /\ r.unsafe = t.unsafe /\ r.at = t.at /\ r.rename = t.rename /\ r.progress = t.progress
  BY <1>0, <1>2 DEF PruneStates
<1>4. /\ \A j \in 1..n : j < i + 1 => r.ops[j] = t.ops[j]
      /\ \A j \in 1..n : j >= i + 1 =>
            \/ r.ops[j] = Blank
            \/ r.ops[j] = t.ops[j] /\ \A h \in 1..(j - 1) : ~Ends(t.ops[h])
      /\ \A j \in 1..n : j >= i + 1 => \A k \in DOMAIN r.ops[j].in :
            /\ r.nUse[r.ops[j].in[k]] > 0
            /\ r.ops[r.ops[j].in[k]] = t.ops[r.ops[j].in[k]]
      /\ \A v \in 1..n : r.nUse[v] = TotalUses(From(r.ops, i + 1), v)
  BY <1>0 DEF Visited
<1>5. r.ops[i] = t.ops[i] /\ \A j \in 1..n : r.ops[j] \in {t.ops[j], Blank}
  BY <1>1, <1>4
<1>6. IsProcedure(r.ops) /\ Len(r.ops) = n
  <2>1. r.ops = [j \in 1..n |-> r.ops[j]]
    BY <1>3
  <2> QED
    BY <1>0, <1>5, <2>1, BlankedIsProcedure
<1>7. PICK q : q = Visit(r, i)
  OBVIOUS
<1>8. PICK c : c = t.ops[i]
  OBVIOUS
<1>9. IsOperation(c) /\ \A v : UsesBy(c, v) \in Nat
  BY <1>1, <1>8, UsesByNat
<1>10. CASE /\ \A j \in 1..(i - 1) : ~Ends(r.ops[j])
            /\ r.nUse[i] > 0 \/ Kept(r.ops[i], r.unsafe)
  <2>1. q = [r EXCEPT !.nUse = [v \in DOMAIN @ |-> @[v] + UsesBy(c, v)]]
    BY <1>5, <1>7, <1>8, <1>10 DEF Visit
  <2>2. /\ q.ops = r.ops /\ DOMAIN q = DOMAIN r
        /\ q.nUse = [v \in 1..n |-> r.nUse[v] + UsesBy(c, v)]
        /\ q.unsafe = r.unsafe /\ q.at = r.at /\ q.rename = r.rename /\ q.progress = r.progress
    BY <1>3, <2>1
  <2>3. q.nUse \in [1..n -> Nat] /\ \A v \in 1..n : q.nUse[v] = r.nUse[v] + UsesBy(c, v)
    <3>1. \A v \in 1..n : r.nUse[v] + UsesBy(c, v) \in Nat
      BY <1>3, <1>9
    <3> QED
      BY <2>2, <3>1
  <2>5. \A h \in 1..(i - 1) : ~Ends(t.ops[h])
    <3>1. \A h \in 1..(i - 1) : h \in 1..n /\ h < i + 1
      BY <1>1
    <3> QED
      BY <1>4, <1>10, <3>1
  <2>6. ASSUME NEW j \in 1..n, j >= i
        PROVE  \/ q.ops[j] = Blank
               \/ q.ops[j] = t.ops[j] /\ \A h \in 1..(j - 1) : ~Ends(t.ops[h])
    BY <1>4, <1>5, <2>2, <2>5, <2>6
  <2>7. ASSUME NEW j \in 1..n, j >= i, NEW k \in DOMAIN q.ops[j].in
        PROVE  /\ q.nUse[q.ops[j].in[k]] > 0
               /\ q.ops[q.ops[j].in[k]] = t.ops[q.ops[j].in[k]]
    <3>1. PICK x : x = q.ops[j].in[k]
      OBVIOUS
    <3>2. CASE j = i
      <4>1. x \in 1..(i - 1) /\ UsesBy(c, x) >= 1
        <5>1. k \in DOMAIN c.in /\ x = c.in[k]
          BY <1>5, <1>8, <2>2, <2>7, <3>1, <3>2
        <5> QED
          BY <1>1, <1>8, <1>9, <5>1, OperandCounts
      <4>2. x \in 1..n /\ x < i + 1
        BY <1>1, <4>1
      <4>3. q.nUse[x] > 0
        BY <1>3, <1>9, <2>3, <4>1, <4>2
      <4> QED
        BY <1>4, <2>2, <3>1, <4>2, <4>3
    <3>3. CASE j >= i + 1
      <4>1. r.nUse[x] > 0 /\ r.ops[x] = t.ops[x]
        BY <1>4, <2>2, <3>1, <3>3
      <4>2. x \in 1..n
        <5>1. r.ops[j] = t.ops[j]
          BY <1>5, <2>2, <2>7, BlankFacts
        <5>2. x \in 1..(j - 1)
          BY <1>1, <2>2, <3>1, <5>1
        <5> QED
          BY <5>2
      <4> QED
        BY <1>3, <1>9, <2>2, <2>3, <3>1, <4>1, <4>2
    <3> QED
      BY <1>1, <2>7, <3>2, <3>3
  <2>8. ASSUME NEW v \in 1..n
        PROVE  q.nUse[v] = TotalUses(From(q.ops, i), v)
    <3>1. PICK p1 : p1 = From(r.ops, i + 1)
      OBVIOUS
    <3>2. PICK p2 : p2 = From(r.ops, i)
      OBVIOUS
    <3>3. /\ IsProcedure(p1) /\ IsProcedure(p2) /\ Len(p1) = n /\ Len(p2) = n
          /\ \A j \in 1..n : p1[j] = IF j < i + 1 THEN Blank ELSE r.ops[j]
          /\ \A j \in 1..n : p2[j] = IF j < i THEN Blank ELSE r.ops[j]
      BY <1>6, <3>1, <3>2, FromFacts
    <3>4. p1[i] = Blank /\ p2[i] = c /\ \A j \in 1..n : j # i => p2[j] = p1[j]
      BY <1>1, <1>5, <1>8, <3>3
    <3>5. TotalUses(p2, v) = TotalUses(p1, v) + UsesBy(c, v) - UsesBy(Blank, v)
      BY <1>1, <3>3, <3>4, TotalChanges
    <3>6. TotalUses(p1, v) = r.nUse[v]
      BY <1>4, <3>1
    <3> QED
      BY <1>3, <1>9, <2>2, <2>3, <3>2, <3>5, <3>6, BlankUses
  <2>9. \A j \in 1..n : j < i => q.ops[j] = t.ops[j]
    BY <1>1, <1>4, <2>2
  <2> QED
    BY <1>0, <1>7, <2>6, <2>7, <2>8, <2>9 DEF Visited
<1>11. CASE ~ /\ \A j \in 1..(i - 1) : ~Ends(r.ops[j])
              /\ r.nUse[i] > 0 \/ Kept(r.ops[i], r.unsafe)
  <2>1. q = [r EXCEPT !.ops[i] = Blank]
    BY <1>7, <1>11 DEF Visit
  <2>2. /\ q.ops = [r.ops EXCEPT ![i] = Blank] /\ q.nUse = r.nUse /\ DOMAIN q = DOMAIN r
        /\ q.unsafe = r.unsafe /\ q.at = r.at /\ q.rename = r.rename /\ q.progress = r.progress
    BY <1>3, <2>1
  <2>3. q.ops \in [1..n -> Either] /\ \A j \in 1..n : q.ops[j] = IF j = i THEN Blank ELSE r.ops[j]
    BY <1>1, <1>2, <1>3, <2>2
  <2>5. ASSUME NEW j \in 1..n, j >= i
        PROVE  \/ q.ops[j] = Blank
               \/ q.ops[j] = t.ops[j] /\ \A h \in 1..(j - 1) : ~Ends(t.ops[h])
    BY <1>1, <1>4, <2>3, <2>5
  <2>6. ASSUME NEW j \in 1..n, j >= i, NEW k \in DOMAIN q.ops[j].in
        PROVE  /\ q.nUse[q.ops[j].in[k]] > 0
               /\ q.ops[q.ops[j].in[k]] = t.ops[q.ops[j].in[k]]
    <3>1. PICK x : x = q.ops[j].in[k]
      OBVIOUS
    <3>2. j # i /\ q.ops[j] = r.ops[j] /\ j >= i + 1
      BY <1>1, <2>3, <2>6, BlankFacts
    <3>3. r.nUse[x] > 0 /\ r.ops[x] = t.ops[x]
      BY <1>4, <2>6, <3>1, <3>2
    <3>4. /\ r.ops[j] = t.ops[j] /\ \A h \in 1..(j - 1) : ~Ends(t.ops[h])
      <4>1. r.ops[j] # Blank
        BY <2>6, <3>2, BlankFacts
      <4> QED
        BY <1>4, <2>6, <3>2, <4>1
    <3>5. x \in 1..n
      <4>1. x \in 1..(j - 1)
        BY <1>1, <2>6, <3>1, <3>2, <3>4
      <4> QED
        BY <4>1
    <3>6. x # i
      <4> SUFFICES ASSUME x = i
                   PROVE  FALSE
        OBVIOUS
      <4>1. \A h \in 1..(i - 1) : h \in 1..n /\ h < i + 1 /\ h \in 1..(j - 1)
        BY <1>1, <3>2
      <4>2. \A h \in 1..(i - 1) : ~Ends(r.ops[h])
        BY <1>4, <3>4, <4>1
      <4> QED
        BY <1>11, <3>3, <4>2
    <3> QED
      BY <2>2, <2>3, <3>1, <3>3, <3>5, <3>6
  <2>7. ASSUME NEW v \in 1..n
        PROVE  q.nUse[v] = TotalUses(From(q.ops, i), v)
    <3>1. From(q.ops, i) = From(r.ops, i + 1)
      <4>1. Len(q.ops) = n
        BY <2>3
      <4>2. \A j \in 1..n : (IF j < i THEN Blank ELSE q.ops[j])
                                = IF j < i + 1 THEN Blank ELSE r.ops[j]
        BY <1>1, <2>3
      <4> QED
        BY <1>6, <4>1, <4>2 DEF From
    <3> QED
      BY <1>4, <2>2, <3>1
  <2>8. \A j \in 1..n : j < i => q.ops[j] = t.ops[j]
    BY <1>1, <1>4, <2>3
  <2> QED
    BY <1>0, <1>7, <2>5, <2>6, <2>7, <2>8 DEF Visited
<1> QED
  BY <1>10, <1>11

LEMMA PruneVisits ==
    ASSUME NEW t, IsState(t)
    PROVE  Prune(t) \in PruneStates(t) /\ Visited(t, Prune(t), 1)
<1>0. PICK len \in Nat : len = Len(t.ops)
  BY OpsFacts DEF IsState
<1>1. IsProcedure(t.ops) /\ t.ops = [j \in 1..len |-> t.ops[j]]
  BY <1>0, OpsFacts DEF IsState
<1>2. PICK D : D = PruneStates(t)
  OBVIOUS
<1>3. PICK base : base = [t EXCEPT !.nUse = [v \in 1..len |-> 0]]
  OBVIOUS
<1>4. base \in D
  <2>1. base = [ops |-> t.ops, nUse |-> [v \in 1..len |-> 0], unsafe |-> t.unsafe, at |-> t.at,
                rename |-> t.rename, progress |-> t.progress]
    BY <1>3 DEF IsState
  <2>2. t.ops \in [1..len -> { t.ops[j] : j \in 1..len } \cup {Blank}]
    BY <1>1
  <2>3. [v \in 1..len |-> 0] \in [1..len -> Nat]
    OBVIOUS
  <2> QED
    BY <1>0, <1>2, <2>1, <2>2, <2>3 DEF PruneStates
<1>5. Visited(t, base, len + 1)
  <2>1. /\ base.ops = t.ops /\ base.nUse = [v \in 1..len |-> 0]
    BY <1>3 DEF IsState
  <2>2. \A v \in 1..len : TotalUses(From(t.ops, len + 1), v) = 0
    <3>1. PICK p : p = From(t.ops, len + 1)
      OBVIOUS
    <3>2. IsProcedure(p) /\ Len(p) = len /\ \A j \in 1..len : p[j] = Blank
      BY <1>0, <1>1, <3>1, FromFacts
    <3> QED
      BY <3>1, <3>2, NothingUses
  <2>3. \A j \in 1..len : j < len + 1 /\ ~(j >= len + 1)
    OBVIOUS
  <2> QED
    BY <1>0, <2>1, <2>2, <2>3 DEF Visited
<1>6. \A n \in 1..len : len + 1 - n \in 1..len /\ len + 1 - (n - 1) = (len + 1 - n) + 1
  OBVIOUS
<1> DEFINE G == [n \in 1..len |-> [r \in D |-> Visit(r, len + 1 - n)]]
<1>7. /\ G \in [1..len -> [D -> D]]
      /\ \A n \in 1..len, r \in D : G[n][r] = Visit(r, len + 1 - n)
  <2>1. \A n \in 1..len, r \in D : Visit(r, len + 1 - n) \in D
    BY <1>0, <1>1, <1>2, <1>6, VisitTyped
  <2> QED
    BY <2>1
<1> HIDE DEF G
<1> DEFINE Upto == [n \in 0..len |-> { r \in D : Visited(t, r, len + 1 - n) }]
<1>8. base \in Upto[0]
  BY <1>4, <1>5
<1>9. \A n \in 1..len : \A r \in D : r \in Upto[n - 1] => G[n][r] \in Upto[n]
  <2> SUFFICES ASSUME NEW n \in 1..len, NEW r \in D, Visited(t, r, len + 1 - (n - 1))
               PROVE  G[n][r] \in D /\ Visited(t, G[n][r], len + 1 - n)
    <3>1. \A n \in 1..len : n \in 0..len /\ n - 1 \in 0..len
      OBVIOUS
    <3> QED
      BY <3>1
  <2>1. PICK i \in 1..len : i = len + 1 - n /\ len + 1 - (n - 1) = i + 1
    BY <1>6
  <2>2. Visited(t, Visit(r, i), i)
    BY <1>0, <1>1, <1>2, <2>1, VisitKeeps
  <2>3. G[n][r] \in D
    BY <1>7
  <2> QED
    BY <1>7, <2>1, <2>2, <2>3
<1>10. Upto[len] = { r \in D : Visited(t, r, 1) }
  <2>1. len \in 0..len /\ len + 1 - len = 1
    OBVIOUS
  <2> QED
    BY <2>1
<1> HIDE DEF Upto
<1>11. PICK h : h \in Recursive(D, base, len, G)
  BY <1>4, <1>7, RecursionExists
<1>12. h \in [0..len -> D] /\ h[0] = base /\ \A n \in 1..len : h[n] = G[n][h[n - 1]]
  BY <1>11 DEF Recursive
<1> DEFINE Unfold(g) == [n \in 0..len |-> IF n = 0 THEN base ELSE Visit(g[n - 1], len + 1 - n)]
<1>13. h = Unfold(h)
  <2>1. \A n \in 1..len : n - 1 \in 0..len
    OBVIOUS
  <2>2. \A n \in 1..len : h[n] = Visit(h[n - 1], len + 1 - n)
    BY <1>7, <1>12, <2>1
  <2>3. \A n \in 0..len : n = 0 \/ n \in 1..len
    OBVIOUS
  <2>4. \A n \in 0..len : h[n] = Unfold(h)[n]
    BY <1>12, <2>2, <2>3
  <2> QED
    BY <1>12, <2>4
<1> DEFINE f == CHOOSE g : g = Unfold(g)
<1>14. f = Unfold(f)
  <2> HIDE DEF Unfold
  <2> QED
    BY <1>13
<1>15. Prune(t) = f[len]
  BY <1>0, <1>3 DEF Prune
<1> HIDE DEF f
<1>16. /\ f = [n \in 0..len |-> f[n]] /\ f[0] = base
       /\ \A n \in 1..len : f[n] = Visit(f[n - 1], len + 1 - n)
  <2>1. \A n \in 0..len : f[n] = IF n = 0 THEN base ELSE Visit(f[n - 1], len + 1 - n)
    BY <1>14
  <2>2. \A n \in 1..len : n \in 0..len /\ n # 0
    OBVIOUS
  <2>3. DOMAIN f = 0..len /\ f = [n \in DOMAIN f |-> f[n]]
    BY <1>14
  <2>4. f[0] = base
    BY <2>1
  <2>5. \A n \in 1..len : f[n] = Visit(f[n - 1], len + 1 - n)
    BY <2>1, <2>2
  <2> QED
    BY <2>3, <2>4, <2>5
<1>17. f \in Recursive(D, base, len, G)
  <2>1. \A n \in 1..len : f[n - 1] \in D => f[n] = G[n][f[n - 1]]
    BY <1>7, <1>16
  <2> QED
    BY <1>4, <1>7, <1>16, <2>1, RecursionTyped
<1>18. f[len] \in Upto[len]
  BY <1>4, <1>8, <1>9, <1>17, RecursionKeeps
<1> QED
  BY <1>2, <1>10, <1>15, <1>18

(* The clean-up leaves a procedure, and knows its uses.                    *)
LEMMA PruneCleans ==
    ASSUME NEW t, IsState(t), OperandsComputed(t.ops), NEW q, q = Prune(t)
    PROVE  /\ IsState(q) /\ Len(q.ops) = Len(t.ops)
           /\ OperandsComputed(q.ops) /\ Exact(q)
           /\ q.at = t.at /\ q.rename = t.rename /\ q.progress = t.progress
<1>0. PICK n \in Nat : n = Len(t.ops)
  BY OpsFacts DEF IsState
<1>1. /\ IsProcedure(t.ops) /\ t.progress \in BOOLEAN
      /\ DOMAIN t.ops = 1..n
      /\ \A j \in 1..n : \A k \in DOMAIN t.ops[j].in : t.ops[j].in[k] \in 1..(j - 1)
  BY <1>0, OpsFacts DEF IsState
<1>2. q \in PruneStates(t) /\ Visited(t, q, 1)
  BY PruneVisits
<1>3. /\ DOMAIN q = {"ops", "nUse", "unsafe", "at", "rename", "progress"}
      /\ q.ops = [j \in 1..n |-> q.ops[j]] /\ q.nUse \in [1..n -> Nat]
      /\ q.at = t.at /\ q.rename = t.rename /\ q.progress = t.progress
  BY <1>0, <1>2 DEF PruneStates
<1>4. /\ \A j \in 1..n : q.ops[j] \in {t.ops[j], Blank}
      /\ \A j \in 1..n : \A k \in DOMAIN q.ops[j].in :
            q.ops[q.ops[j].in[k]] = t.ops[q.ops[j].in[k]]
      /\ \A v \in 1..n : q.nUse[v] = TotalUses(From(q.ops, 1), v)
  BY <1>0, <1>2 DEF Visited
<1>5. IsProcedure(q.ops) /\ Len(q.ops) = n /\ DOMAIN q.ops = 1..n
  BY <1>0, <1>1, <1>3, <1>4, BlankedIsProcedure
<1>6. IsState(q)
  BY <1>1, <1>3, <1>5 DEF IsState
<1>7. OperandsComputed(q.ops)
  <2> SUFFICES ASSUME NEW j \in 1..n, NEW k \in DOMAIN q.ops[j].in
               PROVE  HasOutput(q.ops[q.ops[j].in[k]])
    BY <1>5 DEF OperandsComputed
  <2>1. q.ops[j] = t.ops[j]
    BY <1>4, BlankFacts
  <2>2. HasOutput(t.ops[t.ops[j].in[k]])
    BY <1>1, <2>1 DEF OperandsComputed
  <2> QED
    BY <1>4, <2>1, <2>2
<1>8. Exact(q)
  <2>1. From(q.ops, 1) = q.ops
    <3>1. \A j \in 1..n : ~(j < 1)
      OBVIOUS
    <3>2. From(q.ops, 1) = [j \in 1..n |-> q.ops[j]]
      BY <1>5, <3>1 DEF From
    <3> QED
      BY <1>3, <3>2
  <2>2. q.nUse \in [1..n -> Int]
    BY <1>3
  <2> QED
    BY <1>4, <1>5, <2>1, <2>2 DEF Exact
<1> QED
  BY <1>0, <1>3, <1>5, <1>6, <1>7, <1>8

-----------------------------------------------------------------------------
(* What a rule of reassociation keeps.                                     *)

(* What the rules of reassociation rely on and keep.                       *)
Sound(t) ==
    IsState(t) /\ OperandsComputed(t.ops) /\ Exact(t) /\ t.at \in DOMAIN t.ops

Keeps(t, q) == Sound(q) /\ q.at = t.at /\ DOMAIN q.ops = DOMAIN t.ops

(* The second operand is not computed after the first.                     *)
InOrder(t, c) == Is(Cur(t), c) => Cur(t).in[2] <= Cur(t).in[1]

KeepsOrder(t, q) == Keeps(t, q) /\ \A c : InOrder(t, c) => InOrder(q, c)

LEMMA KeepsSelf ==
    ASSUME NEW t, Sound(t)
    PROVE  Keeps(t, t) /\ KeepsOrder(t, t)
BY DEF Keeps, KeepsOrder

LEMMA KeepsChain ==
    ASSUME NEW t, NEW q, NEW r
    PROVE  /\ Keeps(t, q) => Sound(q)
           /\ KeepsOrder(t, q) => Keeps(t, q)
           /\ Keeps(t, q) /\ Keeps(q, r) => Keeps(t, r)
           /\ KeepsOrder(t, q) /\ KeepsOrder(q, r) => KeepsOrder(t, r)
BY DEF Keeps, KeepsOrder

LEMMA SoundFacts ==
    ASSUME NEW t, Sound(t)
    PROVE  /\ Len(t.ops) \in Nat /\ DOMAIN t.ops = 1..Len(t.ops)
           /\ t.at \in 1..Len(t.ops) /\ t.at \in Nat
           /\ DOMAIN t = {"ops", "nUse", "unsafe", "at", "rename", "progress"}
           /\ t.progress \in BOOLEAN /\ IsProcedure(t.ops)
           /\ Cur(t) = t.ops[t.at]
           /\ \A j \in 1..Len(t.ops) :
                /\ IsOperation(t.ops[j])
                /\ \A k \in DOMAIN t.ops[j].in :
                    t.ops[j].in[k] \in 1..(j - 1) /\ HasOutput(t.ops[t.ops[j].in[k]])
           /\ t.nUse \in [1..Len(t.ops) -> Int]
           /\ \A v \in 1..Len(t.ops) : t.nUse[v] = TotalUses(t.ops, v)
<1>1. /\ IsProcedure(t.ops) /\ t.progress \in BOOLEAN
      /\ DOMAIN t = {"ops", "nUse", "unsafe", "at", "rename", "progress"}
  BY DEF Sound, IsState
<1>2. /\ Len(t.ops) \in Nat /\ DOMAIN t.ops = 1..Len(t.ops)
      /\ \A j \in 1..Len(t.ops) :
            /\ IsOperation(t.ops[j])
            /\ \A k \in DOMAIN t.ops[j].in : t.ops[j].in[k] \in 1..(j - 1)
  BY <1>1, OpsFacts
<1>3. t.at \in 1..Len(t.ops) /\ t.at \in Nat
  BY <1>2 DEF Sound
<1>4. \A j \in 1..Len(t.ops) : \A k \in DOMAIN t.ops[j].in : HasOutput(t.ops[t.ops[j].in[k]])
  BY <1>2 DEF Sound, OperandsComputed
<1>5. /\ t.nUse \in [1..Len(t.ops) -> Int]
      /\ \A v \in 1..Len(t.ops) : t.nUse[v] = TotalUses(t.ops, v)
  BY <1>2 DEF Sound, Exact
<1> QED
  BY <1>1, <1>2, <1>3, <1>4, <1>5 DEF Cur

(* An operand before operation i.                                          *)
ReadyAt(t, i, x) == x \in 1..(i - 1) /\ HasOutput(t.ops[x])

(* An operand, with operands of its own when a rule asks for its opcode.   *)
LEMMA OperandOf ==
    ASSUME NEW t, Sound(t), NEW i \in 1..Len(t.ops), NEW k \in DOMAIN t.ops[i].in,
           NEW x, x = t.ops[i].in[k]
    PROVE  /\ ReadyAt(t, i, x) /\ x \in 1..Len(t.ops) /\ IsOperation(t.ops[x])
BY SoundFacts DEF ReadyAt

LEMMA ValueOperands ==
    ASSUME NEW t, Sound(t), NEW i \in 1..Len(t.ops), NEW c \in Binaries
    PROVE  /\ Is(t.ops[i], c) =>
                /\ IsValue(t.ops[i], c, FALSE)
                /\ t.ops[i].in = <<t.ops[i].in[1], t.ops[i].in[2]>>
                /\ ReadyAt(t, i, t.ops[i].in[1]) /\ ReadyAt(t, i, t.ops[i].in[2])
                /\ t.ops[i].in[1] \in 1..Len(t.ops) /\ t.ops[i].in[2] \in 1..Len(t.ops)
           /\ IsI(t.ops[i], c) =>
                /\ IsValue(t.ops[i], c, TRUE)
                /\ t.ops[i].in = <<t.ops[i].in[1]>>
                /\ ReadyAt(t, i, t.ops[i].in[1])
                /\ t.ops[i].in[1] \in 1..Len(t.ops)
<1>1. PICK o : o = t.ops[i]
  OBVIOUS
<1>2. /\ IsOperation(o) /\ o.in \in Seq(Nat) /\ DOMAIN o.in = 1..Len(o.in)
      /\ DOMAIN o = {"op", "jump", "hasImm", "in", "imm", "label", "alt"}
  BY <1>1, SoundFacts, OperationFacts
<1>3. \A k \in 1..Len(o.in) : ReadyAt(t, i, o.in[k]) /\ o.in[k] \in 1..Len(t.ops)
  BY <1>1, <1>2, OperandOf
<1>4. CASE Is(o, c)
  <2>1. Len(o.in) = 2 /\ o.op = c /\ o.jump = FALSE /\ o.label = << >> /\ o.hasImm = FALSE
    BY <1>2, <1>4, IsFacts
  <2>2. o.in = <<o.in[1], o.in[2]>>
    BY <1>2, <2>1
  <2>3. 1 \in 1..Len(o.in) /\ 2 \in 1..Len(o.in) /\ ~IsI(o, c)
    BY <2>1 DEF IsI
  <2> QED
    BY <1>1, <1>2, <1>3, <2>1, <2>2, <2>3 DEF IsValue
<1>5. CASE IsI(o, c)
  <2>1. Len(o.in) = 1 /\ o.op = c /\ o.jump = FALSE /\ o.label = << >> /\ o.hasImm = TRUE
    BY <1>2, <1>5, IsFacts
  <2>2. o.in = <<o.in[1]>>
    BY <1>2, <2>1
  <2>3. 1 \in 1..Len(o.in) /\ ~Is(o, c)
    BY <2>1 DEF Is
  <2> QED
    BY <1>1, <1>2, <1>3, <2>1, <2>2, <2>3 DEF IsValue
<1> QED
  BY <1>1, <1>4, <1>5

(* Values.                                                                 *)
LEMMA ValueFacts ==
    ASSUME NEW o, NEW c \in Binaries, NEW x \in Nat
    PROVE  /\ IsValue(o, c, TRUE) /\ o.in = <<x>> =>
                /\ IsOperation(o) /\ HasOutput(o) /\ DOMAIN o.in = {1} /\ o.in[1] = x
                /\ \A v : UsesBy(o, v) = OneIf(x, v)
           /\ \A y \in Nat : IsValue(o, c, FALSE) /\ o.in = <<x, y>> =>
                /\ IsOperation(o) /\ HasOutput(o)
                /\ DOMAIN o.in = {1, 2} /\ o.in[1] = x /\ o.in[2] = y
                /\ \A v : UsesBy(o, v) = OneIf(x, v) + OneIf(y, v)
<1>0. c \notin {"jz", "jnz", "jmp", "iret", "si", "s2i", "nop"}
  BY Opcodes
<1>1. ASSUME IsValue(o, c, TRUE), o.in = <<x>>
      PROVE  /\ IsOperation(o) /\ HasOutput(o) /\ DOMAIN o.in = {1} /\ o.in[1] = x
             /\ \A v : UsesBy(o, v) = OneIf(x, v)
  <2>1. /\ DOMAIN o = {"op", "jump", "hasImm", "in", "imm", "label", "alt"}
        /\ o.op = c /\ o.jump = FALSE /\ o.hasImm = TRUE /\ o.label = << >>
    BY <1>1 DEF IsValue
  <2>2. o.in \in Seq(Nat) /\ Len(o.in) = 1 /\ DOMAIN o.in = {1} /\ o.in[1] = x
    BY <1>1
  <2>3. IsOperation(o)
    BY <1>0, <2>1, <2>2, MakesOperation
  <2>4. HasOutput(o)
    BY <1>0, <2>1 DEF HasOutput
  <2>5. \A v : UsesBy(o, v) = OneIf(x, v)
    BY <1>1, <2>1, UsesByFew
  <2> QED
    BY <2>2, <2>3, <2>4, <2>5
<1>2. ASSUME NEW y \in Nat, IsValue(o, c, FALSE), o.in = <<x, y>>
      PROVE  /\ IsOperation(o) /\ HasOutput(o)
             /\ DOMAIN o.in = {1, 2} /\ o.in[1] = x /\ o.in[2] = y
             /\ \A v : UsesBy(o, v) = OneIf(x, v) + OneIf(y, v)
  <2>1. /\ DOMAIN o = {"op", "jump", "hasImm", "in", "imm", "label", "alt"}
        /\ o.op = c /\ o.jump = FALSE /\ o.hasImm = FALSE /\ o.label = << >>
    BY <1>2 DEF IsValue
  <2>2. /\ o.in \in Seq(Nat) /\ Len(o.in) = 2 /\ DOMAIN o.in = {1, 2}
        /\ o.in[1] = x /\ o.in[2] = y
    BY <1>2
  <2>3. IsOperation(o)
    BY <1>0, <2>1, <2>2, MakesOperation
  <2>4. HasOutput(o)
    BY <1>0, <2>1 DEF HasOutput
  <2>5. \A v : UsesBy(o, v) = OneIf(x, v) + OneIf(y, v)
    BY <1>2, <2>1, UsesByFew
  <2> QED
    BY <2>2, <2>3, <2>4, <2>5
<1> QED
  BY <1>1, <1>2

LEMMA BinaryFacts ==
    ASSUME NEW c, NEW x, NEW y, NEW imm
    PROVE  /\ IsValue(Binary(c, x, y), c, FALSE) /\ Binary(c, x, y).in = <<x, y>>
           /\ IsValue(WithImm(c, x, imm), c, TRUE) /\ WithImm(c, x, imm).in = <<x>>
BY BlankFacts DEF IsValue, Binary, WithImm

LEMMA TotalUsesNat ==
    ASSUME NEW p, IsProcedure(p), NEW v
    PROVE  TotalUses(p, v) \in Nat
<1>1. PICK len \in Nat : len = Len(p)
  BY OpsFacts
<1>2. PICK f \in SumsOf(p, v) : TotalUses(p, v) = f[len]
  BY <1>1, UsesAddUp
<1>3. f[0] = 0 /\ \A j \in 1..len : f[j] = f[j - 1] + UsesBy(p[j], v)
  BY <1>1, <1>2 DEF SumsOf
<1>4. \A j \in 1..len : UsesBy(p[j], v) \in Nat
  BY <1>1, OpsFacts, UsesByNat
<1> DEFINE S == { m \in Nat : m <= len => f[m] \in Nat }
<1>5. 0 \in S
  BY <1>3
<1>6. ASSUME NEW m \in Nat, m \in S
      PROVE  m + 1 \in S
  <2> SUFFICES ASSUME m + 1 <= len
               PROVE  f[m + 1] \in Nat
    OBVIOUS
  <2>1. m + 1 \in 1..len /\ (m + 1) - 1 = m /\ f[m] \in Nat
    BY <1>6
  <2> QED
    BY <1>3, <1>4, <2>1
<1>7. len \in S
  <2> HIDE DEF S
  <2> QED
    BY <1>5, <1>6, SetOfAllNumbers
<1> QED
  BY <1>2, <1>7

LEMMA UsesAtMostTotal ==
    ASSUME NEW p, IsProcedure(p), NEW i \in 1..Len(p), NEW v
    PROVE  UsesBy(p[i], v) <= TotalUses(p, v)
<1>1. PICK len \in Nat : len = Len(p)
  BY OpsFacts
<1>2. PICK q : q = [p EXCEPT ![i] = Blank]
  OBVIOUS
<1>3. DOMAIN p = 1..len
  BY <1>1, OpsFacts
<1>4. /\ IsProcedure(q) /\ DOMAIN q = 1..len
      /\ q[i] = Blank /\ \A j \in 1..len : j # i => q[j] = p[j]
  <2>1. i \in DOMAIN p
    BY <1>1, <1>3
  <2>2. IsOperation(Blank) /\ \A k \in DOMAIN Blank.in : Blank.in[k] \in 1..(i - 1)
    BY BlankFacts
  <2>3. IsProcedure(q) /\ DOMAIN q = DOMAIN p
    BY <1>2, <2>1, <2>2, ProcedureChanges
  <2>4. q[i] = Blank
    BY <1>2, <2>1
  <2>5. \A j \in 1..len : j # i => q[j] = p[j]
    BY <1>2, <1>3
  <2> QED
    BY <1>3, <2>3, <2>4, <2>5
<1>5. Len(q) = len
  BY <1>1, <1>4, OpsFacts
<1>6. TotalUses(p, v) = TotalUses(q, v) + UsesBy(p[i], v) - UsesBy(q[i], v)
  BY <1>1, <1>4, <1>5, TotalChanges
<1>7. TotalUses(q, v) \in Nat /\ UsesBy(p[i], v) \in Nat /\ UsesBy(q[i], v) = 0
  BY <1>1, <1>4, TotalUsesNat, OpsFacts, UsesByNat, BlankUses
<1> QED
  BY <1>6, <1>7

(* An operand that is used once is not used twice by the operation.        *)
LEMMA SoleUseOnce ==
    ASSUME NEW t, Sound(t), NEW c \in Binaries, Is(Cur(t), c),
           SoleUse(t, 1) \/ SoleUse(t, 2)
    PROVE  Cur(t).in[1] # Cur(t).in[2]
<1>1. PICK o : o = Cur(t)
  OBVIOUS
<1>2. PICK x : x = o.in[1]
  OBVIOUS
<1> SUFFICES ASSUME o.in[2] = x
             PROVE  FALSE
  BY <1>1, <1>2
<1>3. /\ o = t.ops[t.at] /\ t.at \in 1..Len(t.ops) /\ IsProcedure(t.ops)
      /\ \A v \in 1..Len(t.ops) : t.nUse[v] = TotalUses(t.ops, v)
      /\ Len(t.ops) \in Nat
  BY <1>1, SoundFacts
<1>4. /\ IsValue(o, c, FALSE) /\ o.in = <<x, x>> /\ x \in 1..Len(t.ops)
  <2>1. Is(t.ops[t.at], c)
    BY <1>1, <1>3
  <2>2. /\ IsValue(t.ops[t.at], c, FALSE)
        /\ t.ops[t.at].in = <<t.ops[t.at].in[1], t.ops[t.at].in[2]>>
        /\ t.ops[t.at].in[1] \in 1..Len(t.ops)
    BY <1>3, <2>1, ValueOperands
  <2>3. IsValue(o, c, FALSE) /\ o.in = <<o.in[1], o.in[2]>> /\ o.in[1] \in 1..Len(t.ops)
    BY <1>3, <2>2
  <2> QED
    BY <1>2, <2>3
<1>5. UsesBy(o, x) = OneIf(x, x) + OneIf(x, x)
  <2>1. x \in Nat
    BY <1>3, <1>4
  <2>2. \A y \in Nat : IsValue(o, c, FALSE) /\ o.in = <<x, y>> =>
            \A v : UsesBy(o, v) = OneIf(x, v) + OneIf(y, v)
    BY <2>1, ValueFacts
  <2> QED
    BY <1>4, <2>1, <2>2
<1>6. UsesBy(o, x) = 2
  BY <1>5 DEF OneIf
<1>7. TotalUses(t.ops, x) >= 2
  <2>1. UsesBy(o, x) <= TotalUses(t.ops, x)
    BY <1>3, UsesAtMostTotal
  <2>2. TotalUses(t.ops, x) \in Nat
    BY <1>3, TotalUsesNat
  <2> QED
    BY <1>6, <2>1, <2>2
<1>8. t.nUse[x] = 1
  BY <1>1, <1>2 DEF SoleUse
<1> QED
  BY <1>3, <1>4, <1>7, <1>8

(* Writing one operation.                                                  *)
LEMMA Overwrite ==
    ASSUME NEW p, IsProcedure(p), OperandsComputed(p), NEW i \in DOMAIN p,
           NEW o, IsOperation(o), HasOutput(o),
           \A k \in DOMAIN o.in : o.in[k] \in 1..(i - 1) /\ HasOutput(p[o.in[k]]),
           NEW q, IsProcedure(q), DOMAIN q = DOMAIN p,
           q[i] = o, \A j \in DOMAIN p : j # i => q[j] = p[j]
    PROVE  /\ OperandsComputed(q)
           /\ \A j \in DOMAIN p : HasOutput(p[j]) => HasOutput(q[j])
           /\ \A v : TotalUses(q, v) = TotalUses(p, v) + UsesBy(o, v) - UsesBy(p[i], v)
<1>1. PICK len \in Nat : len = Len(p)
  BY OpsFacts
<1>2. /\ DOMAIN p = 1..len
      /\ \A j \in 1..len : \A k \in DOMAIN p[j].in : p[j].in[k] \in 1..(j - 1)
  BY <1>1, OpsFacts
<1>5. \A j \in DOMAIN p : HasOutput(p[j]) => HasOutput(q[j])
  OBVIOUS
<1>6. Len(q) = Len(p)
  <2>1. Len(q) \in Nat /\ DOMAIN q = 1..Len(q)
    BY OpsFacts
  <2> QED
    BY <1>1, <1>2, <2>1
<1>7. OperandsComputed(q)
  <2> SUFFICES ASSUME NEW j \in DOMAIN p, NEW k \in DOMAIN q[j].in
               PROVE  HasOutput(q[q[j].in[k]])
    BY DEF OperandsComputed
  <2>1. PICK y : y = q[j].in[k]
    OBVIOUS
  <2>2. y \in DOMAIN p /\ HasOutput(p[y])
    <3>1. CASE j = i
      <4>1. k \in DOMAIN o.in /\ y = o.in[k]
        BY <2>1, <3>1
      <4> QED
        BY <1>2, <4>1
    <3>2. CASE j # i
      <4>1. k \in DOMAIN p[j].in /\ y = p[j].in[k]
        BY <2>1, <3>2
      <4>2. HasOutput(p[y])
        BY <4>1 DEF OperandsComputed
      <4>3. y \in 1..(j - 1)
        BY <1>2, <4>1
      <4> QED
        BY <1>2, <4>2, <4>3
    <3> QED
      BY <3>1, <3>2
  <2> QED
    BY <1>5, <2>1, <2>2
<1>8. ASSUME NEW v
      PROVE  TotalUses(q, v) = TotalUses(p, v) + UsesBy(o, v) - UsesBy(p[i], v)
  <2>1. \A j \in 1..Len(p) : j # i => UsesBy(q[j], v) = UsesBy(p[j], v)
    BY <1>1, <1>2
  <2>2. i \in 1..Len(p)
    BY <1>1, <1>2
  <2>3. TotalUses(q, v) = TotalUses(p, v) + UsesBy(q[i], v) - UsesBy(p[i], v)
    BY <1>6, <2>1, <2>2, TotalChanges
  <2> QED
    BY <2>3
<1> QED
  BY <1>5, <1>7, <1>8

(* Other operations, and the counts they have.                             *)
LEMMA Becomes ==
    ASSUME NEW t, Sound(t), NEW q, DOMAIN q = DOMAIN t, q.progress \in BOOLEAN, q.at = t.at,
           IsProcedure(q.ops), OperandsComputed(q.ops), DOMAIN q.ops = DOMAIN t.ops,
           q.nUse \in [DOMAIN t.ops -> Int],
           \A v \in DOMAIN t.ops : q.nUse[v] = TotalUses(q.ops, v)
    PROVE  Keeps(t, q)
BY DEF Keeps, Sound, IsState, Exact

LEMMA RewriteKeeps ==
    ASSUME NEW t, Sound(t), NEW k \in DOMAIN Cur(t).in, NEW x, x = Cur(t).in[k],
           NEW inner, IsOperation(inner), HasOutput(inner),
           \A j \in DOMAIN inner.in : ReadyAt(t, x, inner.in[j]),
           NEW outer, IsOperation(outer), HasOutput(outer),
           \A j \in DOMAIN outer.in : ReadyAt(t, t.at, outer.in[j]),
           \A v : UsesBy(inner, v) + UsesBy(outer, v) = UsesBy(t.ops[x], v) + UsesBy(Cur(t), v),
           NEW q, q = Rewrite(t, k, inner, outer)
    PROVE  Keeps(t, q) /\ Cur(q) = outer
<1>1. PICK ops : ops = t.ops
  OBVIOUS
<1>2. PICK i : i = t.at
  OBVIOUS
<1>3. PICK len \in Nat : len = Len(ops)
  BY <1>1, SoundFacts
<1>4. /\ DOMAIN ops = 1..len /\ i \in 1..len /\ Cur(t) = ops[i]
      /\ IsProcedure(ops) /\ OperandsComputed(ops)
      /\ t.nUse \in [1..len -> Int] /\ \A v \in 1..len : t.nUse[v] = TotalUses(ops, v)
  BY <1>1, <1>2, <1>3, SoundFacts DEF Sound
<1>5. x \in 1..(i - 1) /\ x \in 1..len /\ x # i /\ IsOperation(ops[x]) /\ IsOperation(ops[i])
  BY <1>1, <1>3, <1>4, SoundFacts, OperandOf DEF ReadyAt
<1>6. PICK p : p = [ops EXCEPT ![x] = inner]
  OBVIOUS
<1>7. /\ IsProcedure(p) /\ OperandsComputed(p) /\ DOMAIN p = 1..len
      /\ p[i] = ops[i]
      /\ \A j \in 1..len : HasOutput(ops[j]) => HasOutput(p[j])
      /\ \A v : TotalUses(p, v) = TotalUses(ops, v) + UsesBy(inner, v) - UsesBy(ops[x], v)
  <2>1. x \in DOMAIN ops
    BY <1>4, <1>5
  <2>2. \A j \in DOMAIN inner.in : inner.in[j] \in 1..(x - 1) /\ HasOutput(ops[inner.in[j]])
    BY <1>1 DEF ReadyAt
  <2>4. /\ IsProcedure(p) /\ DOMAIN p = DOMAIN ops
        /\ p[x] = inner /\ \A j \in DOMAIN ops : j # x => p[j] = ops[j]
    BY <1>4, <1>6, <2>1, <2>2, ProcedureChanges
  <2>3. /\ OperandsComputed(p)
        /\ \A j \in DOMAIN ops : HasOutput(ops[j]) => HasOutput(p[j])
        /\ \A v : TotalUses(p, v) = TotalUses(ops, v) + UsesBy(inner, v) - UsesBy(ops[x], v)
    <3>1. IsProcedure(ops) /\ OperandsComputed(ops)
      BY <1>4
    <3> QED
      BY <2>1, <2>2, <2>4, <3>1, Overwrite
  <2> QED
    BY <1>4, <1>5, <2>3, <2>4
<1>8. PICK r : r = [p EXCEPT ![i] = outer]
  OBVIOUS
<1>9. /\ IsProcedure(r) /\ OperandsComputed(r) /\ DOMAIN r = 1..len /\ r[i] = outer
      /\ \A v : TotalUses(r, v) = TotalUses(p, v) + UsesBy(outer, v) - UsesBy(p[i], v)
  <2>1. i \in DOMAIN p
    BY <1>4, <1>7
  <2>2. \A j \in DOMAIN outer.in : outer.in[j] \in 1..(i - 1) /\ outer.in[j] \in 1..len
                                      /\ HasOutput(ops[outer.in[j]])
    BY <1>1, <1>2, <1>4 DEF ReadyAt
  <2>3. \A j \in DOMAIN outer.in : outer.in[j] \in 1..(i - 1) /\ HasOutput(p[outer.in[j]])
    BY <1>7, <2>2
  <2>5. /\ IsProcedure(r) /\ DOMAIN r = DOMAIN p
        /\ r[i] = outer /\ \A j \in DOMAIN p : j # i => r[j] = p[j]
    BY <1>7, <1>8, <2>1, <2>3, ProcedureChanges
  <2>4. /\ OperandsComputed(r)
        /\ \A v : TotalUses(r, v) = TotalUses(p, v) + UsesBy(outer, v) - UsesBy(p[i], v)
    BY <1>7, <2>1, <2>3, <2>5, Overwrite
  <2> QED
    BY <1>7, <2>4, <2>5
<1>10. r = [ops EXCEPT ![x] = inner, ![i] = outer]
  BY <1>6, <1>8
<1>11. ASSUME NEW v \in 1..len
       PROVE  t.nUse[v] = TotalUses(r, v)
  <2>1. /\ UsesBy(inner, v) \in Nat /\ UsesBy(outer, v) \in Nat
        /\ UsesBy(ops[x], v) \in Nat /\ UsesBy(ops[i], v) \in Nat
        /\ TotalUses(ops, v) \in Nat
    BY <1>4, <1>5, UsesByNat, TotalUsesNat
  <2>2. UsesBy(inner, v) + UsesBy(outer, v) = UsesBy(ops[x], v) + UsesBy(ops[i], v)
    BY <1>1, <1>4
  <2>3. TotalUses(r, v) = TotalUses(ops, v) + UsesBy(inner, v) - UsesBy(ops[x], v)
                                + UsesBy(outer, v) - UsesBy(ops[i], v)
    BY <1>7, <1>9
  <2>4. TotalUses(r, v) = TotalUses(ops, v)
    BY <2>1, <2>2, <2>3
  <2> QED
    BY <1>4, <2>4
<1>12. /\ DOMAIN q = DOMAIN t /\ q.progress = TRUE /\ q.at = i /\ q.nUse = t.nUse
       /\ q.ops = [ops EXCEPT ![x] = inner, ![i] = outer]
  <2>1. q = [t EXCEPT !.ops = [t.ops EXCEPT ![x] = inner, ![i] = outer], !.progress = TRUE]
    BY <1>2 DEF Rewrite
  <2> QED
    BY <1>1, <1>2, <2>1, SoundFacts
<1>13. q.ops = r
  BY <1>10, <1>12
<1>14. Keeps(t, q)
  <2>1. DOMAIN q = DOMAIN t /\ q.progress \in BOOLEAN /\ q.at = t.at
    BY <1>2, <1>12
  <2>2. IsProcedure(q.ops) /\ OperandsComputed(q.ops) /\ DOMAIN q.ops = DOMAIN t.ops
    BY <1>1, <1>4, <1>9, <1>13
  <2>3. q.nUse \in [DOMAIN t.ops -> Int]
    BY <1>1, <1>4, <1>12
  <2>4. \A v \in DOMAIN t.ops : q.nUse[v] = TotalUses(q.ops, v)
    BY <1>1, <1>4, <1>11, <1>12, <1>13
  <2> QED
    BY <2>1, <2>2, <2>3, <2>4, Becomes
<1>15. Cur(q) = outer
  BY <1>9, <1>12, <1>13 DEF Cur
<1> QED
  BY <1>14, <1>15

(* A rule that writes two binary operations.                               *)
LEMMA NestKeeps ==
    ASSUME NEW t, Sound(t), NEW k \in DOMAIN Cur(t).in, NEW x, x = Cur(t).in[k],
           NEW c \in Binaries, NEW d \in Binaries,
           NEW a, ReadyAt(t, x, a), NEW b, ReadyAt(t, x, b),
           NEW e, ReadyAt(t, t.at, e), NEW f, ReadyAt(t, t.at, f),
           \A v : OneIf(a, v) + OneIf(b, v) + OneIf(e, v) + OneIf(f, v)
                    = UsesBy(t.ops[x], v) + UsesBy(Cur(t), v)
    PROVE  LET q == Rewrite(t, k, Binary(c, a, b), Binary(d, e, f))
           IN  Keeps(t, q) /\ Cur(q) = Binary(d, e, f)
<1>1. a \in Nat /\ b \in Nat /\ e \in Nat /\ f \in Nat
  BY DEF ReadyAt
<1>2. PICK inner : inner = Binary(c, a, b)
  OBVIOUS
<1>3. PICK outer : outer = Binary(d, e, f)
  OBVIOUS
<1>4. /\ IsOperation(inner) /\ HasOutput(inner) /\ DOMAIN inner.in = {1, 2}
      /\ inner.in[1] = a /\ inner.in[2] = b
      /\ \A v : UsesBy(inner, v) = OneIf(a, v) + OneIf(b, v)
  <2>1. IsValue(inner, c, FALSE) /\ inner.in = <<a, b>>
    BY <1>2, BinaryFacts
  <2> QED
    BY <1>1, <2>1, ValueFacts
<1>5. /\ IsOperation(outer) /\ HasOutput(outer) /\ DOMAIN outer.in = {1, 2}
      /\ outer.in[1] = e /\ outer.in[2] = f
      /\ \A v : UsesBy(outer, v) = OneIf(e, v) + OneIf(f, v)
  <2>1. IsValue(outer, d, FALSE) /\ outer.in = <<e, f>>
    BY <1>3, BinaryFacts
  <2> QED
    BY <1>1, <2>1, ValueFacts
<1>6. \A j \in DOMAIN inner.in : ReadyAt(t, x, inner.in[j])
  BY <1>4
<1>7. \A j \in DOMAIN outer.in : ReadyAt(t, t.at, outer.in[j])
  BY <1>5
<1>8. ASSUME NEW v
      PROVE  UsesBy(inner, v) + UsesBy(outer, v) = UsesBy(t.ops[x], v) + UsesBy(Cur(t), v)
  <2>1. \A y : OneIf(y, v) \in Nat
    BY DEF OneIf
  <2>2. OneIf(a, v) + OneIf(b, v) + OneIf(e, v) + OneIf(f, v)
            = (OneIf(a, v) + OneIf(b, v)) + (OneIf(e, v) + OneIf(f, v))
    BY <2>1
  <2> QED
    BY <1>4, <1>5, <2>2
<1>9. PICK q : q = Rewrite(t, k, inner, outer)
  OBVIOUS
<1>10. Keeps(t, q) /\ Cur(q) = outer
  BY <1>4, <1>5, <1>6, <1>7, <1>8, <1>9, RewriteKeeps
<1> QED
  BY <1>2, <1>3, <1>9, <1>10

-----------------------------------------------------------------------------
(* The operation visited and its operands, when a rule asks for opcodes.   *)

LEMMA CurBinary ==
    ASSUME NEW t, Sound(t), NEW c \in Binaries
    PROVE  /\ Is(Cur(t), c) =>
                /\ IsValue(Cur(t), c, FALSE) /\ Cur(t).in = <<Cur(t).in[1], Cur(t).in[2]>>
                /\ DOMAIN Cur(t).in = {1, 2}
                /\ ReadyAt(t, t.at, Cur(t).in[1]) /\ ReadyAt(t, t.at, Cur(t).in[2])
                /\ \A v : UsesBy(Cur(t), v) = OneIf(Cur(t).in[1], v) + OneIf(Cur(t).in[2], v)
           /\ IsI(Cur(t), c) =>
                /\ IsValue(Cur(t), c, TRUE) /\ Cur(t).in = <<Cur(t).in[1]>>
                /\ DOMAIN Cur(t).in = {1} /\ ReadyAt(t, t.at, Cur(t).in[1])
                /\ \A v : UsesBy(Cur(t), v) = OneIf(Cur(t).in[1], v)
<1>0. PICK i : i = t.at
  OBVIOUS
<1>1. PICK o : o = t.ops[i]
  OBVIOUS
<1>2. Cur(t) = o /\ i \in 1..Len(t.ops)
  BY <1>0, <1>1, SoundFacts
<1>3. ASSUME Is(o, c)
      PROVE  /\ IsValue(o, c, FALSE) /\ o.in = <<o.in[1], o.in[2]>> /\ DOMAIN o.in = {1, 2}
             /\ ReadyAt(t, i, o.in[1]) /\ ReadyAt(t, i, o.in[2])
             /\ \A v : UsesBy(o, v) = OneIf(o.in[1], v) + OneIf(o.in[2], v)
  <2>1. /\ IsValue(o, c, FALSE) /\ o.in = <<o.in[1], o.in[2]>>
        /\ ReadyAt(t, i, o.in[1]) /\ ReadyAt(t, i, o.in[2])
    BY <1>1, <1>2, <1>3, ValueOperands
  <2>2. PICK x \in Nat : x = o.in[1]
    BY <2>1 DEF ReadyAt
  <2>3. PICK y \in Nat : y = o.in[2]
    BY <2>1 DEF ReadyAt
  <2>4. o.in = <<x, y>>
    BY <2>1, <2>2, <2>3
  <2>5. DOMAIN o.in = {1, 2} /\ \A v : UsesBy(o, v) = OneIf(x, v) + OneIf(y, v)
    BY <2>1, <2>4, ValueFacts
  <2> QED
    BY <2>1, <2>2, <2>3, <2>5
<1>4. ASSUME IsI(o, c)
      PROVE  /\ IsValue(o, c, TRUE) /\ o.in = <<o.in[1]>> /\ DOMAIN o.in = {1}
             /\ ReadyAt(t, i, o.in[1])
             /\ \A v : UsesBy(o, v) = OneIf(o.in[1], v)
  <2>1. IsValue(o, c, TRUE) /\ o.in = <<o.in[1]>> /\ ReadyAt(t, i, o.in[1])
    BY <1>1, <1>2, <1>4, ValueOperands
  <2>2. PICK x \in Nat : x = o.in[1]
    BY <2>1 DEF ReadyAt
  <2>3. DOMAIN o.in = {1} /\ \A v : UsesBy(o, v) = OneIf(x, v)
    BY <2>1, <2>2, ValueFacts
  <2> QED
    BY <2>1, <2>2, <2>3
<1> QED
  BY <1>0, <1>2, <1>3, <1>4

LEMMA ReadyLater ==
    ASSUME NEW t, Sound(t), NEW x, ReadyAt(t, t.at, x), NEW y, ReadyAt(t, x, y)
    PROVE  ReadyAt(t, t.at, y)
BY SoundFacts DEF ReadyAt

LEMMA InBinary ==
    ASSUME NEW t, Sound(t), NEW c \in Binaries, NEW k \in DOMAIN Cur(t).in,
           NEW x, x = Cur(t).in[k]
    PROVE  /\ InIs(t, k, c) =>
                /\ N(t, k).in = <<N(t, k).in[1], N(t, k).in[2]>> /\ IsValue(N(t, k), c, FALSE)
                /\ ReadyAt(t, x, N(t, k).in[1]) /\ ReadyAt(t, x, N(t, k).in[2])
                /\ ReadyAt(t, t.at, N(t, k).in[1]) /\ ReadyAt(t, t.at, N(t, k).in[2])
           /\ InIsI(t, k, c) =>
                /\ N(t, k).in = <<N(t, k).in[1]>> /\ IsValue(N(t, k), c, TRUE)
                /\ ReadyAt(t, x, N(t, k).in[1]) /\ ReadyAt(t, t.at, N(t, k).in[1])
<1>1. N(t, k) = t.ops[x]
  BY DEF N
<1>2. PICK o : o = t.ops[x]
  OBVIOUS
<1>3. ReadyAt(t, t.at, x) /\ x \in 1..Len(t.ops)
  BY SoundFacts, OperandOf
<1>4. (InIs(t, k, c) => Is(o, c)) /\ (InIsI(t, k, c) => IsI(o, c))
  BY <1>1, <1>2 DEF InIs, InIsI
<1>5. ASSUME Is(o, c)
      PROVE  /\ IsValue(o, c, FALSE) /\ o.in = <<o.in[1], o.in[2]>>
             /\ ReadyAt(t, x, o.in[1]) /\ ReadyAt(t, x, o.in[2])
  BY <1>2, <1>3, <1>5, ValueOperands
<1>6. ASSUME IsI(o, c)
      PROVE  /\ IsValue(o, c, TRUE) /\ o.in = <<o.in[1]>> /\ ReadyAt(t, x, o.in[1])
  BY <1>2, <1>3, <1>6, ValueOperands
<1>7. \A y : ReadyAt(t, x, y) => ReadyAt(t, t.at, y)
  BY <1>3, ReadyLater
<1>8. N(t, k) = o
  BY <1>1, <1>2
<1>9. ASSUME InIs(t, k, c)
      PROVE  /\ o.in = <<o.in[1], o.in[2]>> /\ IsValue(o, c, FALSE)
             /\ ReadyAt(t, x, o.in[1]) /\ ReadyAt(t, x, o.in[2])
             /\ ReadyAt(t, t.at, o.in[1]) /\ ReadyAt(t, t.at, o.in[2])
  BY <1>4, <1>5, <1>7, <1>9
<1>10. ASSUME InIsI(t, k, c)
       PROVE  /\ o.in = <<o.in[1]>> /\ IsValue(o, c, TRUE)
              /\ ReadyAt(t, x, o.in[1]) /\ ReadyAt(t, t.at, o.in[1])
  BY <1>4, <1>6, <1>7, <1>10
<1> QED
  BY <1>2, <1>8, <1>9, <1>10

LEMMA InUses ==
    ASSUME NEW t, Sound(t), NEW c \in Binaries, NEW k \in DOMAIN Cur(t).in
    PROVE  /\ InIs(t, k, c) =>
                \A v : UsesBy(N(t, k), v) = OneIf(N(t, k).in[1], v) + OneIf(N(t, k).in[2], v)
           /\ InIsI(t, k, c) => \A v : UsesBy(N(t, k), v) = OneIf(N(t, k).in[1], v)
<1>1. PICK o : o = N(t, k)
  OBVIOUS
<1>2. ASSUME InIs(t, k, c)
      PROVE  \A v : UsesBy(o, v) = OneIf(o.in[1], v) + OneIf(o.in[2], v)
  <2>1. /\ N(t, k).in = <<N(t, k).in[1], N(t, k).in[2]>> /\ IsValue(N(t, k), c, FALSE)
        /\ ReadyAt(t, t.at, N(t, k).in[1]) /\ ReadyAt(t, t.at, N(t, k).in[2])
    BY <1>2, InBinary
  <2>2. PICK y \in Nat : y = o.in[1]
    BY <1>1, <2>1 DEF ReadyAt
  <2>3. PICK z \in Nat : z = o.in[2]
    BY <1>1, <2>1 DEF ReadyAt
  <2>4. o.in = <<y, z>> /\ IsValue(o, c, FALSE)
    BY <1>1, <2>1, <2>2, <2>3
  <2>5. \A v : UsesBy(o, v) = OneIf(y, v) + OneIf(z, v)
    BY <2>4, ValueFacts
  <2> QED
    BY <2>2, <2>3, <2>5
<1>3. ASSUME InIsI(t, k, c)
      PROVE  \A v : UsesBy(o, v) = OneIf(o.in[1], v)
  <2>1. /\ N(t, k).in = <<N(t, k).in[1]>> /\ IsValue(N(t, k), c, TRUE)
        /\ ReadyAt(t, t.at, N(t, k).in[1])
    BY <1>3, InBinary
  <2>2. PICK y \in Nat : y = o.in[1]
    BY <1>1, <2>1 DEF ReadyAt
  <2>3. o.in = <<y>> /\ IsValue(o, c, TRUE)
    BY <1>1, <2>1, <2>2
  <2>4. \A v : UsesBy(o, v) = OneIf(y, v)
    BY <2>3, ValueFacts
  <2> QED
    BY <2>2, <2>4
<1> QED
  BY <1>1, <1>2, <1>3

-----------------------------------------------------------------------------
(* The rules that nest (a b) X in another way.                             *)

LEMMA OneIfNat ==
    \A x, v : OneIf(x, v) \in Nat
BY DEF OneIf

LEMMA OrderKept ==
    ASSUME NEW t, NEW q, Keeps(t, q), NEW e, NEW f, Cur(q).in = <<e, f>>, f <= e
    PROVE  KeepsOrder(t, q)
<1>2. Cur(q).in[1] = e /\ Cur(q).in[2] = f
  OBVIOUS
<1> QED
  BY <1>2 DEF KeepsOrder, InOrder

(* X is an operand of the first operand from now on: it is computed before.*)
LEMMA NestRules ==
    ASSUME NEW t, Sound(t), NEW outer \in Binaries, NEW inner \in Binaries,
           Is(Cur(t), outer), InIs(t, 1, inner), X(t) < Cur(t).in[1],
           NEW c \in Binaries, NEW d \in Binaries
    PROVE  /\ KeepsOrder(t, Nest(t, c, A(t), X(t), d, B(t)))
           /\ KeepsOrder(t, Nest(t, c, X(t), B(t), d, A(t)))
           /\ KeepsOrder(t, Nest(t, c, B(t), X(t), d, A(t)))
<1>1. PICK x : x = Cur(t).in[1]
  OBVIOUS
<1>2. PICK a : a = A(t)
  OBVIOUS
<1>3. PICK b : b = B(t)
  OBVIOUS
<1>4. PICK z : z = X(t)
  OBVIOUS
<1>5. /\ 1 \in DOMAIN Cur(t).in /\ ReadyAt(t, t.at, x) /\ ReadyAt(t, t.at, z)
      /\ \A v : UsesBy(Cur(t), v) = OneIf(x, v) + OneIf(z, v)
  BY <1>1, <1>4, CurBinary DEF X
<1>6. /\ ReadyAt(t, x, a) /\ ReadyAt(t, x, b) /\ ReadyAt(t, t.at, a) /\ ReadyAt(t, t.at, b)
      /\ \A v : UsesBy(t.ops[x], v) = OneIf(a, v) + OneIf(b, v)
  <2>1. /\ ReadyAt(t, x, N(t, 1).in[1]) /\ ReadyAt(t, x, N(t, 1).in[2])
        /\ ReadyAt(t, t.at, N(t, 1).in[1]) /\ ReadyAt(t, t.at, N(t, 1).in[2])
        /\ \A v : UsesBy(t.ops[x], v) = OneIf(N(t, 1).in[1], v) + OneIf(N(t, 1).in[2], v)
    <3>1. 1 \in DOMAIN Cur(t).in
      BY <1>5
    <3>2. /\ ReadyAt(t, Cur(t).in[1], N(t, 1).in[1]) /\ ReadyAt(t, Cur(t).in[1], N(t, 1).in[2])
          /\ ReadyAt(t, t.at, N(t, 1).in[1]) /\ ReadyAt(t, t.at, N(t, 1).in[2])
      BY <3>1, InBinary
    <3>3. \A v : UsesBy(N(t, 1), v) = OneIf(N(t, 1).in[1], v) + OneIf(N(t, 1).in[2], v)
      BY <3>1, InUses
    <3>4. N(t, 1) = t.ops[x]
      BY <1>1 DEF N
    <3> QED
      BY <1>1, <3>2, <3>3, <3>4
  <2> QED
    BY <1>2, <1>3, <2>1 DEF A, B
<1>7. ReadyAt(t, x, z)
  BY <1>1, <1>4, <1>5 DEF ReadyAt
<1>8. a <= x /\ b <= x
  BY <1>5, <1>6 DEF ReadyAt
<1>9. \A v : /\ OneIf(a, v) + OneIf(z, v) + OneIf(x, v) + OneIf(b, v)
                    = UsesBy(t.ops[x], v) + UsesBy(Cur(t), v)
             /\ OneIf(z, v) + OneIf(b, v) + OneIf(x, v) + OneIf(a, v)
                    = UsesBy(t.ops[x], v) + UsesBy(Cur(t), v)
             /\ OneIf(b, v) + OneIf(z, v) + OneIf(x, v) + OneIf(a, v)
                    = UsesBy(t.ops[x], v) + UsesBy(Cur(t), v)
  BY <1>5, <1>6, OneIfNat
<1>10. KeepsOrder(t, Nest(t, c, a, z, d, b))
  <2>1. PICK q : q = Rewrite(t, 1, Binary(c, a, z), Binary(d, x, b))
    OBVIOUS
  <2>2. Keeps(t, q) /\ Cur(q) = Binary(d, x, b)
    BY <1>1, <1>5, <1>6, <1>7, <1>9, <2>1, NestKeeps
  <2>3. q = Nest(t, c, a, z, d, b)
    BY <1>1, <2>1 DEF Nest
  <2>4. Cur(q).in = <<x, b>>
    BY <2>2, BinaryFacts
  <2> QED
    BY <1>8, <2>2, <2>3, <2>4, OrderKept
<1>11. KeepsOrder(t, Nest(t, c, z, b, d, a))
  <2>1. PICK q : q = Rewrite(t, 1, Binary(c, z, b), Binary(d, x, a))
    OBVIOUS
  <2>2. Keeps(t, q) /\ Cur(q) = Binary(d, x, a)
    BY <1>1, <1>5, <1>6, <1>7, <1>9, <2>1, NestKeeps
  <2>3. q = Nest(t, c, z, b, d, a)
    BY <1>1, <2>1 DEF Nest
  <2>4. Cur(q).in = <<x, a>>
    BY <2>2, BinaryFacts
  <2> QED
    BY <1>8, <2>2, <2>3, <2>4, OrderKept
<1>12. KeepsOrder(t, Nest(t, c, b, z, d, a))
  <2>1. PICK q : q = Rewrite(t, 1, Binary(c, b, z), Binary(d, x, a))
    OBVIOUS
  <2>2. Keeps(t, q) /\ Cur(q) = Binary(d, x, a)
    BY <1>1, <1>5, <1>6, <1>7, <1>9, <2>1, NestKeeps
  <2>3. q = Nest(t, c, b, z, d, a)
    BY <1>1, <2>1 DEF Nest
  <2>4. Cur(q).in = <<x, a>>
    BY <2>2, BinaryFacts
  <2> QED
    BY <1>8, <2>2, <2>3, <2>4, OrderKept
<1> QED
  BY <1>2, <1>3, <1>4, <1>10, <1>11, <1>12

LEMMA BeforeTheFirst ==
    ASSUME NEW t, Sound(t), NEW outer \in Binaries, NEW inner \in Binaries,
           Is(Cur(t), outer), InIs(t, 1, inner)
    PROVE  /\ firstOpDominates(X(t), A(t)) \/ X(t) = A(t) => X(t) < Cur(t).in[1]
           /\ firstOpDominates(X(t), B(t)) \/ X(t) = B(t) => X(t) < Cur(t).in[1]
<1>1. 1 \in DOMAIN Cur(t).in /\ ReadyAt(t, t.at, Cur(t).in[1]) /\ ReadyAt(t, t.at, X(t))
  BY CurBinary DEF X
<1>2. ReadyAt(t, Cur(t).in[1], A(t)) /\ ReadyAt(t, Cur(t).in[1], B(t))
  BY <1>1, InBinary DEF A, B
<1>3. Cur(t).in[1] \in Nat /\ X(t) \in Nat
  BY <1>1 DEF ReadyAt
<1>4. A(t) < Cur(t).in[1] /\ B(t) < Cur(t).in[1] /\ A(t) \in Nat /\ B(t) \in Nat
  BY <1>2, <1>3 DEF ReadyAt
<1> QED
  BY <1>3, <1>4 DEF firstOpDominates

LEMMA NestingKeeps ==
    ASSUME NEW t, Sound(t), NEW outer \in Binaries, NEW inner \in Binaries
    PROVE  /\ \A second : KeepsOrder(t, Rotate(t, outer, inner, second))
           /\ KeepsOrder(t, PastB(t, outer, inner)) /\ KeepsOrder(t, JoinA(t, outer, inner))
           /\ \A add \in Binaries :
                /\ KeepsOrder(t, PastA(t, add, inner)) /\ KeepsOrder(t, JoinB(t, add, inner))
                /\ KeepsOrder(t, SubPastA(t, add, outer))
<1>1. KeepsOrder(t, t)
  BY KeepsSelf
<1>2. ASSUME NEW c \in Binaries, NEW d \in Binaries, Nested(t, c, d)
      PROVE  Is(Cur(t), c) /\ InIs(t, 1, d)
  BY <1>2 DEF Nested
<1>3. \A second : KeepsOrder(t, Rotate(t, outer, inner, second))
  <2> SUFFICES ASSUME NEW second, Nested(t, outer, inner), firstOpDominates(X(t), A(t))
               PROVE  KeepsOrder(t, Nest(t, inner, X(t), B(t), outer, A(t)))
    BY <1>1 DEF Rotate
  <2> QED
    BY <1>2, BeforeTheFirst, NestRules
<1>4. KeepsOrder(t, PastB(t, outer, inner)) /\ KeepsOrder(t, JoinA(t, outer, inner))
  <2> SUFFICES ASSUME Nested(t, outer, inner),
                      firstOpDominates(X(t), B(t)) \/ X(t) = A(t)
               PROVE  KeepsOrder(t, Nest(t, outer, A(t), X(t), inner, B(t)))
    BY <1>1 DEF PastB, JoinA, InsteadOfB
  <2> QED
    BY <1>2, BeforeTheFirst, NestRules
<1>5. ASSUME NEW add \in Binaries
      PROVE  KeepsOrder(t, PastA(t, add, inner)) /\ KeepsOrder(t, JoinB(t, add, inner))
  <2> SUFFICES ASSUME Nested(t, add, inner),
                      firstOpDominates(X(t), A(t)) \/ X(t) = B(t)
               PROVE  KeepsOrder(t, Nest(t, inner, X(t), B(t), add, A(t)))
    BY <1>1 DEF PastA, JoinB, InsteadOfA
  <2> QED
    BY <1>2, BeforeTheFirst, NestRules
<1>6. ASSUME NEW add \in Binaries
      PROVE  KeepsOrder(t, SubPastA(t, add, outer))
  <2> SUFFICES ASSUME Nested(t, outer, add), firstOpDominates(X(t), A(t))
               PROVE  KeepsOrder(t, Nest(t, outer, B(t), X(t), add, A(t)))
    BY <1>1 DEF SubPastA
  <2> QED
    BY <1>2, BeforeTheFirst, NestRules
<1> QED
  BY <1>3, <1>4, <1>5, <1>6

-----------------------------------------------------------------------------
(* The rules that write the operation visited alone.                       *)

LEMMA WriteKeeps ==
    ASSUME NEW t, Sound(t), NEW o, IsOperation(o), HasOutput(o),
           \A j \in DOMAIN o.in : ReadyAt(t, t.at, o.in[j]),
           NEW q, DOMAIN q = DOMAIN t, q.progress \in BOOLEAN, q.at = t.at,
           q.ops = [t.ops EXCEPT ![t.at] = o],
           q.nUse \in [DOMAIN t.ops -> Int],
           \A v \in DOMAIN t.ops : q.nUse[v] = t.nUse[v] + UsesBy(o, v) - UsesBy(Cur(t), v)
    PROVE  Keeps(t, q) /\ Cur(q) = o
<1>1. PICK p : p = t.ops
  OBVIOUS
<1>2. PICK i : i = t.at
  OBVIOUS
<1>3. PICK len \in Nat : len = Len(p)
  BY <1>1, SoundFacts
<1>4. /\ DOMAIN p = 1..len /\ i \in 1..len /\ Cur(t) = p[i]
      /\ IsProcedure(p) /\ OperandsComputed(p) /\ i \in DOMAIN p
      /\ \A v \in 1..len : t.nUse[v] = TotalUses(p, v)
  BY <1>1, <1>2, <1>3, SoundFacts DEF Sound
<1>5. PICK r : r = [p EXCEPT ![i] = o]
  OBVIOUS
<1>6. \A k \in DOMAIN o.in : o.in[k] \in 1..(i - 1) /\ HasOutput(p[o.in[k]])
  BY <1>1, <1>2 DEF ReadyAt
<1>7. /\ IsProcedure(r) /\ DOMAIN r = DOMAIN p
      /\ r[i] = o /\ \A j \in DOMAIN p : j # i => r[j] = p[j]
  BY <1>4, <1>5, <1>6, ProcedureChanges
<1>8. /\ OperandsComputed(r)
      /\ \A v : TotalUses(r, v) = TotalUses(p, v) + UsesBy(o, v) - UsesBy(p[i], v)
  <2>1. IsProcedure(p) /\ OperandsComputed(p) /\ i \in DOMAIN p
    BY <1>4
  <2> QED
    BY <1>6, <1>7, <2>1, Overwrite
<1>9. q.ops = r
  BY <1>1, <1>2, <1>5
<1>10. ASSUME NEW v \in 1..len
       PROVE  q.nUse[v] = TotalUses(r, v)
  <2>1. q.nUse[v] = t.nUse[v] + UsesBy(o, v) - UsesBy(p[i], v)
    BY <1>1, <1>4
  <2> QED
    BY <1>4, <1>8, <2>1
<1>11. Keeps(t, q)
  <2>1. IsProcedure(q.ops) /\ OperandsComputed(q.ops) /\ DOMAIN q.ops = DOMAIN t.ops
    BY <1>1, <1>7, <1>8, <1>9
  <2>2. \A v \in DOMAIN t.ops : q.nUse[v] = TotalUses(q.ops, v)
    BY <1>1, <1>4, <1>9, <1>10
  <2> QED
    BY <2>1, <2>2, Becomes
<1>12. Cur(q) = o
  BY <1>2, <1>7, <1>9 DEF Cur
<1> QED
  BY <1>11, <1>12

(* Values whose operands are computed.                                     *)
LEMMA TwoReady ==
    ASSUME NEW t, NEW i, NEW o, NEW c \in Binaries, NEW x, ReadyAt(t, i, x),
           NEW y, ReadyAt(t, i, y), IsValue(o, c, FALSE), o.in = <<x, y>>
    PROVE  /\ IsOperation(o) /\ HasOutput(o) /\ DOMAIN o.in = {1, 2}
           /\ \A j \in DOMAIN o.in : ReadyAt(t, i, o.in[j])
<1>1. x \in Nat /\ y \in Nat
  BY DEF ReadyAt
<1>2. /\ IsOperation(o) /\ HasOutput(o)
      /\ DOMAIN o.in = {1, 2} /\ o.in[1] = x /\ o.in[2] = y
  BY <1>1, ValueFacts
<1> QED
  BY <1>2

LEMMA OneReady ==
    ASSUME NEW t, NEW i, NEW o, NEW c \in Binaries, NEW x, ReadyAt(t, i, x),
           IsValue(o, c, TRUE), o.in = <<x>>
    PROVE  /\ IsOperation(o) /\ HasOutput(o)
           /\ \A j \in DOMAIN o.in : ReadyAt(t, i, o.in[j])
<1>1. x \in Nat
  BY DEF ReadyAt
<1>2. /\ IsOperation(o) /\ HasOutput(o) /\ DOMAIN o.in = {1} /\ o.in[1] = x
  BY <1>1, ValueFacts
<1> QED
  BY <1>2

LEMMA ReorderKeeps ==
    ASSUME NEW t, Sound(t), NEW c \in Binaries
    PROVE  Keeps(t, Reorder(t, c)) /\ InOrder(Reorder(t, c), c)
<1>1. CASE ~(Is(Cur(t), c) /\ firstOpDominates(Cur(t).in[1], Cur(t).in[2]))
  <2>1. Reorder(t, c) = t
    BY <1>1 DEF Reorder
  <2>2. ASSUME Is(Cur(t), c)
        PROVE  Cur(t).in[2] <= Cur(t).in[1]
    <3>1. Cur(t).in[1] \in Nat /\ Cur(t).in[2] \in Nat
      <4>1. ReadyAt(t, t.at, Cur(t).in[1]) /\ ReadyAt(t, t.at, Cur(t).in[2])
        BY <2>2, CurBinary
      <4> QED
        BY <4>1 DEF ReadyAt
    <3> QED
      BY <1>1, <2>2, <3>1 DEF firstOpDominates
  <2> QED
    BY <2>1, <2>2, KeepsSelf DEF InOrder
<1>2. CASE Is(Cur(t), c) /\ firstOpDominates(Cur(t).in[1], Cur(t).in[2])
  <2>1. PICK x : x = Cur(t).in[1]
    OBVIOUS
  <2>2. PICK y : y = Cur(t).in[2]
    OBVIOUS
  <2>3. PICK o : o = [Cur(t) EXCEPT !.in = <<y, x>>]
    OBVIOUS
  <2>4. /\ IsValue(Cur(t), c, FALSE) /\ ReadyAt(t, t.at, x) /\ ReadyAt(t, t.at, y)
        /\ \A v : UsesBy(Cur(t), v) = OneIf(x, v) + OneIf(y, v)
    BY <1>2, <2>1, <2>2, CurBinary
  <2>5. IsValue(o, c, FALSE) /\ o.in = <<y, x>>
    BY <2>3, <2>4 DEF IsValue
  <2>6. /\ IsOperation(o) /\ HasOutput(o)
        /\ \A j \in DOMAIN o.in : ReadyAt(t, t.at, o.in[j])
        /\ \A v : UsesBy(o, v) = OneIf(y, v) + OneIf(x, v)
    <3>1. ReadyAt(t, t.at, x) /\ ReadyAt(t, t.at, y)
      BY <2>4
    <3>2. IsOperation(o) /\ HasOutput(o)
      BY <2>5, <3>1, TwoReady
    <3>3. \A j \in DOMAIN o.in : ReadyAt(t, t.at, o.in[j])
      BY <2>5, <3>1, TwoReady
    <3>4. \A v : UsesBy(o, v) = OneIf(y, v) + OneIf(x, v)
      <4>1. x \in Nat /\ y \in Nat
        BY <3>1 DEF ReadyAt
      <4> QED
        BY <2>5, <4>1, ValueFacts
    <3> QED
      BY <3>2, <3>3, <3>4
  <2>7. PICK q : q = Reorder(t, c)
    OBVIOUS
  <2>8. q = [t EXCEPT !.ops[t.at].in = <<y, x>>]
    BY <1>2, <2>1, <2>2, <2>7 DEF Reorder, Cur
  <2>9. /\ DOMAIN q = DOMAIN t /\ q.progress = t.progress /\ q.at = t.at
        /\ q.nUse = t.nUse /\ q.ops = [t.ops EXCEPT ![t.at] = o]
    BY <2>3, <2>8, SoundFacts DEF Cur
  <2>10. /\ q.nUse \in [DOMAIN t.ops -> Int] /\ q.progress \in BOOLEAN
         /\ \A v \in DOMAIN t.ops : q.nUse[v] = t.nUse[v] + UsesBy(o, v) - UsesBy(Cur(t), v)
    <3>1. /\ t.nUse \in [DOMAIN t.ops -> Int] /\ q.progress \in BOOLEAN
      BY <2>9, SoundFacts
    <3>2. \A v : UsesBy(o, v) = UsesBy(Cur(t), v) /\ UsesBy(o, v) \in Nat
      BY <2>4, <2>6, OneIfNat
    <3> QED
      BY <2>9, <3>1, <3>2
  <2>11. Keeps(t, q) /\ Cur(q) = o
    BY <2>6, <2>9, <2>10, WriteKeeps
  <2>12. Cur(q).in[2] <= Cur(q).in[1]
    <3>1. x \in Nat /\ y \in Nat /\ x <= y
      BY <1>2, <2>1, <2>2, <2>4 DEF ReadyAt, firstOpDominates
    <3> QED
      BY <2>5, <2>11, <3>1
  <2> QED
    BY <2>7, <2>11, <2>12 DEF InOrder
<1> QED
  BY <1>1, <1>2

-----------------------------------------------------------------------------
(* The rules for constants.                                                *)

(* x is the operand that is written, X the other one.                      *)
LEMMA NestConstantsKeeps ==
    ASSUME NEW t, Sound(t), NEW c \in Binaries, InOrder(t, c)
    PROVE  Keeps(t, NestConstants(t, c))
<1>1. CASE NestConstants(t, c) = t
  BY <1>1, KeepsSelf
<1>2. CASE NestConstants(t, c) # t
  <2>1. /\ Is(Cur(t), c) /\ InIsI(t, 1, c) /\ SoleUse(t, 1)
        /\ NestConstants(t, c) = Rewrite(t, 1, [N(t, 1) EXCEPT !.in = <<X(t)>>],
                                               [Cur(t) EXCEPT !.in = <<Cur(t).in[1], A(t)>>])
    BY <1>2 DEF NestConstants
  <2>2. PICK x : x = Cur(t).in[1]
    OBVIOUS
  <2>3. PICK z : z = X(t)
    OBVIOUS
  <2>4. PICK a : a = A(t)
    OBVIOUS
  <2>5. /\ 1 \in DOMAIN Cur(t).in /\ IsValue(Cur(t), c, FALSE)
        /\ ReadyAt(t, t.at, x) /\ ReadyAt(t, t.at, z)
        /\ \A v : UsesBy(Cur(t), v) = OneIf(x, v) + OneIf(z, v)
    BY <2>1, <2>2, <2>3, CurBinary DEF X
  <2>6. IsValue(N(t, 1), c, TRUE) /\ ReadyAt(t, t.at, a)
    <3>1. 1 \in DOMAIN Cur(t).in
      BY <2>5
    <3>2. IsValue(N(t, 1), c, TRUE) /\ ReadyAt(t, t.at, N(t, 1).in[1])
      BY <2>1, <3>1, InBinary
    <3> QED
      BY <2>4, <3>2 DEF A
  <2>7. \A v : UsesBy(t.ops[x], v) = OneIf(a, v)
    <3>1. \A v : UsesBy(N(t, 1), v) = OneIf(N(t, 1).in[1], v)
      BY <2>1, <2>5, InUses
    <3> QED
      BY <2>2, <2>4, <3>1 DEF N, A
  <2>8. ReadyAt(t, x, z)
    <3>1. z <= x
      BY <2>1, <2>2, <2>3 DEF InOrder, X
    <3>2. z # x
      BY <2>1, <2>2, <2>3, SoleUseOnce DEF X
    <3> QED
      BY <2>5, <3>1, <3>2 DEF ReadyAt
  <2>9. PICK inner : inner = [N(t, 1) EXCEPT !.in = <<z>>]
    OBVIOUS
  <2>10. PICK outer : outer = [Cur(t) EXCEPT !.in = <<x, a>>]
    OBVIOUS
  <2>11. /\ IsValue(inner, c, TRUE) /\ inner.in = <<z>>
         /\ IsValue(outer, c, FALSE) /\ outer.in = <<x, a>>
    BY <2>5, <2>6, <2>9, <2>10 DEF IsValue
  <2>12. a \in Nat /\ z \in Nat /\ x \in Nat
    BY <2>5, <2>6 DEF ReadyAt
  <2>13. /\ IsOperation(inner) /\ HasOutput(inner)
         /\ \A j \in DOMAIN inner.in : ReadyAt(t, x, inner.in[j])
    BY <2>8, <2>11, OneReady
  <2>14. /\ IsOperation(outer) /\ HasOutput(outer)
         /\ \A j \in DOMAIN outer.in : ReadyAt(t, t.at, outer.in[j])
    <3>1. ReadyAt(t, t.at, x) /\ ReadyAt(t, t.at, a)
      BY <2>5, <2>6
    <3> QED
      BY <2>11, <3>1, TwoReady
  <2>15. \A v : UsesBy(inner, v) = OneIf(z, v)
    BY <2>11, <2>12, ValueFacts
  <2>16. \A v : UsesBy(outer, v) = OneIf(x, v) + OneIf(a, v)
    BY <2>11, <2>12, ValueFacts
  <2>17. \A v : UsesBy(inner, v) + UsesBy(outer, v) = UsesBy(t.ops[x], v) + UsesBy(Cur(t), v)
    BY <2>5, <2>7, <2>15, <2>16, OneIfNat
  <2>18. PICK q : q = Rewrite(t, 1, inner, outer)
    OBVIOUS
  <2>19. Keeps(t, q)
    BY <2>2, <2>5, <2>13, <2>14, <2>17, <2>18, RewriteKeeps
  <2> QED
    BY <2>1, <2>2, <2>3, <2>4, <2>9, <2>10, <2>18, <2>19
<1> QED
  BY <1>1, <1>2

(* The immediate of the operation goes to its operand: either operand of   *)
(* this stays.                                                             *)
LEMMA ImmediateMoves ==
    ASSUME NEW t, Sound(t), NEW c \in Binaries, NEW d \in Binaries,
           IsI(Cur(t), c), InIs(t, 1, d), NEW imm
    PROVE  /\ Keeps(t, Rewrite(t, 1, WithImm(c, A(t), imm), Binary(d, Cur(t).in[1], B(t))))
           /\ Keeps(t, Rewrite(t, 1, WithImm(c, B(t), imm), Binary(d, Cur(t).in[1], A(t))))
<1>1. PICK x : x = Cur(t).in[1]
  OBVIOUS
<1>2. /\ 1 \in DOMAIN Cur(t).in /\ ReadyAt(t, t.at, x)
      /\ \A v : UsesBy(Cur(t), v) = OneIf(x, v)
  BY <1>1, CurBinary
<1>3. /\ ReadyAt(t, x, A(t)) /\ ReadyAt(t, x, B(t))
      /\ ReadyAt(t, t.at, A(t)) /\ ReadyAt(t, t.at, B(t))
  <2>1. 1 \in DOMAIN Cur(t).in
    BY <1>2
  <2>2. /\ ReadyAt(t, Cur(t).in[1], N(t, 1).in[1]) /\ ReadyAt(t, Cur(t).in[1], N(t, 1).in[2])
        /\ ReadyAt(t, t.at, N(t, 1).in[1]) /\ ReadyAt(t, t.at, N(t, 1).in[2])
    BY <2>1, InBinary
  <2> QED
    BY <1>1, <2>2 DEF A, B
<1>4. \A v : UsesBy(t.ops[x], v) = OneIf(A(t), v) + OneIf(B(t), v)
  <2>1. \A v : UsesBy(N(t, 1), v) = OneIf(N(t, 1).in[1], v) + OneIf(N(t, 1).in[2], v)
    BY <1>2, InUses
  <2> QED
    BY <1>1, <2>1 DEF N, A, B
<1>5. ASSUME NEW a, NEW b, ReadyAt(t, x, a), ReadyAt(t, t.at, b),
             \A v : UsesBy(t.ops[x], v) = OneIf(a, v) + OneIf(b, v)
      PROVE  Keeps(t, Rewrite(t, 1, WithImm(c, a, imm), Binary(d, x, b)))
  <2>1. PICK inner : inner = WithImm(c, a, imm)
    OBVIOUS
  <2>2. PICK outer : outer = Binary(d, x, b)
    OBVIOUS
  <2>3. /\ IsValue(inner, c, TRUE) /\ inner.in = <<a>>
        /\ IsValue(outer, d, FALSE) /\ outer.in = <<x, b>>
    BY <2>1, <2>2, BinaryFacts
  <2>4. a \in Nat /\ b \in Nat /\ x \in Nat
    BY <1>2, <1>5 DEF ReadyAt
  <2>5. /\ IsOperation(inner) /\ HasOutput(inner)
        /\ \A j \in DOMAIN inner.in : ReadyAt(t, x, inner.in[j])
    BY <1>5, <2>3, OneReady
  <2>6. /\ IsOperation(outer) /\ HasOutput(outer)
        /\ \A j \in DOMAIN outer.in : ReadyAt(t, t.at, outer.in[j])
    <3>1. ReadyAt(t, t.at, x) /\ ReadyAt(t, t.at, b)
      BY <1>2, <1>5
    <3> QED
      BY <2>3, <3>1, TwoReady
  <2>7. \A v : UsesBy(inner, v) = OneIf(a, v)
    BY <2>3, <2>4, ValueFacts
  <2>8. \A v : UsesBy(outer, v) = OneIf(x, v) + OneIf(b, v)
    <3>1. IsValue(outer, d, FALSE) /\ outer.in = <<x, b>> /\ x \in Nat /\ b \in Nat
      BY <2>3, <2>4
    <3> QED
      BY <3>1, ValueFacts
  <2>9. \A v : UsesBy(inner, v) + UsesBy(outer, v) = UsesBy(t.ops[x], v) + UsesBy(Cur(t), v)
    BY <1>2, <1>5, <2>7, <2>8, OneIfNat
  <2>10. PICK q : q = Rewrite(t, 1, inner, outer)
    OBVIOUS
  <2>11. Keeps(t, q)
    BY <1>1, <1>2, <2>5, <2>6, <2>9, <2>10, RewriteKeeps
  <2> QED
    BY <2>1, <2>2, <2>10, <2>11
<1>6. \A v : UsesBy(t.ops[x], v) = OneIf(B(t), v) + OneIf(A(t), v)
  BY <1>4, OneIfNat
<1> QED
  BY <1>1, <1>3, <1>4, <1>5, <1>6

LEMMA ConstantInsideKeeps ==
    ASSUME NEW t, Sound(t), NEW c \in Binaries
    PROVE  Keeps(t, ConstantInside(t, c))
<1>1. CASE ConstantInside(t, c) = t
  BY <1>1, KeepsSelf
<1>2. CASE ConstantInside(t, c) # t
  <2>1. /\ IsI(Cur(t), c) /\ InIs(t, 1, c)
        /\ ConstantInside(t, c) = Rewrite(t, 1, WithImm(c, B(t), Cur(t).imm),
                                                Binary(c, Cur(t).in[1], A(t)))
    BY <1>2 DEF ConstantInside
  <2> QED
    BY <2>1, ImmediateMoves
<1> QED
  BY <1>1, <1>2

LEMMA ImmediateInsideKeeps ==
    ASSUME NEW t, Sound(t), NEW c \in Binaries, NEW inner \in Binaries
    PROVE  Keeps(t, ImmediateInside(t, c, inner))
<1>1. CASE ImmediateInside(t, c, inner) = t
  BY <1>1, KeepsSelf
<1>2. CASE ImmediateInside(t, c, inner) # t
  <2>1. /\ IsI(Cur(t), c) /\ InIs(t, 1, inner)
        /\ ImmediateInside(t, c, inner) = Rewrite(t, 1, WithImm(c, A(t), Cur(t).imm),
                                                        Binary(inner, Cur(t).in[1], B(t)))
    BY <1>2 DEF ImmediateInside
  <2> QED
    BY <2>1, ImmediateMoves
<1> QED
  BY <1>1, <1>2

LEMMA ConstantOutsideKeeps ==
    ASSUME NEW t, Sound(t), NEW c \in Binaries
    PROVE  Keeps(t, ConstantOutside(t, c))
<1>1. CASE ConstantOutside(t, c) = t
  BY <1>1, KeepsSelf
<1>2. CASE ConstantOutside(t, c) # t
  <2>1. /\ Is(Cur(t), c) /\ InIsI(t, 1, c) /\ X(t) = A(t)
        /\ ConstantOutside(t, c) = Rewrite(t, 1, Binary(c, A(t), X(t)),
                                                 WithImm(c, Cur(t).in[1], N(t, 1).imm))
    BY <1>2 DEF ConstantOutside
  <2>2. PICK x : x = Cur(t).in[1]
    OBVIOUS
  <2>3. PICK a : a = A(t)
    OBVIOUS
  <2>4. /\ 1 \in DOMAIN Cur(t).in /\ ReadyAt(t, t.at, x)
        /\ \A v : UsesBy(Cur(t), v) = OneIf(x, v) + OneIf(a, v)
    BY <2>1, <2>2, <2>3, CurBinary DEF X
  <2>5. ReadyAt(t, x, a)
    <3>1. 1 \in DOMAIN Cur(t).in
      BY <2>4
    <3>2. ReadyAt(t, Cur(t).in[1], N(t, 1).in[1])
      BY <2>1, <3>1, InBinary
    <3> QED
      BY <2>2, <2>3, <3>2 DEF A
  <2>6. \A v : UsesBy(t.ops[x], v) = OneIf(a, v)
    <3>1. \A v : UsesBy(N(t, 1), v) = OneIf(N(t, 1).in[1], v)
      BY <2>1, <2>4, InUses
    <3> QED
      BY <2>2, <2>3, <3>1 DEF N, A
  <2>7. PICK inner : inner = Binary(c, a, a)
    OBVIOUS
  <2>8. PICK outer : outer = WithImm(c, x, N(t, 1).imm)
    OBVIOUS
  <2>9. /\ IsValue(inner, c, FALSE) /\ inner.in = <<a, a>>
        /\ IsValue(outer, c, TRUE) /\ outer.in = <<x>>
    BY <2>7, <2>8, BinaryFacts
  <2>10. a \in Nat /\ x \in Nat
    BY <2>4, <2>5 DEF ReadyAt
  <2>11. /\ IsOperation(inner) /\ HasOutput(inner)
         /\ \A j \in DOMAIN inner.in : ReadyAt(t, x, inner.in[j])
    BY <2>5, <2>9, TwoReady
  <2>12. /\ IsOperation(outer) /\ HasOutput(outer)
         /\ \A j \in DOMAIN outer.in : ReadyAt(t, t.at, outer.in[j])
    <3>1. ReadyAt(t, t.at, x)
      BY <2>4
    <3> QED
      BY <2>9, <3>1, OneReady
  <2>13. \A v : UsesBy(inner, v) = OneIf(a, v) + OneIf(a, v)
    BY <2>9, <2>10, ValueFacts
  <2>14. \A v : UsesBy(outer, v) = OneIf(x, v)
    BY <2>9, <2>10, ValueFacts
  <2>15. \A v : UsesBy(inner, v) + UsesBy(outer, v) = UsesBy(t.ops[x], v) + UsesBy(Cur(t), v)
    BY <2>4, <2>6, <2>13, <2>14, OneIfNat
  <2>16. PICK q : q = Rewrite(t, 1, inner, outer)
    OBVIOUS
  <2>17. Keeps(t, q)
    BY <2>2, <2>4, <2>11, <2>12, <2>15, <2>16, RewriteKeeps
  <2> QED
    BY <2>1, <2>2, <2>3, <2>7, <2>8, <2>16, <2>17
<1> QED
  BY <1>1, <1>2

-----------------------------------------------------------------------------
(* Differences.                                                            *)

(* a-(X+b) for (a-b)-X.                                                    *)
LEMMA SubtractSumKeeps ==
    ASSUME NEW t, Sound(t), NEW add \in Binaries, NEW sub \in Binaries
    PROVE  Keeps(t, SubSubPastA(t, add, sub)) /\ Keeps(t, SubSubJoinB(t, add, sub))
<1>1. ASSUME Is(Cur(t), sub), InIs(t, 1, sub), X(t) < Cur(t).in[1]
      PROVE  Keeps(t, Rewrite(t, 1, Binary(add, X(t), B(t)), Binary(sub, A(t), Cur(t).in[1])))
  <2>1. PICK x : x = Cur(t).in[1]
    OBVIOUS
  <2>2. PICK a : a = A(t)
    OBVIOUS
  <2>3. PICK b : b = B(t)
    OBVIOUS
  <2>4. PICK z : z = X(t)
    OBVIOUS
  <2>5. /\ 1 \in DOMAIN Cur(t).in /\ ReadyAt(t, t.at, x) /\ ReadyAt(t, t.at, z)
        /\ \A v : UsesBy(Cur(t), v) = OneIf(x, v) + OneIf(z, v)
    BY <1>1, <2>1, <2>4, CurBinary DEF X
  <2>6. ReadyAt(t, x, b) /\ ReadyAt(t, t.at, a)
    <3>1. 1 \in DOMAIN Cur(t).in
      BY <2>5
    <3>2. ReadyAt(t, Cur(t).in[1], N(t, 1).in[2]) /\ ReadyAt(t, t.at, N(t, 1).in[1])
      BY <1>1, <3>1, InBinary
    <3> QED
      BY <2>1, <2>2, <2>3, <3>2 DEF A, B
  <2>7. \A v : UsesBy(t.ops[x], v) = OneIf(a, v) + OneIf(b, v)
    <3>1. \A v : UsesBy(N(t, 1), v) = OneIf(N(t, 1).in[1], v) + OneIf(N(t, 1).in[2], v)
      BY <1>1, <2>5, InUses
    <3> QED
      BY <2>1, <2>2, <2>3, <3>1 DEF N, A, B
  <2>8. ReadyAt(t, x, z)
    BY <1>1, <2>1, <2>4, <2>5 DEF ReadyAt
  <2>9. \A v : OneIf(z, v) + OneIf(b, v) + OneIf(a, v) + OneIf(x, v)
                    = UsesBy(t.ops[x], v) + UsesBy(Cur(t), v)
    BY <2>5, <2>7, OneIfNat
  <2>10. Keeps(t, Rewrite(t, 1, Binary(add, z, b), Binary(sub, a, x)))
    BY <2>1, <2>5, <2>6, <2>8, <2>9, NestKeeps
  <2> QED
    BY <2>1, <2>2, <2>3, <2>4, <2>10
<1>2. ASSUME NEW when, when => (firstOpDominates(X(t), A(t)) \/ X(t) = B(t))
      PROVE  Keeps(t, SubtractSum(t, add, sub, when))
  <2>1. CASE ~(Nested(t, sub, sub) /\ when)
    BY <2>1, KeepsSelf DEF SubtractSum
  <2>2. CASE Nested(t, sub, sub) /\ when
    <3>1. Is(Cur(t), sub) /\ InIs(t, 1, sub)
      BY <2>2 DEF Nested
    <3>2. X(t) < Cur(t).in[1]
      BY <1>2, <2>2, <3>1, BeforeTheFirst
    <3> QED
      BY <1>1, <2>2, <3>1, <3>2 DEF SubtractSum
  <2> QED
    BY <2>1, <2>2
<1> QED
  BY <1>2 DEF SubSubPastA, SubSubJoinB

(* b-(a-a) for a-(a-b).                                                    *)
LEMMA SubJoinKeeps ==
    ASSUME NEW t, Sound(t), NEW sub \in Binaries
    PROVE  Keeps(t, SubJoin(t, sub))
<1>1. CASE SubJoin(t, sub) = t
  BY <1>1, KeepsSelf
<1>2. CASE SubJoin(t, sub) # t
  <2>1. /\ Is(Cur(t), sub) /\ InIs(t, 2, sub) /\ N(t, 2).in[1] = Cur(t).in[1]
        /\ SubJoin(t, sub) = Rewrite(t, 2, Binary(sub, Cur(t).in[1], Cur(t).in[1]),
                                           Binary(sub, N(t, 2).in[2], X(t)))
    BY <1>2 DEF SubJoin
  <2>2. PICK a : a = Cur(t).in[1]
    OBVIOUS
  <2>3. PICK x : x = Cur(t).in[2]
    OBVIOUS
  <2>4. PICK b : b = N(t, 2).in[2]
    OBVIOUS
  <2>5. /\ 2 \in DOMAIN Cur(t).in /\ ReadyAt(t, t.at, x)
        /\ \A v : UsesBy(Cur(t), v) = OneIf(a, v) + OneIf(x, v)
    BY <2>1, <2>2, <2>3, CurBinary
  <2>6. ReadyAt(t, x, a) /\ ReadyAt(t, t.at, b)
    <3>1. 2 \in DOMAIN Cur(t).in
      BY <2>5
    <3>2. ReadyAt(t, Cur(t).in[2], N(t, 2).in[1]) /\ ReadyAt(t, t.at, N(t, 2).in[2])
      BY <2>1, <3>1, InBinary
    <3> QED
      BY <2>1, <2>2, <2>3, <2>4, <3>2
  <2>7. \A v : UsesBy(t.ops[x], v) = OneIf(a, v) + OneIf(b, v)
    <3>1. \A v : UsesBy(N(t, 2), v) = OneIf(N(t, 2).in[1], v) + OneIf(N(t, 2).in[2], v)
      BY <2>1, <2>5, InUses
    <3>2. N(t, 2) = t.ops[x]
      BY <2>3 DEF N
    <3> QED
      BY <2>1, <2>2, <2>4, <3>1, <3>2
  <2>8. \A v : OneIf(a, v) + OneIf(a, v) + OneIf(b, v) + OneIf(x, v)
                    = UsesBy(t.ops[x], v) + UsesBy(Cur(t), v)
    BY <2>5, <2>7, OneIfNat
  <2>9. Keeps(t, Rewrite(t, 2, Binary(sub, a, a), Binary(sub, b, x)))
    BY <2>3, <2>5, <2>6, <2>8, NestKeeps
  <2> QED
    BY <2>1, <2>2, <2>3, <2>4, <2>9 DEF X
<1> QED
  BY <1>1, <1>2

-----------------------------------------------------------------------------
(* (a+b)+(c+d): three operations are written.                              *)

(* Operation i is replaced by o and nothing else changes.                  *)
Writes(p, i, o, r) ==
    /\ IsProcedure(r) /\ OperandsComputed(r) /\ DOMAIN r = DOMAIN p
    /\ r[i] = o /\ \A j \in DOMAIN p : j # i => r[j] = p[j]
    /\ \A j \in DOMAIN p : HasOutput(p[j]) => HasOutput(r[j])
    /\ \A v : TotalUses(r, v) = TotalUses(p, v) + UsesBy(o, v) - UsesBy(p[i], v)

LEMMA WriteBinary ==
    ASSUME NEW p, IsProcedure(p), OperandsComputed(p), NEW i \in DOMAIN p,
           NEW o, NEW c \in Binaries, IsValue(o, c, FALSE), NEW x, NEW y, o.in = <<x, y>>,
           x \in 1..(i - 1) /\ HasOutput(p[x]), y \in 1..(i - 1) /\ HasOutput(p[y])
    PROVE  Writes(p, i, o, [p EXCEPT ![i] = o])
<1>1. x \in Nat /\ y \in Nat
  OBVIOUS
<1>2. IsOperation(o) /\ HasOutput(o) /\ DOMAIN o.in = {1, 2} /\ o.in[1] = x /\ o.in[2] = y
  BY <1>1, ValueFacts
<1>3. \A k \in DOMAIN o.in : o.in[k] \in 1..(i - 1) /\ HasOutput(p[o.in[k]])
  BY <1>2
<1>4. PICK r : r = [p EXCEPT ![i] = o]
  OBVIOUS
<1>5. /\ IsProcedure(r) /\ DOMAIN r = DOMAIN p
      /\ r[i] = o /\ \A j \in DOMAIN p : j # i => r[j] = p[j]
  BY <1>2, <1>3, <1>4, ProcedureChanges
<1>6. /\ OperandsComputed(r)
      /\ \A j \in DOMAIN p : HasOutput(p[j]) => HasOutput(r[j])
      /\ \A v : TotalUses(r, v) = TotalUses(p, v) + UsesBy(o, v) - UsesBy(p[i], v)
  BY <1>2, <1>3, <1>5, Overwrite
<1>7. Writes(p, i, o, r)
  BY <1>5, <1>6 DEF Writes
<1> QED
  BY <1>4, <1>7

LEMMA ExchangeKeeps ==
    ASSUME NEW t, Sound(t), NEW op \in Binaries, NEW inner \in Binaries,
           NEW outer \in Binaries, InOrder(t, op)
    PROVE  KeepsOrder(t, Exchange(t, op, inner, outer))
<1>1. CASE Exchange(t, op, inner, outer) = t
  BY <1>1, KeepsSelf
<1>2. CASE Exchange(t, op, inner, outer) # t
  <2>1. PICK x : x = Cur(t).in[1]
    OBVIOUS
  <2>2. PICK y : y = Cur(t).in[2]
    OBVIOUS
  <2>3. PICK n : n = N(t, 1)
    OBVIOUS
  <2>4. PICK m : m = N(t, 2)
    OBVIOUS
  <2>5. PICK i : i = t.at
    OBVIOUS
  <2>6. PICK p : p = t.ops
    OBVIOUS
  <2>7. PICK i1 : i1 = Binary(op, n.in[1], m.in[1])
    OBVIOUS
  <2>8. PICK i2 : i2 = Binary(op, n.in[2], m.in[2])
    OBVIOUS
  <2>9. PICK o : o = [Cur(t) EXCEPT !.op = outer]
    OBVIOUS
  <2>10. PICK q : q = Exchange(t, op, inner, outer)
    OBVIOUS
  <2>11. /\ Is(Cur(t), op) /\ InIs(t, 1, inner) /\ InIs(t, 2, inner) /\ SoleUse(t, 1)
         /\ firstOpDominates(n.in[2], m.in[1])
         /\ q = [t EXCEPT !.progress = TRUE,
                          !.ops = [t.ops EXCEPT ![x] = i1, ![y] = i2, ![t.at].op = outer]]
    BY <1>2, <2>1, <2>2, <2>3, <2>4, <2>7, <2>8, <2>10 DEF Exchange
  <2>12. /\ IsProcedure(p) /\ OperandsComputed(p) /\ i \in DOMAIN p /\ Cur(t) = p[i]
         /\ DOMAIN p = 1..Len(p) /\ Len(p) \in Nat
         /\ \A v \in DOMAIN p : t.nUse[v] = TotalUses(p, v)
         /\ t.nUse \in [DOMAIN p -> Int]
    BY <2>5, <2>6, SoundFacts DEF Sound
  <2>13. /\ IsValue(Cur(t), op, FALSE) /\ Cur(t).in = <<x, y>> /\ DOMAIN Cur(t).in = {1, 2}
         /\ ReadyAt(t, i, x) /\ ReadyAt(t, i, y)
         /\ \A v : UsesBy(Cur(t), v) = OneIf(x, v) + OneIf(y, v)
    BY <2>1, <2>2, <2>5, <2>11, CurBinary
  <2>14. y < x
    <3>1. y <= x
      BY <2>1, <2>2, <2>11 DEF InOrder
    <3>2. y # x
      BY <2>1, <2>2, <2>11, SoleUseOnce
    <3> QED
      BY <2>13, <3>1, <3>2 DEF ReadyAt
  <2>15. ReadyAt(t, x, n.in[1]) /\ ReadyAt(t, x, n.in[2])
    <3>1. 1 \in DOMAIN Cur(t).in
      BY <2>13
    <3>2. ReadyAt(t, Cur(t).in[1], N(t, 1).in[1]) /\ ReadyAt(t, Cur(t).in[1], N(t, 1).in[2])
      BY <2>11, <3>1, InBinary
    <3> QED
      BY <2>1, <2>3, <3>2
  <2>16. ReadyAt(t, y, m.in[1]) /\ ReadyAt(t, y, m.in[2])
    <3>1. 2 \in DOMAIN Cur(t).in
      BY <2>13
    <3>2. ReadyAt(t, Cur(t).in[2], N(t, 2).in[1]) /\ ReadyAt(t, Cur(t).in[2], N(t, 2).in[2])
      BY <2>11, <3>1, InBinary
    <3> QED
      BY <2>2, <2>4, <3>2
  <2>17. /\ n.in[1] \in 1..(x - 1) /\ n.in[2] \in 1..(x - 1)
         /\ m.in[1] \in 1..(y - 1) /\ m.in[2] \in 1..(y - 1)
         /\ HasOutput(p[n.in[1]]) /\ HasOutput(p[n.in[2]])
         /\ HasOutput(p[m.in[1]]) /\ HasOutput(p[m.in[2]])
         /\ x \in 1..(i - 1) /\ y \in 1..(i - 1) /\ HasOutput(p[x]) /\ HasOutput(p[y])
    BY <2>6, <2>13, <2>15, <2>16 DEF ReadyAt
  <2>18. PICK a \in Nat : a = n.in[1]
    BY <2>17
  <2>19. PICK b \in Nat : b = n.in[2]
    BY <2>17
  <2>20. PICK c \in Nat : c = m.in[1]
    BY <2>17
  <2>21. PICK d \in Nat : d = m.in[2]
    BY <2>17
  <2>22. x \in Nat /\ y \in Nat /\ i \in Nat /\ i \in 1..Len(p)
    BY <2>12, <2>17
  <2>23. /\ a \in 1..(x - 1) /\ c \in 1..(x - 1) /\ b \in 1..(y - 1) /\ d \in 1..(y - 1)
         /\ a \in DOMAIN p /\ b \in DOMAIN p /\ c \in DOMAIN p /\ d \in DOMAIN p
         /\ x \in DOMAIN p /\ y \in DOMAIN p /\ x # i /\ y # i /\ x # y
         /\ HasOutput(p[a]) /\ HasOutput(p[b]) /\ HasOutput(p[c]) /\ HasOutput(p[d])
    <3>1. b < c
      BY <2>11, <2>19, <2>20 DEF firstOpDominates
    <3>2. a \in 1..(x - 1) /\ c \in 1..(y - 1) /\ d \in 1..(y - 1) /\ b >= 1
      BY <2>17, <2>18, <2>19, <2>20, <2>21
    <3>3. HasOutput(p[a]) /\ HasOutput(p[b]) /\ HasOutput(p[c]) /\ HasOutput(p[d])
      BY <2>17, <2>18, <2>19, <2>20, <2>21
    <3>4. x \in 1..(i - 1) /\ y \in 1..(i - 1)
      BY <2>17
    <3>5. PICK len \in Nat : len = Len(p) /\ DOMAIN p = 1..len
      BY <2>12
    <3>6. a \in 1..(x - 1) /\ c \in 1..(x - 1) /\ b \in 1..(y - 1) /\ d \in 1..(y - 1)
      BY <2>14, <2>22, <3>1, <3>2
    <3>7. i <= len /\ x <= len /\ y <= len /\ x # i /\ y # i /\ x # y
      BY <2>14, <2>22, <3>4, <3>5
    <3>8. a \in 1..len /\ b \in 1..len /\ c \in 1..len /\ d \in 1..len /\ x \in 1..len /\ y \in 1..len
      BY <2>22, <3>4, <3>6, <3>7
    <3> QED
      BY <3>3, <3>5, <3>6, <3>7, <3>8
  <2>24. /\ IsValue(i1, op, FALSE) /\ i1.in = <<a, c>>
         /\ IsValue(i2, op, FALSE) /\ i2.in = <<b, d>>
    <3>1. i1 = Binary(op, a, c)
      BY <2>7, <2>18, <2>20
    <3>2. i2 = Binary(op, b, d)
      BY <2>8, <2>19, <2>21
    <3> QED
      BY <3>1, <3>2, BinaryFacts
  <2>25. IsValue(o, outer, FALSE) /\ o.in = <<x, y>>
    BY <2>9, <2>13 DEF IsValue
  <2>26. PICK p1 : p1 = [p EXCEPT ![x] = i1]
    OBVIOUS
  <2>27. Writes(p, x, i1, p1)
    <3>1. IsProcedure(p) /\ OperandsComputed(p)
      BY <2>12
    <3> QED
      BY <2>23, <2>24, <2>26, <3>1, WriteBinary
  <2>28. PICK p2 : p2 = [p1 EXCEPT ![y] = i2]
    OBVIOUS
  <2>29. Writes(p1, y, i2, p2)
    <3>1. /\ IsProcedure(p1) /\ OperandsComputed(p1) /\ y \in DOMAIN p1
          /\ HasOutput(p1[b]) /\ HasOutput(p1[d])
      BY <2>23, <2>27 DEF Writes
    <3> QED
      BY <2>23, <2>24, <2>28, <3>1, WriteBinary
  <2>30. PICK p3 : p3 = [p2 EXCEPT ![i] = o]
    OBVIOUS
  <2>31. Writes(p2, i, o, p3)
    <3>1. /\ DOMAIN p1 = DOMAIN p /\ HasOutput(p1[x]) /\ HasOutput(p1[y])
      BY <2>17, <2>23, <2>27 DEF Writes
    <3>2. /\ IsProcedure(p2) /\ OperandsComputed(p2) /\ i \in DOMAIN p2
          /\ HasOutput(p2[x]) /\ HasOutput(p2[y])
      BY <2>12, <2>23, <2>29, <3>1 DEF Writes
    <3>3. x \in 1..(i - 1) /\ y \in 1..(i - 1)
      BY <2>17
    <3> QED
      BY <2>25, <2>30, <3>2, <3>3, WriteBinary
  <2>32. /\ p1[y] = p[y] /\ p2[i] = p[i] /\ DOMAIN p3 = DOMAIN p
         /\ IsProcedure(p3) /\ OperandsComputed(p3) /\ p3[i] = o
    <3>1. DOMAIN p1 = DOMAIN p /\ p1[y] = p[y] /\ p1[i] = p[i]
      BY <2>12, <2>23, <2>27 DEF Writes
    <3>2. DOMAIN p2 = DOMAIN p1 /\ p2[i] = p1[i]
      BY <2>12, <2>23, <2>29, <3>1 DEF Writes
    <3>3. DOMAIN p3 = DOMAIN p2 /\ IsProcedure(p3) /\ OperandsComputed(p3) /\ p3[i] = o
      BY <2>31 DEF Writes
    <3> QED
      BY <3>1, <3>2, <3>3
  <2>39. \A v : UsesBy(i1, v) = OneIf(a, v) + OneIf(c, v)
    <3>1. IsValue(i1, op, FALSE) /\ i1.in = <<a, c>>
      BY <2>24
    <3> QED
      BY <3>1, ValueFacts
  <2>40. \A v : UsesBy(i2, v) = OneIf(b, v) + OneIf(d, v)
    <3>1. IsValue(i2, op, FALSE) /\ i2.in = <<b, d>>
      BY <2>24
    <3> QED
      BY <3>1, ValueFacts
  <2>41. \A v : UsesBy(o, v) = OneIf(x, v) + OneIf(y, v)
    <3>1. x \in Nat /\ y \in Nat
      BY <2>22
    <3> QED
      BY <2>25, <3>1, ValueFacts
  <2>33. ASSUME NEW v \in DOMAIN p
         PROVE  TotalUses(p3, v) = TotalUses(p, v)
    <3>1. TotalUses(p1, v) = TotalUses(p, v) + UsesBy(i1, v) - UsesBy(p[x], v)
      BY <2>27 DEF Writes
    <3>2. TotalUses(p2, v) = TotalUses(p1, v) + UsesBy(i2, v) - UsesBy(p1[y], v)
      BY <2>29 DEF Writes
    <3>3. TotalUses(p3, v) = TotalUses(p2, v) + UsesBy(o, v) - UsesBy(p2[i], v)
      BY <2>31 DEF Writes
    <3>4. UsesBy(i1, v) = OneIf(a, v) + OneIf(c, v)
      BY <2>39
    <3>5. UsesBy(i2, v) = OneIf(b, v) + OneIf(d, v)
      BY <2>40
    <3>6. UsesBy(o, v) = OneIf(x, v) + OneIf(y, v)
      BY <2>41
    <3>7. UsesBy(p[i], v) = OneIf(x, v) + OneIf(y, v)
      BY <2>12, <2>13
    <3>8. UsesBy(p[x], v) = OneIf(a, v) + OneIf(b, v)
      <4>1. 1 \in DOMAIN Cur(t).in
        BY <2>13
      <4>2. UsesBy(N(t, 1), v) = OneIf(N(t, 1).in[1], v) + OneIf(N(t, 1).in[2], v)
        BY <2>11, <4>1, InUses
      <4>3. N(t, 1) = p[x] /\ N(t, 1) = n
        BY <2>1, <2>3, <2>6 DEF N
      <4> QED
        BY <2>18, <2>19, <4>2, <4>3
    <3>9. UsesBy(p[y], v) = OneIf(c, v) + OneIf(d, v)
      <4>1. 2 \in DOMAIN Cur(t).in
        BY <2>13
      <4>2. UsesBy(N(t, 2), v) = OneIf(N(t, 2).in[1], v) + OneIf(N(t, 2).in[2], v)
        BY <2>11, <4>1, InUses
      <4>3. N(t, 2) = p[y] /\ N(t, 2) = m
        BY <2>2, <2>4, <2>6 DEF N
      <4> QED
        BY <2>20, <2>21, <4>2, <4>3
    <3>10. /\ TotalUses(p, v) \in Nat
           /\ OneIf(a, v) \in Nat /\ OneIf(b, v) \in Nat /\ OneIf(c, v) \in Nat
           /\ OneIf(d, v) \in Nat /\ OneIf(x, v) \in Nat /\ OneIf(y, v) \in Nat
      BY <2>12, TotalUsesNat, OneIfNat
    <3>11. TotalUses(p1, v) = TotalUses(p, v) + OneIf(c, v) - OneIf(b, v)
      BY <3>1, <3>4, <3>8, <3>10
    <3>12. TotalUses(p2, v) = TotalUses(p, v)
      BY <2>32, <3>2, <3>5, <3>9, <3>10, <3>11
    <3> QED
      BY <2>32, <3>3, <3>6, <3>7, <3>10, <3>12
  <2>34. /\ DOMAIN q = DOMAIN t /\ q.progress = TRUE /\ q.at = t.at /\ q.nUse = t.nUse
         /\ q.ops = [p EXCEPT ![x] = i1, ![y] = i2, ![i].op = outer]
    BY <2>5, <2>6, <2>11, SoundFacts
  <2>35. q.ops = p3
    <3>1. p2 = [p EXCEPT ![x] = i1, ![y] = i2]
      BY <2>26, <2>28
    <3>2. q.ops = [p2 EXCEPT ![i].op = outer]
      BY <2>34, <3>1
    <3>3. q.ops = [p2 EXCEPT ![i] = [p2[i] EXCEPT !.op = outer]]
      BY <3>2
    <3>4. [p2[i] EXCEPT !.op = outer] = o
      BY <2>9, <2>12, <2>32
    <3> QED
      BY <2>30, <3>3, <3>4
  <2>36. Keeps(t, q)
    <3>1. IsProcedure(q.ops) /\ OperandsComputed(q.ops) /\ DOMAIN q.ops = DOMAIN t.ops
      BY <2>6, <2>32, <2>35
    <3>2. q.nUse \in [DOMAIN t.ops -> Int]
      BY <2>6, <2>12, <2>34
    <3>3. \A v \in DOMAIN t.ops : q.nUse[v] = TotalUses(q.ops, v)
      BY <2>6, <2>12, <2>33, <2>34, <2>35
    <3>4. DOMAIN q = DOMAIN t /\ q.progress \in BOOLEAN /\ q.at = t.at
      BY <2>34
    <3> QED
      BY <3>1, <3>2, <3>3, <3>4, Becomes
  <2>37. Cur(q).in = <<x, y>>
    BY <2>5, <2>25, <2>32, <2>34, <2>35 DEF Cur
  <2>38. y <= x
    BY <2>14, <2>22
  <2> QED
    BY <2>10, <2>36, <2>37, <2>38, OrderKept
<1> QED
  BY <1>1, <1>2

-----------------------------------------------------------------------------
(* (a-b)+(b+c): the counts change.                                         *)

LEMMA CancelKeeps ==
    ASSUME NEW t, Sound(t), NEW op \in Binaries, NEW c1 \in Binaries, NEW c2 \in Binaries,
           NEW i \in {1, 2}, NEW j \in {1, 2}
    PROVE  Keeps(t, Cancel(t, op, c1, c2, i, j))
<1>1. CASE Cancel(t, op, c1, c2, i, j) = t
  BY <1>1, KeepsSelf
<1>2. CASE Cancel(t, op, c1, c2, i, j) # t
  <2>1. PICK x : x = N(t, 1).in[3 - i]
    OBVIOUS
  <2>2. PICK y : y = N(t, 2).in[3 - j]
    OBVIOUS
  <2>3. PICK o : o = [Cur(t) EXCEPT !.in = <<x, y>>]
    OBVIOUS
  <2>4. PICK q : q = Cancel(t, op, c1, c2, i, j)
    OBVIOUS
  <2>5. /\ Is(Cur(t), op) /\ InIs(t, 1, c1) /\ InIs(t, 2, c2)
        /\ q = Put(Recounted(t, o), o)
    BY <1>2, <2>1, <2>2, <2>3, <2>4 DEF Cancel
  <2>6. /\ IsValue(Cur(t), op, FALSE) /\ DOMAIN Cur(t).in = {1, 2}
    BY <2>5, CurBinary
  <2>7. ReadyAt(t, t.at, x)
    <3>1. 1 \in DOMAIN Cur(t).in
      BY <2>6
    <3>2. ReadyAt(t, t.at, N(t, 1).in[1]) /\ ReadyAt(t, t.at, N(t, 1).in[2])
      BY <2>5, <3>1, InBinary
    <3>3. 3 - i = 1 \/ 3 - i = 2
      OBVIOUS
    <3> QED
      BY <2>1, <3>2, <3>3
  <2>8. ReadyAt(t, t.at, y)
    <3>1. 2 \in DOMAIN Cur(t).in
      BY <2>6
    <3>2. ReadyAt(t, t.at, N(t, 2).in[1]) /\ ReadyAt(t, t.at, N(t, 2).in[2])
      BY <2>5, <3>1, InBinary
    <3>3. 3 - j = 1 \/ 3 - j = 2
      OBVIOUS
    <3> QED
      BY <2>2, <3>2, <3>3
  <2>9. IsValue(o, op, FALSE) /\ o.in = <<x, y>>
    BY <2>3, <2>6 DEF IsValue
  <2>10. /\ IsOperation(o) /\ HasOutput(o) /\ DOMAIN o.in = {1, 2}
         /\ \A k \in DOMAIN o.in : ReadyAt(t, t.at, o.in[k])
    BY <2>7, <2>8, <2>9, TwoReady
  <2>11. ASSUME NEW r, IsValue(r, op, FALSE), NEW z, NEW w, r.in = <<z, w>>,
                ReadyAt(t, t.at, z), ReadyAt(t, t.at, w)
         PROVE  \A v : UsesIn(r, v) = UsesBy(r, v) /\ UsesBy(r, v) \in Nat
    <3>1. z \in Nat /\ w \in Nat /\ r.in[1] = z /\ r.in[2] = w
      BY <2>11 DEF ReadyAt
    <3>2. \A v : UsesBy(r, v) = OneIf(z, v) + OneIf(w, v)
      <4>1. IsValue(r, op, FALSE) /\ r.in = <<z, w>> /\ z \in Nat /\ w \in Nat
        BY <2>11, <3>1
      <4> QED
        BY <4>1, ValueFacts
    <3>3. \A v : UsesIn(r, v) = OneIf(z, v) + OneIf(w, v)
      BY <3>1 DEF UsesIn, OneIf
    <3> QED
      BY <3>2, <3>3, OneIfNat
  <2>12. /\ \A v : UsesIn(Cur(t), v) = UsesBy(Cur(t), v) /\ UsesBy(Cur(t), v) \in Nat
         /\ \A v : UsesIn(o, v) = UsesBy(o, v) /\ UsesBy(o, v) \in Nat
    <3>1. /\ Cur(t).in = <<Cur(t).in[1], Cur(t).in[2]>>
          /\ ReadyAt(t, t.at, Cur(t).in[1]) /\ ReadyAt(t, t.at, Cur(t).in[2])
      BY <2>5, CurBinary
    <3>2. \A v : UsesIn(Cur(t), v) = UsesBy(Cur(t), v) /\ UsesBy(Cur(t), v) \in Nat
      BY <2>6, <2>11, <3>1
    <3>3. \A v : UsesIn(o, v) = UsesBy(o, v) /\ UsesBy(o, v) \in Nat
      BY <2>7, <2>8, <2>9, <2>11
    <3> QED
      BY <3>2, <3>3
  <2>13. /\ DOMAIN q = DOMAIN t /\ q.progress = TRUE /\ q.at = t.at
         /\ q.ops = [t.ops EXCEPT ![t.at] = o]
         /\ q.nUse = [v \in DOMAIN t.nUse |-> t.nUse[v] - UsesIn(Cur(t), v) + UsesIn(o, v)]
    <3>1. PICK f : f = [v \in DOMAIN t.nUse |-> t.nUse[v] - UsesIn(Cur(t), v) + UsesIn(o, v)]
      OBVIOUS
    <3>2. PICK u : u = Recounted(t, o)
      OBVIOUS
    <3>3. u = [t EXCEPT !.nUse = f]
      BY <3>1, <3>2 DEF Recounted
    <3>4. q = [u EXCEPT !.ops[u.at] = o, !.progress = TRUE]
      BY <2>5, <3>2 DEF Put
    <3>5. /\ DOMAIN u = DOMAIN t /\ u.at = t.at /\ u.ops = t.ops /\ u.nUse = f
          /\ {"ops", "nUse", "at", "progress"} \subseteq DOMAIN t
      BY <3>3, SoundFacts
    <3>6. /\ DOMAIN q = DOMAIN t /\ q.progress = TRUE /\ q.at = t.at
          /\ q.ops = [t.ops EXCEPT ![t.at] = o] /\ q.nUse = f
      BY <3>4, <3>5
    <3> QED
      BY <3>1, <3>6
  <2>14. t.nUse \in [DOMAIN t.ops -> Int]
    BY SoundFacts
  <2>15. \A v \in DOMAIN t.ops : q.nUse[v] = t.nUse[v] - UsesBy(Cur(t), v) + UsesBy(o, v)
    BY <2>12, <2>13, <2>14
  <2>16. q.nUse \in [DOMAIN t.ops -> Int]
    BY <2>12, <2>13, <2>14
  <2>17. \A v \in DOMAIN t.ops : q.nUse[v] = t.nUse[v] + UsesBy(o, v) - UsesBy(Cur(t), v)
    BY <2>12, <2>14, <2>15
  <2> QED
    <3>1. /\ DOMAIN q = DOMAIN t /\ q.progress \in BOOLEAN /\ q.at = t.at
          /\ q.ops = [t.ops EXCEPT ![t.at] = o]
      BY <2>13
    <3> QED
      BY <2>4, <2>10, <2>16, <2>17, <3>1, WriteKeeps
<1> QED
  BY <1>1, <1>2

-----------------------------------------------------------------------------
(* The rules in their order.                                               *)

LEMMA KeptSound ==
    ASSUME NEW t, Sound(t), NEW q, Keeps(t, q), NEW r, Keeps(q, r)
    PROVE  Sound(r) /\ Keeps(t, r)
BY DEF Keeps

LEMMA KeptInOrder ==
    ASSUME NEW t, NEW q, KeepsOrder(t, q), NEW c, InOrder(t, c)
    PROVE  Keeps(t, q) /\ Sound(q) /\ InOrder(q, c)
BY DEF KeepsOrder, Keeps

LEMMA WithoutConstantsKeeps ==
    ASSUME NEW t, Sound(t), NEW op \in Binaries
    PROVE  /\ Keeps(t, WithoutConstants(t, op)) /\ Sound(WithoutConstants(t, op))
           /\ InOrder(WithoutConstants(t, op), op)
<1>1. PICK q1 : q1 = Reorder(t, op)
  OBVIOUS
<1>2. Keeps(t, q1) /\ Sound(q1) /\ InOrder(q1, op)
  BY <1>1, ReorderKeeps, KeepsChain
<1>3. PICK q2 : q2 = Exchange(q1, op, op, op)
  OBVIOUS
<1>4. Keeps(t, q2) /\ Sound(q2) /\ InOrder(q2, op)
  <2>1. KeepsOrder(q1, q2)
    BY <1>3, <1>2, ExchangeKeeps
  <2>2. Keeps(q1, q2) /\ Sound(q2) /\ InOrder(q2, op)
    BY <1>2, <2>1, KeptInOrder
  <2> QED
    BY <1>2, <2>2, KeptSound
<1>5. PICK q3 : q3 = Rotate(q2, op, op, op)
  OBVIOUS
<1>6. Keeps(t, q3) /\ Sound(q3) /\ InOrder(q3, op)
  <2>1. KeepsOrder(q2, q3)
    BY <1>5, <1>4, NestingKeeps
  <2>2. Keeps(q2, q3) /\ Sound(q3) /\ InOrder(q3, op)
    BY <1>4, <2>1, KeptInOrder
  <2> QED
    BY <1>4, <2>2, KeptSound
<1>7. PICK q4 : q4 = PastB(q3, op, op)
  OBVIOUS
<1>8. Keeps(t, q4) /\ Sound(q4) /\ InOrder(q4, op)
  <2>1. KeepsOrder(q3, q4)
    BY <1>7, <1>6, NestingKeeps
  <2>2. Keeps(q3, q4) /\ Sound(q4) /\ InOrder(q4, op)
    BY <1>6, <2>1, KeptInOrder
  <2> QED
    BY <1>6, <2>2, KeptSound
<1>9. PICK q5 : q5 = PastA(q4, op, op)
  OBVIOUS
<1>10. Keeps(t, q5) /\ Sound(q5) /\ InOrder(q5, op)
  <2>1. KeepsOrder(q4, q5)
    BY <1>9, <1>8, NestingKeeps
  <2>2. Keeps(q4, q5) /\ Sound(q5) /\ InOrder(q5, op)
    BY <1>8, <2>1, KeptInOrder
  <2> QED
    BY <1>8, <2>2, KeptSound
<1>11. PICK q6 : q6 = JoinB(q5, op, op)
  OBVIOUS
<1>12. Keeps(t, q6) /\ Sound(q6) /\ InOrder(q6, op)
  <2>1. KeepsOrder(q5, q6)
    BY <1>11, <1>10, NestingKeeps
  <2>2. Keeps(q5, q6) /\ Sound(q6) /\ InOrder(q6, op)
    BY <1>10, <2>1, KeptInOrder
  <2> QED
    BY <1>10, <2>2, KeptSound
<1>13. PICK q7 : q7 = JoinA(q6, op, op)
  OBVIOUS
<1>14. Keeps(t, q7) /\ Sound(q7) /\ InOrder(q7, op)
  <2>1. KeepsOrder(q6, q7)
    BY <1>13, <1>12, NestingKeeps
  <2>2. Keeps(q6, q7) /\ Sound(q7) /\ InOrder(q7, op)
    BY <1>12, <2>1, KeptInOrder
  <2> QED
    BY <1>12, <2>2, KeptSound
<1> QED
  BY <1>1, <1>3, <1>5, <1>7, <1>9, <1>11, <1>13, <1>14 DEF WithoutConstants

LEMMA doReassocKeeps ==
    ASSUME NEW t, Sound(t), NEW op \in Binaries
    PROVE  Keeps(t, doReassoc(t, op)) /\ Sound(doReassoc(t, op))
<1>1. CASE Cur(t).op # op
  BY <1>1, KeepsSelf DEF doReassoc
<1>2. CASE Cur(t).op = op
  <2>1. PICK q1 : q1 = WithoutConstants(t, op)
    OBVIOUS
  <2>2. Keeps(t, q1) /\ Sound(q1) /\ InOrder(q1, op)
    BY <2>1, WithoutConstantsKeeps
  <2>3. PICK q2 : q2 = NestConstants(q1, op)
    OBVIOUS
  <2>4. Keeps(q1, q2)
    BY <2>2, <2>3, NestConstantsKeeps
  <2>5. Keeps(t, q2) /\ Sound(q2)
    BY <2>2, <2>4, KeptSound
  <2>6. PICK q3 : q3 = ConstantInside(q2, op)
    OBVIOUS
  <2>7. Keeps(q2, q3)
    BY <2>5, <2>6, ConstantInsideKeeps
  <2>8. Keeps(t, q3) /\ Sound(q3)
    BY <2>5, <2>7, KeptSound
  <2>9. PICK q4 : q4 = ConstantOutside(q3, op)
    OBVIOUS
  <2>10. Keeps(q3, q4)
    BY <2>8, <2>9, ConstantOutsideKeeps
  <2>11. Keeps(t, q4) /\ Sound(q4)
    BY <2>8, <2>10, KeptSound
  <2>12. doReassoc(t, op) = q4
    BY <1>2, <2>1, <2>3, <2>6, <2>9 DEF doReassoc, WithConstants
  <2> QED
    BY <2>11, <2>12
<1> QED
  BY <1>1, <1>2

LEMMA RotatedKeeps ==
    ASSUME NEW t, Sound(t), NEW add \in Binaries, NEW sub \in Binaries
    PROVE  Keeps(t, Rotated(t, add, sub)) /\ Sound(Rotated(t, add, sub))
<1>1. PICK q1 : q1 = Reorder(t, add)
  OBVIOUS
<1>2. Keeps(t, q1) /\ Sound(q1) /\ InOrder(q1, add)
  BY <1>1, ReorderKeeps, KeepsChain
<1>3. PICK q2 : q2 = Exchange(q1, add, sub, sub)
  OBVIOUS
<1>4. Keeps(t, q2) /\ Sound(q2)
  <2>1. KeepsOrder(q1, q2)
    BY <1>2, <1>3, ExchangeKeeps
  <2> QED
    BY <1>2, <2>1, KeepsChain, KeptSound
<1>5. PICK q3 : q3 = Rotate(q2, add, add, sub)
  OBVIOUS
<1>6. Keeps(t, q3) /\ Sound(q3)
  <2>1. KeepsOrder(q2, q3)
    BY <1>4, <1>5, NestingKeeps
  <2> QED
    BY <1>4, <2>1, KeepsChain, KeptSound
<1>7. PICK q4 : q4 = Rotate(q3, add, sub, "any")
  OBVIOUS
<1>8. Keeps(t, q4) /\ Sound(q4)
  <2>1. KeepsOrder(q3, q4)
    BY <1>6, <1>7, NestingKeeps
  <2> QED
    BY <1>6, <2>1, KeepsChain, KeptSound
<1> QED
  BY <1>1, <1>3, <1>5, <1>7, <1>8 DEF Rotated

LEMMA ByDominanceKeeps ==
    ASSUME NEW t, Sound(t), NEW add \in Binaries, NEW sub \in Binaries
    PROVE  Keeps(t, ByDominance(t, add, sub)) /\ Sound(ByDominance(t, add, sub))
<1>1. PICK q1 : q1 = PastB(t, sub, add)
  OBVIOUS
<1>2. Keeps(t, q1) /\ Sound(q1)
  <2>1. Keeps(t, q1)
    <3>1. KeepsOrder(t, q1)
      BY <1>1, NestingKeeps
    <3> QED
      BY <3>1, KeepsChain
  <2> QED
    BY <2>1, KeptSound, KeepsChain
<1>3. PICK q2 : q2 = PastB(q1, add, sub)
  OBVIOUS
<1>4. Keeps(t, q2) /\ Sound(q2)
  <2>1. Keeps(q1, q2)
    <3>1. KeepsOrder(q1, q2)
      BY <1>3, <1>2, NestingKeeps
    <3> QED
      BY <3>1, KeepsChain
  <2> QED
    BY <1>2, <2>1, KeptSound, KeepsChain
<1>5. PICK q3 : q3 = PastA(q2, add, sub)
  OBVIOUS
<1>6. Keeps(t, q3) /\ Sound(q3)
  <2>1. Keeps(q2, q3)
    <3>1. KeepsOrder(q2, q3)
      BY <1>5, <1>4, NestingKeeps
    <3> QED
      BY <3>1, KeepsChain
  <2> QED
    BY <1>4, <2>1, KeptSound, KeepsChain
<1>7. PICK q4 : q4 = SubPastA(q3, add, sub)
  OBVIOUS
<1>8. Keeps(t, q4) /\ Sound(q4)
  <2>1. Keeps(q3, q4)
    <3>1. KeepsOrder(q3, q4)
      BY <1>7, <1>6, NestingKeeps
    <3> QED
      BY <3>1, KeepsChain
  <2> QED
    BY <1>6, <2>1, KeptSound, KeepsChain
<1>9. PICK q5 : q5 = PastB(q4, sub, sub)
  OBVIOUS
<1>10. Keeps(t, q5) /\ Sound(q5)
  <2>1. Keeps(q4, q5)
    <3>1. KeepsOrder(q4, q5)
      BY <1>9, <1>8, NestingKeeps
    <3> QED
      BY <3>1, KeepsChain
  <2> QED
    BY <1>8, <2>1, KeptSound, KeepsChain
<1>11. PICK q6 : q6 = SubSubPastA(q5, add, sub)
  OBVIOUS
<1>12. Keeps(t, q6) /\ Sound(q6)
  <2>1. Keeps(q5, q6)
    BY <1>11, <1>10, SubtractSumKeeps
  <2> QED
    BY <1>10, <2>1, KeptSound, KeepsChain
<1> QED
  BY <1>1, <1>3, <1>5, <1>7, <1>9, <1>11, <1>12 DEF ByDominance

LEMMA ByRepetitionKeeps ==
    ASSUME NEW t, Sound(t), NEW add \in Binaries, NEW sub \in Binaries
    PROVE  Keeps(t, ByRepetition(t, add, sub)) /\ Sound(ByRepetition(t, add, sub))
<1>1. PICK q1 : q1 = JoinB(t, add, sub)
  OBVIOUS
<1>2. Keeps(t, q1) /\ Sound(q1)
  <2>1. Keeps(t, q1)
    <3>1. KeepsOrder(t, q1)
      BY <1>1, NestingKeeps
    <3> QED
      BY <3>1, KeepsChain
  <2> QED
    BY <2>1, KeptSound, KeepsChain
<1>3. PICK q2 : q2 = SubSubJoinB(q1, add, sub)
  OBVIOUS
<1>4. Keeps(t, q2) /\ Sound(q2)
  <2>1. Keeps(q1, q2)
    BY <1>3, <1>2, SubtractSumKeeps
  <2> QED
    BY <1>2, <2>1, KeptSound, KeepsChain
<1>5. PICK q3 : q3 = JoinA(q2, add, sub)
  OBVIOUS
<1>6. Keeps(t, q3) /\ Sound(q3)
  <2>1. Keeps(q2, q3)
    <3>1. KeepsOrder(q2, q3)
      BY <1>5, <1>4, NestingKeeps
    <3> QED
      BY <3>1, KeepsChain
  <2> QED
    BY <1>4, <2>1, KeptSound, KeepsChain
<1>7. PICK q4 : q4 = JoinA(q3, sub, sub)
  OBVIOUS
<1>8. Keeps(t, q4) /\ Sound(q4)
  <2>1. Keeps(q3, q4)
    <3>1. KeepsOrder(q3, q4)
      BY <1>7, <1>6, NestingKeeps
    <3> QED
      BY <3>1, KeepsChain
  <2> QED
    BY <1>6, <2>1, KeptSound, KeepsChain
<1>9. PICK q5 : q5 = SubJoin(q4, sub)
  OBVIOUS
<1>10. Keeps(t, q5) /\ Sound(q5)
  <2>1. Keeps(q4, q5)
    BY <1>9, <1>8, SubJoinKeeps
  <2> QED
    BY <1>8, <2>1, KeptSound, KeepsChain
<1> QED
  BY <1>1, <1>3, <1>5, <1>7, <1>9, <1>10 DEF ByRepetition

LEMMA CancelInAddKeeps ==
    ASSUME NEW t, Sound(t), NEW add \in Binaries, NEW sub \in Binaries
    PROVE  Keeps(t, CancelInAdd(t, add, sub)) /\ Sound(CancelInAdd(t, add, sub))
<1>1. PICK q1 : q1 = Cancel(t, add, sub, add, 2, 1)
  OBVIOUS
<1>2. Keeps(t, q1) /\ Sound(q1)
  <2>1. Keeps(t, q1)
    BY <1>1, CancelKeeps
  <2> QED
    BY <2>1, KeptSound, KeepsChain
<1>3. PICK q2 : q2 = Cancel(q1, add, sub, add, 2, 2)
  OBVIOUS
<1>4. Keeps(t, q2) /\ Sound(q2)
  <2>1. Keeps(q1, q2)
    BY <1>3, <1>2, CancelKeeps
  <2> QED
    BY <1>2, <2>1, KeptSound, KeepsChain
<1>5. PICK q3 : q3 = Cancel(q2, add, add, sub, 2, 2)
  OBVIOUS
<1>6. Keeps(t, q3) /\ Sound(q3)
  <2>1. Keeps(q2, q3)
    BY <1>5, <1>4, CancelKeeps
  <2> QED
    BY <1>4, <2>1, KeptSound, KeepsChain
<1>7. PICK q4 : q4 = Cancel(q3, add, add, sub, 1, 2)
  OBVIOUS
<1>8. Keeps(t, q4) /\ Sound(q4)
  <2>1. Keeps(q3, q4)
    BY <1>7, <1>6, CancelKeeps
  <2> QED
    BY <1>6, <2>1, KeptSound, KeepsChain
<1> QED
  BY <1>1, <1>3, <1>5, <1>7, <1>8 DEF CancelInAdd

LEMMA CancelInSubKeeps ==
    ASSUME NEW t, Sound(t), NEW add \in Binaries, NEW sub \in Binaries
    PROVE  Keeps(t, CancelInSub(t, add, sub)) /\ Sound(CancelInSub(t, add, sub))
<1>1. PICK q1 : q1 = Cancel(t, sub, add, add, 1, 1)
  OBVIOUS
<1>2. Keeps(t, q1) /\ Sound(q1)
  <2>1. Keeps(t, q1)
    BY <1>1, CancelKeeps
  <2> QED
    BY <2>1, KeptSound, KeepsChain
<1>3. PICK q2 : q2 = Cancel(q1, sub, add, add, 2, 1)
  OBVIOUS
<1>4. Keeps(t, q2) /\ Sound(q2)
  <2>1. Keeps(q1, q2)
    BY <1>3, <1>2, CancelKeeps
  <2> QED
    BY <1>2, <2>1, KeptSound, KeepsChain
<1>5. PICK q3 : q3 = Cancel(q2, sub, add, add, 2, 1)
  OBVIOUS
<1>6. Keeps(t, q3) /\ Sound(q3)
  <2>1. Keeps(q2, q3)
    BY <1>5, <1>4, CancelKeeps
  <2> QED
    BY <1>4, <2>1, KeptSound, KeepsChain
<1>7. PICK q4 : q4 = Cancel(q3, sub, add, add, 2, 2)
  OBVIOUS
<1>8. Keeps(t, q4) /\ Sound(q4)
  <2>1. Keeps(q3, q4)
    BY <1>7, <1>6, CancelKeeps
  <2> QED
    BY <1>6, <2>1, KeptSound, KeepsChain
<1> QED
  BY <1>1, <1>3, <1>5, <1>7, <1>8 DEF CancelInSub

LEMMA SubRulesKeep ==
    ASSUME NEW t, Sound(t), NEW add \in Binaries, NEW sub \in Binaries
    PROVE  Keeps(t, CancelInSub(CancelInAdd(ByRepetition(ByDominance(Rotated(t, add, sub),
                        add, sub), add, sub), add, sub), add, sub)) /\ Sound(CancelInSub(CancelInAdd(ByRepetition(ByDominance(Rotated(t, add, sub),
                        add, sub), add, sub), add, sub), add, sub))
<1>1. PICK q1 : q1 = Rotated(t, add, sub)
  OBVIOUS
<1>2. Keeps(t, q1) /\ Sound(q1)
  <2>1. Keeps(t, q1)
    BY <1>1, RotatedKeeps
  <2> QED
    BY <2>1, KeptSound, KeepsChain
<1>3. PICK q2 : q2 = ByDominance(q1, add, sub)
  OBVIOUS
<1>4. Keeps(t, q2) /\ Sound(q2)
  <2>1. Keeps(q1, q2)
    BY <1>3, <1>2, ByDominanceKeeps
  <2> QED
    BY <1>2, <2>1, KeptSound, KeepsChain
<1>5. PICK q3 : q3 = ByRepetition(q2, add, sub)
  OBVIOUS
<1>6. Keeps(t, q3) /\ Sound(q3)
  <2>1. Keeps(q2, q3)
    BY <1>5, <1>4, ByRepetitionKeeps
  <2> QED
    BY <1>4, <2>1, KeptSound, KeepsChain
<1>7. PICK q4 : q4 = CancelInAdd(q3, add, sub)
  OBVIOUS
<1>8. Keeps(t, q4) /\ Sound(q4)
  <2>1. Keeps(q3, q4)
    BY <1>7, <1>6, CancelInAddKeeps
  <2> QED
    BY <1>6, <2>1, KeptSound, KeepsChain
<1>9. PICK q5 : q5 = CancelInSub(q4, add, sub)
  OBVIOUS
<1>10. Keeps(t, q5) /\ Sound(q5)
  <2>1. Keeps(q4, q5)
    BY <1>9, <1>8, CancelInSubKeeps
  <2> QED
    BY <1>8, <2>1, KeptSound, KeepsChain
<1> QED
  BY <1>1, <1>3, <1>5, <1>7, <1>9, <1>10

LEMMA reassocSubKeeps ==
    ASSUME NEW t, Sound(t), NEW add \in Binaries, NEW sub \in Binaries
    PROVE  Keeps(t, reassocSub(t, add, sub)) /\ Sound(reassocSub(t, add, sub))
BY SubRulesKeep, KeepsSelf DEF reassocSub

LEMMA OpcodesReassociated ==
    /\ {"iadd", "isub", "imul", "iand", "ixor", "ior"} \subseteq Binaries
    /\ {"dadd", "dsub", "dmul", "ddiv"} \subseteq Binaries
BY DEF Binaries

LEMMA ReassocIntKeeps ==
    ASSUME NEW t, Sound(t)
    PROVE  Keeps(t, ReassocInt(t)) /\ Sound(ReassocInt(t))
<1>1. PICK q1 : q1 = ImmediateInside(t, "isub", "iadd")
  OBVIOUS
<1>2. Keeps(t, q1) /\ Sound(q1)
  <2>1. Keeps(t, q1)
    BY <1>1, OpcodesReassociated, ImmediateInsideKeeps
  <2> QED
    BY <2>1, KeptSound, KeepsChain
<1>3. PICK q2 : q2 = ImmediateInside(q1, "iadd", "isub")
  OBVIOUS
<1>4. Keeps(t, q2) /\ Sound(q2)
  <2>1. Keeps(q1, q2)
    BY <1>3, <1>2, OpcodesReassociated, ImmediateInsideKeeps
  <2> QED
    BY <1>2, <2>1, KeptSound, KeepsChain
<1>5. PICK q3 : q3 = ImmediateInside(q2, "isub", "isub")
  OBVIOUS
<1>6. Keeps(t, q3) /\ Sound(q3)
  <2>1. Keeps(q2, q3)
    BY <1>5, <1>4, OpcodesReassociated, ImmediateInsideKeeps
  <2> QED
    BY <1>4, <2>1, KeptSound, KeepsChain
<1>7. PICK q4 : q4 = Rotate(q3, "imul", "imul", "idiv")
  OBVIOUS
<1>8. Keeps(t, q4) /\ Sound(q4)
  <2>1. Keeps(q3, q4)
    <3>1. KeepsOrder(q3, q4)
      BY <1>7, <1>6, OpcodesReassociated, NestingKeeps
    <3> QED
      BY <3>1, KeepsChain
  <2> QED
    BY <1>6, <2>1, KeptSound, KeepsChain
<1>9. PICK q5 : q5 = reassocSub(q4, "iadd", "isub")
  OBVIOUS
<1>10. Keeps(t, q5) /\ Sound(q5)
  <2>1. Keeps(q4, q5)
    BY <1>9, <1>8, OpcodesReassociated, reassocSubKeeps
  <2> QED
    BY <1>8, <2>1, KeptSound, KeepsChain
<1>11. PICK q6 : q6 = doReassoc(q5, "iadd")
  OBVIOUS
<1>12. Keeps(t, q6) /\ Sound(q6)
  <2>1. Keeps(q5, q6)
    BY <1>11, <1>10, OpcodesReassociated, doReassocKeeps
  <2> QED
    BY <1>10, <2>1, KeptSound, KeepsChain
<1>13. PICK q7 : q7 = doReassoc(q6, "imul")
  OBVIOUS
<1>14. Keeps(t, q7) /\ Sound(q7)
  <2>1. Keeps(q6, q7)
    BY <1>13, <1>12, OpcodesReassociated, doReassocKeeps
  <2> QED
    BY <1>12, <2>1, KeptSound, KeepsChain
<1>15. PICK q8 : q8 = doReassoc(q7, "iand")
  OBVIOUS
<1>16. Keeps(t, q8) /\ Sound(q8)
  <2>1. Keeps(q7, q8)
    BY <1>15, <1>14, OpcodesReassociated, doReassocKeeps
  <2> QED
    BY <1>14, <2>1, KeptSound, KeepsChain
<1>17. PICK q9 : q9 = doReassoc(q8, "ixor")
  OBVIOUS
<1>18. Keeps(t, q9) /\ Sound(q9)
  <2>1. Keeps(q8, q9)
    BY <1>17, <1>16, OpcodesReassociated, doReassocKeeps
  <2> QED
    BY <1>16, <2>1, KeptSound, KeepsChain
<1>19. PICK q10 : q10 = doReassoc(q9, "ior")
  OBVIOUS
<1>20. Keeps(t, q10) /\ Sound(q10)
  <2>1. Keeps(q9, q10)
    BY <1>19, <1>18, OpcodesReassociated, doReassocKeeps
  <2> QED
    BY <1>18, <2>1, KeptSound, KeepsChain
<1> QED
  BY <1>1, <1>3, <1>5, <1>7, <1>9, <1>11, <1>13, <1>15, <1>17, <1>19, <1>20 DEF ReassocInt

LEMMA ReassocDblKeeps ==
    ASSUME NEW t, Sound(t)
    PROVE  Keeps(t, ReassocDbl(t)) /\ Sound(ReassocDbl(t))
<1>1. PICK q1 : q1 = reassocSub(t, "dadd", "dsub")
  OBVIOUS
<1>2. Keeps(t, q1) /\ Sound(q1)
  <2>1. Keeps(t, q1)
    BY <1>1, OpcodesReassociated, reassocSubKeeps
  <2> QED
    BY <2>1, KeptSound, KeepsChain
<1>3. PICK q2 : q2 = doReassoc(q1, "dadd")
  OBVIOUS
<1>4. Keeps(t, q2) /\ Sound(q2)
  <2>1. Keeps(q1, q2)
    BY <1>3, <1>2, OpcodesReassociated, doReassocKeeps
  <2> QED
    BY <1>2, <2>1, KeptSound, KeepsChain
<1>5. PICK q3 : q3 = reassocSub(q2, "dmul", "ddiv")
  OBVIOUS
<1>6. Keeps(t, q3) /\ Sound(q3)
  <2>1. Keeps(q2, q3)
    BY <1>5, <1>4, OpcodesReassociated, reassocSubKeeps
  <2> QED
    BY <1>4, <2>1, KeptSound, KeepsChain
<1>7. PICK q4 : q4 = doReassoc(q3, "dmul")
  OBVIOUS
<1>8. Keeps(t, q4) /\ Sound(q4)
  <2>1. Keeps(q3, q4)
    BY <1>7, <1>6, OpcodesReassociated, doReassocKeeps
  <2> QED
    BY <1>6, <2>1, KeptSound, KeepsChain
<1> QED
  BY <1>1, <1>3, <1>5, <1>7, <1>8 DEF ReassocDbl

LEMMA ReassocOpKeeps ==
    ASSUME NEW t, Sound(t)
    PROVE  Keeps(t, ReassocOp(t))
<1>1. PICK q : q = ReassocInt(t)
  OBVIOUS
<1>2. Keeps(t, q) /\ Sound(q)
  BY <1>1, ReassocIntKeeps
<1>3. Keeps(t, ReassocDbl(q))
  BY <1>2, ReassocDblKeeps, KeptSound
<1> QED
  BY <1>1, <1>2, <1>3, KeepsSelf DEF ReassocOp

-----------------------------------------------------------------------------
(* The steps.                                                              *)

LEMMA StateFacts ==
    ASSUME NEW t, IsState(t)
    PROVE  /\ DOMAIN t = {"ops", "nUse", "unsafe", "at", "rename", "progress"}
           /\ t.progress \in BOOLEAN /\ IsProcedure(t.ops)
           /\ Len(t.ops) \in Nat /\ DOMAIN t.ops = 1..Len(t.ops)
           /\ \A j \in 1..Len(t.ops) : \A k \in DOMAIN t.ops[j].in :
                t.ops[j].in[k] \in 1..(j - 1) /\ t.ops[j].in[k] \in 1..Len(t.ops)
<1>1. /\ DOMAIN t = {"ops", "nUse", "unsafe", "at", "rename", "progress"}
      /\ t.progress \in BOOLEAN /\ IsProcedure(t.ops)
  BY DEF IsState
<1>2. PICK n \in Nat : n = Len(t.ops)
  BY <1>1, OpsFacts
<1>3. /\ DOMAIN t.ops = 1..n
      /\ \A j \in 1..n : \A k \in DOMAIN t.ops[j].in : t.ops[j].in[k] \in 1..(j - 1)
  BY <1>1, <1>2, OpsFacts
<1>4. ASSUME NEW j \in 1..n, NEW k \in DOMAIN t.ops[j].in
      PROVE  t.ops[j].in[k] \in 1..(j - 1) /\ t.ops[j].in[k] \in 1..n
  <2>1. PICK x : x = t.ops[j].in[k]
    OBVIOUS
  <2>2. x \in 1..(j - 1)
    BY <1>3, <2>1
  <2> QED
    BY <2>1, <2>2
<1> QED
  BY <1>1, <1>2, <1>3, <1>4

(* The same operations, at another place.                                  *)
LEMMA SameOps ==
    ASSUME NEW t, IsState(t), NEW q, DOMAIN q = DOMAIN t, q.ops = t.ops,
           q.progress \in BOOLEAN
    PROVE  /\ IsState(q)
           /\ Exact(t) /\ q.nUse = t.nUse => Exact(q)
BY DEF IsState, Exact

(* All operands are computed: a round may start.                           *)
LEMMA RoundStarts ==
    ASSUME NEW t, IsState(t), OperandsComputed(t.ops), RenamesBefore(t)
    PROVE  FoldOk(t, 0)
<1>1. PICK n \in Nat : n = Len(t.ops)
  BY StateFacts
<1>2. /\ DOMAIN t.ops = 1..n
      /\ \A j \in 1..n : \A k \in DOMAIN t.ops[j].in : t.ops[j].in[k] \in 1..n
  BY <1>1, StateFacts
<1>3. ComputedTo(t, 0)
  BY <1>2 DEF ComputedTo
<1>4. ASSUME NEW j \in 1..n, NEW k \in DOMAIN t.ops[j].in
      PROVE  HasOutput(t.ops[Renamed(t, t.ops[j].in[k])])
  <2>1. PICK x : x = t.ops[j].in[k]
    OBVIOUS
  <2>2. x \in Nat \ {0}
    BY <1>2, <2>1
  <2>3. HasOutput(t.ops[x])
    BY <1>2, <2>1 DEF OperandsComputed
  <2>4. t.ops[x].op # "nop"
    BY <2>3 DEF HasOutput
  <2>5. Renamed(t, x) = x
    BY <2>2, <2>4, RenamedFacts
  <2> QED
    BY <2>1, <2>3, <2>5
<1>5. RenamedAfter(t, 0)
  BY <1>2, <1>4 DEF RenamedAfter
<1> QED
  BY <1>3, <1>5 DEF FoldOk

LEMMA AdvancedFacts ==
    ASSUME IsState(s), s.at \in Nat, Following # {}, NEW t, t = Advanced(s)
    PROVE  /\ DOMAIN t = DOMAIN s /\ t.ops = s.ops /\ t.nUse = s.nUse /\ t.unsafe = s.unsafe
           /\ t.rename = s.rename /\ t.progress = s.progress
           /\ t.at \in DOMAIN s.ops /\ t.at > s.at
           /\ \A j \in DOMAIN s.ops : s.at < j /\ j < t.at => s.ops[j].in = << >>
<1>1. PICK n \in Nat : n = Len(s.ops) /\ DOMAIN s.ops = 1..n
  BY StateFacts
<1>2. Following \subseteq 1..n
  BY <1>1 DEF Following
<1>3. \E i \in Following : \A j \in Following : i <= j
  <2>1. PICK S : S = Following
    OBVIOUS
  <2>2. S \subseteq Nat /\ S # {}
    BY <1>2, <2>1
  <2>3. \E i \in S : \A j \in S : i <= j
    BY <2>2, LeastNumber
  <2> QED
    BY <2>1, <2>3
<1>4. PICK i : i = CHOOSE m \in Following : \A j \in Following : m <= j
  OBVIOUS
<1>5. i \in Following /\ \A j \in Following : i <= j
  BY <1>3, <1>4
<1>6. t = [s EXCEPT !.at = i]
  BY <1>4 DEF Advanced
<1>7. DOMAIN s = {"ops", "nUse", "unsafe", "at", "rename", "progress"}
  BY StateFacts
<1>8. /\ DOMAIN t = DOMAIN s /\ t.ops = s.ops /\ t.nUse = s.nUse /\ t.unsafe = s.unsafe
      /\ t.rename = s.rename /\ t.progress = s.progress /\ t.at = i
  BY <1>6, <1>7
<1>9. i \in 1..n /\ i > s.at
  BY <1>1, <1>5 DEF Following
<1>10. ASSUME NEW j \in 1..n, s.at < j, j < i, s.ops[j].in # << >>
       PROVE  FALSE
  <2>1. j \in Following
    BY <1>1, <1>10 DEF Following
  <2>2. i <= j
    BY <1>5, <2>1
  <2> QED
    BY <1>9, <1>10, <2>2
<1> QED
  BY <1>1, <1>8, <1>9, <1>10

(* What follows has no operands: those of all operations are computed.     *)
LEMMA RoundEnds ==
    ASSUME FoldOk(s, s.at), s.at \in Nat, Following = {}
    PROVE  OperandsComputed(s.ops)
<1>1. PICK n \in Nat : n = Len(s.ops) /\ DOMAIN s.ops = 1..n
  BY StateFacts DEF FoldOk
<1> SUFFICES ASSUME NEW j \in 1..n, NEW k \in DOMAIN s.ops[j].in
             PROVE  HasOutput(s.ops[s.ops[j].in[k]])
  BY <1>1 DEF OperandsComputed
<1>2. CASE j <= s.at
  BY <1>1, <1>2 DEF FoldOk, ComputedTo
<1>3. CASE j > s.at
  <2>1. s.ops[j].in = << >>
    BY <1>1, <1>3 DEF Following
  <2> QED
    BY <2>1
<1> QED
  BY <1>2, <1>3

LEMMA CleanUpKeeps ==
    ASSUME SimplifyInv, opt_dce
    PROVE  SimplifyInv'
<1>1. PICK q : q = Prune(s)
  OBVIOUS
<1>2. IsState(s) /\ OperandsComputed(s.ops)
  BY DEF SimplifyInv, opt_dce
<1>3. /\ IsState(q) /\ OperandsComputed(q.ops) /\ Exact(q)
  BY <1>1, <1>2, PruneCleans
<1>4. PICK r : r = s'
  OBVIOUS
<1>5. r = [q EXCEPT !.rename = << >>, !.at = 0, !.progress = FALSE]
  BY <1>1, <1>4 DEF opt_dce
<1>6. DOMAIN q = {"ops", "nUse", "unsafe", "at", "rename", "progress"}
  BY <1>3, StateFacts
<1>7. /\ DOMAIN r = DOMAIN q /\ r.ops = q.ops /\ r.nUse = q.nUse
      /\ r.rename = << >> /\ r.at = 0 /\ r.progress = FALSE
  BY <1>5, <1>6
<1>8. IsState(r) /\ Exact(r)
  BY <1>3, <1>7, SameOps
<1>9. RenamesBefore(r)
  BY <1>7 DEF RenamesBefore
<1>10. FoldOk(r, r.at)
  BY <1>3, <1>7, <1>8, <1>9, RoundStarts
<1>11. r.at \in 0..Len(r.ops)
  BY <1>7, <1>8, StateFacts
<1>12. pc' = "fold" /\ repeat' = FALSE
  BY DEF opt_dce
<1>13. FoldInv'
  BY <1>3, <1>4, <1>7, <1>8, <1>10, <1>11 DEF FoldInv
<1> QED
  BY <1>4, <1>8, <1>12, <1>13 DEF SimplifyInv, ReassocInv

LEMMA FoldOpKeeps ==
    ASSUME SimplifyInv, foldOp, ~LosesOperand
    PROVE  SimplifyInv'
<1>1. /\ pc = "fold" /\ Following # {} /\ pc' = "fold" /\ repeat' = repeat
      /\ repeat \in BOOLEAN
  BY DEF foldOp, SimplifyInv
<1>2. /\ IsState(s) /\ FoldOk(s, s.at) /\ s.at \in 0..Len(s.ops)
      /\ ~repeat /\ ~s.progress => Exact(s) /\ s.rename = << >>
  BY <1>1 DEF SimplifyInv, FoldInv
<1>3. PICK n \in Nat : n = Len(s.ops) /\ DOMAIN s.ops = 1..n
  BY <1>2, StateFacts
<1>4. s.at \in Nat
  BY <1>2, <1>3
<1>5. PICK t : t = Advanced(s)
  OBVIOUS
<1>6. /\ DOMAIN t = DOMAIN s /\ t.ops = s.ops /\ t.nUse = s.nUse
      /\ t.rename = s.rename /\ t.progress = s.progress
      /\ t.at \in 1..n /\ t.at > s.at
      /\ \A j \in 1..n : s.at < j /\ j < t.at => s.ops[j].in = << >>
  BY <1>1, <1>2, <1>3, <1>4, <1>5, AdvancedFacts
<1>7. FoldOk(t, t.at - 1)
  <2>1. IsState(t)
    <3>1. t.progress \in BOOLEAN
      BY <1>2, <1>6, StateFacts
    <3> QED
      BY <1>2, <1>6, <3>1, SameOps
  <2>2. RenamesBefore(t)
    BY <1>2, <1>6 DEF FoldOk, RenamesBefore
  <2>3. ComputedTo(t, t.at - 1)
    <3> SUFFICES ASSUME NEW j \in 1..n, j <= t.at - 1, NEW k \in DOMAIN s.ops[j].in
                 PROVE  HasOutput(s.ops[s.ops[j].in[k]])
      BY <1>3, <1>6 DEF ComputedTo
    <3>1. CASE j <= s.at
      BY <1>2, <1>3, <3>1 DEF FoldOk, ComputedTo
    <3>2. CASE j > s.at
      <4>1. s.at < j /\ j < t.at
        BY <1>6, <3>2
      <4>2. s.ops[j].in = << >>
        BY <1>6, <4>1
      <4> QED
        BY <4>2
    <3> QED
      BY <1>4, <3>1, <3>2
  <2>4. RenamedAfter(t, t.at - 1)
    <3> SUFFICES ASSUME NEW j \in 1..n, j > t.at - 1, NEW k \in DOMAIN s.ops[j].in
                 PROVE  HasOutput(s.ops[Renamed(t, s.ops[j].in[k])])
      BY <1>3, <1>6 DEF RenamedAfter
    <3>1. j > s.at
      BY <1>4, <1>6
    <3>2. Renamed(t, s.ops[j].in[k]) = Renamed(s, s.ops[j].in[k])
      BY <1>6 DEF Renamed
    <3>3. HasOutput(s.ops[Renamed(s, s.ops[j].in[k])])
      BY <1>2, <1>3, <3>1 DEF FoldOk, RenamedAfter
    <3> QED
      BY <3>2, <3>3
  <2> QED
    BY <2>1, <2>2, <2>3, <2>4 DEF FoldOk
<1>8. PICK u : u = RenameInputs(t)
  OBVIOUS
<1>9. PICK r : r = s'
  OBVIOUS
<1>10. After(u, r)
  <2>1. ~ComparesWithZero(Cur(Tested(t)))
    BY <1>1, <1>5 DEF LosesOperand
  <2>2. r = FoldOp(t)
    BY <1>5, <1>9 DEF foldOp
  <2>3. t.at \in DOMAIN t.ops
    BY <1>3, <1>6
  <2> QED
    BY <1>7, <1>8, <2>1, <2>2, <2>3, FoldOpAfter
<1>11. /\ Visiting(u) /\ u.at = t.at /\ u.nUse = t.nUse
       /\ u.rename = t.rename /\ u.progress = t.progress /\ DOMAIN u.ops = DOMAIN t.ops
       /\ t.rename = << >> =>
            \A i \in DOMAIN t.ops : \A v : UsesBy(u.ops[i], v) = UsesBy(t.ops[i], v)
  <2>1. t.at \in DOMAIN t.ops
    BY <1>3, <1>6
  <2> QED
    BY <1>7, <1>8, <2>1, RenameInputsVisits
<1>12. /\ FoldOk(r, r.at) /\ IsState(r) /\ r.at = t.at /\ r.nUse = s.nUse
       /\ DOMAIN r.ops = 1..n
       /\ s.progress => r.progress
       /\ ~r.progress =>
            /\ r.rename = s.rename
            /\ \A i \in 1..n : \A v : UsesBy(r.ops[i], v) = UsesBy(u.ops[i], v)
  <2>1. /\ Visiting(r) /\ r.at = u.at /\ r.nUse = u.nUse
        /\ DOMAIN r.ops = DOMAIN u.ops
        /\ u.progress => r.progress
        /\ ~r.progress =>
            /\ r.rename = u.rename
            /\ \A i \in DOMAIN u.ops : \A v : UsesBy(r.ops[i], v) = UsesBy(u.ops[i], v)
    BY <1>10 DEF After
  <2>2. FoldOk(r, r.at) /\ IsState(r)
    BY <2>1 DEF Visiting, FoldOk
  <2>3. DOMAIN u.ops = 1..n
    BY <1>3, <1>6, <1>11
  <2> QED
    BY <1>6, <1>11, <2>1, <2>2, <2>3
<1>13. r.at \in 0..Len(r.ops) /\ r.at # 0 /\ Len(r.ops) = n
  <2>1. Len(r.ops) \in Nat /\ DOMAIN r.ops = 1..Len(r.ops)
    BY <1>12, StateFacts
  <2> QED
    BY <1>6, <1>12, <2>1
<1>14. ASSUME ~repeat, ~r.progress
       PROVE  Exact(r) /\ r.rename = << >>
  <2>1. ~s.progress /\ r.rename = s.rename
    BY <1>12, <1>14
  <2>2. Exact(s) /\ s.rename = << >>
    BY <1>2, <1>14, <2>1
  <2>3. \A i \in 1..n : \A v : UsesBy(r.ops[i], v) = UsesBy(s.ops[i], v)
    <3>1. \A i \in 1..n : \A v : UsesBy(u.ops[i], v) = UsesBy(s.ops[i], v)
      BY <1>3, <1>6, <1>11, <2>2
    <3>2. \A i \in 1..n : \A v : UsesBy(r.ops[i], v) = UsesBy(u.ops[i], v)
      BY <1>12, <1>14
    <3> QED
      BY <3>1, <3>2
  <2>4. \A v : TotalUses(r.ops, v) = TotalUses(s.ops, v)
    <3>1. IsProcedure(s.ops) /\ IsProcedure(r.ops)
      BY <1>2, <1>12 DEF IsState
    <3>2. PICK ops : ops = s.ops
      OBVIOUS
    <3>3. PICK new : new = r.ops
      OBVIOUS
    <3>4. Len(new) = Len(ops) /\ \A v : \A j \in 1..Len(ops) : UsesBy(new[j], v) = UsesBy(ops[j], v)
      BY <1>3, <1>13, <2>3, <3>2, <3>3
    <3>5. \A v : TotalUses(new, v) = TotalUses(ops, v)
      BY <3>1, <3>2, <3>3, <3>4, TotalSame
    <3> QED
      BY <3>2, <3>3, <3>5
  <2> QED
    BY <1>3, <1>12, <2>1, <2>2, <2>4 DEF Exact
<1>15. FoldInv'
  BY <1>1, <1>9, <1>12, <1>13, <1>14 DEF FoldInv
<1> QED
  BY <1>1, <1>9, <1>12, <1>15 DEF SimplifyInv, ReassocInv

LEMMA EndFoldKeeps ==
    ASSUME SimplifyInv, endFoldRound
    PROVE  SimplifyInv'
<1>1. /\ pc = "fold" /\ Following = {} /\ repeat \in BOOLEAN /\ IsState(s)
      /\ repeat' = (repeat \/ s.progress)
      /\ pc' = IF s.progress THEN "fold" ELSE "reassoc"
      /\ s' = NextRound(IF repeat /\ ~s.progress THEN Prune(s) ELSE s)
  BY DEF endFoldRound, SimplifyInv
<1>2. /\ FoldOk(s, s.at) /\ s.at \in 0..Len(s.ops)
      /\ ~repeat /\ ~s.progress => Exact(s) /\ s.rename = << >>
  BY <1>1 DEF SimplifyInv, FoldInv
<1>3. s.at \in Nat /\ s.progress \in BOOLEAN
  BY <1>1, <1>2, StateFacts
<1>4. OperandsComputed(s.ops)
  BY <1>1, <1>2, <1>3, RoundEnds
<1>5. PICK r : r = s'
  OBVIOUS
<1>6. ASSUME NEW q, IsState(q), r = NextRound(q)
      PROVE  /\ DOMAIN r = DOMAIN q /\ r.ops = q.ops /\ r.nUse = q.nUse
             /\ r.rename = q.rename /\ r.at = 0 /\ r.progress = FALSE
             /\ IsState(r) /\ r.at \in 0..Len(r.ops)
             /\ Exact(q) => Exact(r)
  <2>1. DOMAIN q = {"ops", "nUse", "unsafe", "at", "rename", "progress"}
    BY <1>6, StateFacts
  <2>2. /\ DOMAIN r = DOMAIN q /\ r.ops = q.ops /\ r.nUse = q.nUse
        /\ r.rename = q.rename /\ r.at = 0 /\ r.progress = FALSE
    BY <1>6, <2>1 DEF NextRound
  <2>3. IsState(r) /\ (Exact(q) => Exact(r))
    BY <1>6, <2>2, SameOps
  <2>4. r.at \in 0..Len(r.ops)
    BY <2>2, <2>3, StateFacts
  <2> QED
    BY <2>2, <2>3, <2>4
<1>7. CASE s.progress
  <2>1. r = NextRound(s) /\ pc' = "fold" /\ repeat' = TRUE
    BY <1>1, <1>5, <1>7
  <2>2. /\ r.ops = s.ops /\ r.rename = s.rename /\ r.at = 0
        /\ IsState(r) /\ r.at \in 0..Len(r.ops)
    BY <1>1, <1>6, <2>1
  <2>3. RenamesBefore(r)
    BY <1>2, <2>2 DEF FoldOk, RenamesBefore
  <2>4. FoldOk(r, r.at) /\ OperandsComputed(r.ops)
    BY <1>4, <2>2, <2>3, RoundStarts
  <2>5. FoldInv'
    BY <1>5, <2>1, <2>2, <2>4 DEF FoldInv
  <2> QED
    BY <1>5, <2>1, <2>2, <2>5 DEF SimplifyInv, ReassocInv
<1>8. CASE ~s.progress
  <2>1. pc' = "reassoc" /\ repeat' \in BOOLEAN
    BY <1>1, <1>3, <1>8
  <2>2. PICK q : q = IF repeat THEN Prune(s) ELSE s
    OBVIOUS
  <2>3. r = NextRound(q)
    BY <1>1, <1>5, <1>8, <2>2
  <2>4. IsState(q) /\ OperandsComputed(q.ops) /\ Exact(q)
    <3>1. CASE repeat
      BY <1>1, <1>4, <2>2, <3>1, PruneCleans
    <3>2. CASE ~repeat
      BY <1>1, <1>2, <1>4, <1>8, <2>2, <3>2
    <3> QED
      BY <3>1, <3>2
  <2>5. IsState(r) /\ OperandsComputed(r.ops) /\ Exact(r) /\ r.at \in 0..Len(r.ops)
    BY <1>6, <2>3, <2>4
  <2> QED
    BY <1>5, <2>1, <2>5 DEF SimplifyInv, FoldInv, ReassocInv
<1> QED
  BY <1>7, <1>8

LEMMA ReassocStepKeeps ==
    ASSUME SimplifyInv, reassocOp
    PROVE  SimplifyInv'
<1>1. /\ pc = "reassoc" /\ Following # {} /\ pc' = "reassoc" /\ repeat' = repeat
      /\ repeat \in BOOLEAN /\ s' = ReassocOp(Advanced(s))
  BY DEF reassocOp, SimplifyInv
<1>2. IsState(s) /\ OperandsComputed(s.ops) /\ Exact(s) /\ s.at \in 0..Len(s.ops)
  BY <1>1 DEF SimplifyInv, ReassocInv
<1>3. s.at \in Nat
  BY <1>2, StateFacts
<1>4. PICK t : t = Advanced(s)
  OBVIOUS
<1>5. /\ DOMAIN t = DOMAIN s /\ t.ops = s.ops /\ t.nUse = s.nUse
      /\ t.progress = s.progress /\ t.at \in DOMAIN s.ops
  BY <1>1, <1>2, <1>3, <1>4, AdvancedFacts
<1>6. IsState(t) /\ Exact(t)
  <2>1. t.progress \in BOOLEAN
    BY <1>2, <1>5, StateFacts
  <2> QED
    BY <1>2, <1>5, <2>1, SameOps
<1>7. Sound(t)
  BY <1>2, <1>5, <1>6 DEF Sound
<1>8. PICK r : r = s'
  OBVIOUS
<1>9. Sound(r)
  <2>1. r = ReassocOp(t)
    BY <1>1, <1>4, <1>8
  <2>2. Keeps(t, r)
    BY <1>7, <2>1, ReassocOpKeeps
  <2> QED
    BY <2>2 DEF Keeps
<1>10. IsState(r) /\ OperandsComputed(r.ops) /\ Exact(r) /\ r.at \in DOMAIN r.ops
  BY <1>9 DEF Sound
<1>11. r.at \in 0..Len(r.ops)
  BY <1>10, StateFacts
<1> QED
  BY <1>1, <1>8, <1>10, <1>11 DEF SimplifyInv, FoldInv, ReassocInv

LEMMA EndReassocKeeps ==
    ASSUME SimplifyInv, endReassocRound
    PROVE  SimplifyInv'
<1>1. /\ pc = "reassoc" /\ repeat \in BOOLEAN
      /\ repeat' = (repeat \/ s.progress)
      /\ pc' \in {"reassoc", "dce", "done"}
      /\ s' = NextRound(s)
  BY DEF endReassocRound, SimplifyInv
<1>2. IsState(s) /\ OperandsComputed(s.ops) /\ Exact(s)
  BY <1>1 DEF SimplifyInv, ReassocInv
<1>3. repeat' \in BOOLEAN
  BY <1>1, <1>2, StateFacts
<1>4. PICK r : r = s'
  OBVIOUS
<1>5. /\ DOMAIN r = DOMAIN s /\ r.ops = s.ops /\ r.nUse = s.nUse
      /\ r.at = 0 /\ r.progress = FALSE
  BY <1>1, <1>2, <1>4, StateFacts DEF NextRound
<1>6. IsState(r) /\ Exact(r)
  BY <1>2, <1>5, SameOps
<1>7. r.at \in 0..Len(r.ops)
  BY <1>5, <1>6, StateFacts
<1> QED
  BY <1>1, <1>2, <1>3, <1>4, <1>5, <1>6, <1>7 DEF SimplifyInv, FoldInv, ReassocInv

-----------------------------------------------------------------------------
(* The theorem.                                                            *)

LEMMA SimplifyStarts ==
    ASSUME Init
    PROVE  SimplifyInv
<1>1. PICK p \in Procs : p = built
  BY DEF Init
<1>2. IsProcedure(p.ops) /\ OperandsComputed(p.ops)
  BY <1>1, ProcsAssumption
<1>3. /\ s = [ops |-> p.ops, nUse |-> << >>, unsafe |-> p.unsafe, at |-> 0,
              rename |-> << >>, progress |-> FALSE]
      /\ pc = "dce" /\ repeat = FALSE
  BY <1>1 DEF Init
<1>4. IsState(s) /\ s.ops = p.ops
  BY <1>2, <1>3 DEF IsState
<1> QED
  BY <1>2, <1>3, <1>4 DEF SimplifyInv, FoldInv, ReassocInv

LEMMA SimplifyStays ==
    ASSUME SimplifyInv, UNCHANGED vars
    PROVE  SimplifyInv'
BY DEF vars, SimplifyInv, FoldInv, ReassocInv, FoldOk, IsState, RenamesBefore, ComputedTo,
       RenamedAfter, Exact, Renamed

LEMMA InvariantIsSane ==
    ASSUME SimplifyInv
    PROVE  SimplifySane
<1>1. IsState(s)
  BY DEF SimplifyInv
<1>2. PICK n \in Nat : n = Len(s.ops) /\ DOMAIN s.ops = 1..n
  BY <1>1, StateFacts
<1>3. ASSUME s.at = 0
      PROVE  OperandsComputed(s.ops)
  BY <1>3 DEF SimplifyInv, FoldInv
<1>4. OperandsBefore
  <2> SUFFICES ASSUME s.at = 0, NEW i \in 1..n, NEW k \in DOMAIN s.ops[i].in
               PROVE  s.ops[i].in[k] < i /\ HasOutput(s.ops[s.ops[i].in[k]])
    BY <1>2 DEF OperandsBefore
  <2>1. HasOutput(s.ops[s.ops[i].in[k]])
    BY <1>2, <1>3 DEF OperandsComputed
  <2>2. PICK x : x = s.ops[i].in[k]
    OBVIOUS
  <2>3. x \in 1..(i - 1)
    BY <1>1, <1>2, <2>2, StateFacts
  <2> QED
    BY <2>1, <2>2, <2>3
<1>5. UsesCounted
  BY DEF SimplifyInv, ReassocInv, Exact, UsesCounted
<1> QED
  BY <1>4, <1>5 DEF SimplifySane

(* Folding and reassociation of any procedure leave every operand computed *)
(* before it is used, by an operation that was not renamed away, and the   *)
(* uses counted as they are whenever reassociation relies on them, unless  *)
(* a jump loses the operand it compares with zero.                         *)
THEOREM OperandsAndUses == Spec /\ []~LosesOperand => []SimplifySane
<1>1. Init => SimplifyInv
  BY SimplifyStarts
<1>2. SimplifyInv /\ ~LosesOperand /\ [Step \/ Terminated]_vars => SimplifyInv'
  <2> SUFFICES ASSUME SimplifyInv, ~LosesOperand, [Step \/ Terminated]_vars
               PROVE  SimplifyInv'
    OBVIOUS
  <2>1. CASE opt_dce
    BY <2>1, CleanUpKeeps
  <2>2. CASE foldOp
    BY <2>2, FoldOpKeeps
  <2>3. CASE endFoldRound
    BY <2>3, EndFoldKeeps
  <2>4. CASE reassocOp
    BY <2>4, ReassocStepKeeps
  <2>5. CASE endReassocRound
    BY <2>5, EndReassocKeeps
  <2>6. CASE UNCHANGED vars
    BY <2>6, SimplifyStays
  <2> QED
    BY <2>1, <2>2, <2>3, <2>4, <2>5, <2>6 DEF Step, Terminated
<1>3. SimplifyInv => SimplifySane
  BY InvariantIsSane
<1> QED
  BY <1>1, <1>2, <1>3, PTL DEF Spec
=============================================================================
