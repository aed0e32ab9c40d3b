-------------------------------- MODULE Fold --------------------------------
(***************************************************************************)
(* Constant folding and strength reduction, Proc::opt_fold                 *)
(* (src/src/opt-fold.cpp).  Every rule is an operator on the state s of    *)
(* the pass, in the order of the code: s.ops is the procedure, s.at the    *)
(* operation visited, s.nUse the uses the last DCE counted (the pass does  *)
(* not keep them up to date), s.rename the map of impl::Rename.            *)
(*                                                                         *)
(* The procedure is a sequence of operations, a chain of blocks each of    *)
(* which dominates the next: a conditional jump leaves it or goes on.      *)
(* "iltI", "jilt" and "jiltI" are the comparison "ilt" with hasImm, jump   *)
(* or both.  float and double have the same rules; the model has one class.*)
(***************************************************************************)
EXTENDS OpValues, Sequences

Blank == [op |-> "nop", jump |-> FALSE, hasImm |-> FALSE, in |-> << >>, imm |-> 0,
          label |-> << >>, alt |-> 0]
Lci(x) == [Blank EXCEPT !.op = "lci", !.imm = x]

Is(o, c) == o.op = c /\ ~o.hasImm /\ ~o.jump
IsI(o, c) == o.op = c /\ o.hasImm /\ ~o.jump

Cur(s) == s.ops[s.at]
N(s, k) == s.ops[Cur(s).in[k]]
Arity(s) == Len(Cur(s).in)
InIs(s, k, c) == Arity(s) >= k /\ Is(N(s, k), c)
InIsI(s, k, c) == Arity(s) >= k /\ IsI(N(s, k), c)
IsConst(s, k) == InIs(s, k, "lci") \/ InIs(s, k, "lcd")
InIsDbl(s, k, x) == InIs(s, k, "lcd") /\ N(s, k).imm = Number(s.unsafe, x)
SoleUse(s, k) == s.nUse[Cur(s).in[k]] = 1

Put(s, o) == [s EXCEPT !.ops[s.at] = o, !.progress = TRUE]
RenameTo(s, v) ==
    [s EXCEPT !.ops[s.at] = Blank, !.progress = TRUE, !.rename = Append(@, <<s.at, v>>)]

-----------------------------------------------------------------------------
(* Operands: renamed, sorted, constants second, as immediates.             *)

NewName(rename, v) ==
    LET after[n \in 0..Len(rename)] ==
            IF n = 0 THEN v
            ELSE IF after[n - 1] = rename[n][1] THEN rename[n][2] ELSE after[n - 1]
    IN  after[Len(rename)]

Renamed(s, v) == NewName(s.rename, v)

RenameInputs(s) ==
    LET o == Cur(s)
        exits == \E k \in DOMAIN o.label : o.label[k] = "exit"
    IN  [s EXCEPT !.ops[s.at] =
            [o EXCEPT !.in = [k \in DOMAIN @ |-> Renamed(s, @[k])],
                      !.alt = IF exits THEN Renamed(s, @) ELSE @]]

shouldSwap(op1, op2) == op1 < op2

Symmetric == {"iadd", "imul", "dadd", "dmul", "iand", "ior", "ixor",
              "ieq", "ine", "deq", "dne"}
SwapIn(o) == [o EXCEPT !.in = <<@[2], @[1]>>,
                       !.op = IF @ \in Ordered THEN Swapped[@] ELSE @]

SortOperands(s) ==
    LET o == Cur(s)
    IN  IF /\ Arity(s) = 2 /\ ~o.jump /\ o.op \in Symmetric \cup Ordered
           /\ ~IsConst(s, 1) /\ ~IsConst(s, 2)
           /\ shouldSwap(o.in[1], o.in[2])
        THEN [s EXCEPT !.ops[s.at] = SwapIn(o)]
        ELSE s

(* The i64 of an operation with two inputs is their numbers: it is zero if *)
(* both are value 0, which is the stack block. "l2i" has its memtag there. *)
InputsAreZero(s, o) ==
    /\ Len(o.in) = 2 /\ o.op # "l2i" /\ o.imm = 0
    /\ \A k \in 1..2 : Is(s.ops[o.in[k]], "alloc")

(* "rewrite 0 - a = -a" asks whether a is zero, not whether the constant   *)
(* is.                                                                     *)
ConstantSecond(s) ==
    LET o == Cur(s)
    IN  IF Arity(s) = 2 /\ IsConst(s, 1) /\ ~IsConst(s, 2)
        THEN CASE o.op \in Symmetric -> [s EXCEPT !.ops[s.at] = SwapIn(o)]
               [] o.op \in Ordered -> Put(s, SwapIn(o))
               [] Is(o, "isub") /\ InputsAreZero(s, N(s, 2)) ->
                    Put(s, [Blank EXCEPT !.op = "ineg", !.in = <<o.in[2]>>])
               [] OTHER -> s
        ELSE s

(* "simplify ieqI/ineI into inverted test when possible"                   *)
InvertTest(s) ==
    LET o == Cur(s)
    IN  IF (IsI(o, "ieq") \/ IsI(o, "ine")) /\ o.imm = 0 /\ SoleUse(s, 1)
           /\ N(s, 1).op \in Ordered /\ ~N(s, 1).jump
        THEN Put(s, [N(s, 1) EXCEPT !.op = IF o.op = "ieq" THEN Negated[@] ELSE @])
        ELSE s

ImmOps == IntCompares \cup {"iadd", "isub", "imul", "iand", "ior", "ixor",
                            "ishl", "ishr", "ushr"}

Immediate(s) ==
    LET o == Cur(s)
    IN  IF Arity(s) = 2 /\ o.op \in ImmOps /\ InIs(s, 2, "lci") /\ FitsImm(N(s, 2).imm)
        THEN Put(s, [o EXCEPT !.hasImm = TRUE, !.imm = N(s, 2).imm, !.in = <<@[1]>>])
        ELSE s

-----------------------------------------------------------------------------
(* Jumps.                                                                  *)

(* "fold conditions into jumps, but with floating point only when          *)
(* unsafeOpt": the condition has it the other way around.                  *)
FoldedTests(s) == IF s.unsafe THEN IntCompares ELSE Compares

JumpOnTest(s) ==
    LET o == Cur(s)
    IN  IF /\ o.op \in {"jz", "jnz"} /\ SoleUse(s, 1) /\ ~N(s, 1).jump
           /\ N(s, 1).op \in (IF N(s, 1).hasImm THEN IntCompares ELSE FoldedTests(s))
        THEN Put(s, [N(s, 1) EXCEPT !.op = IF o.op = "jz" THEN Negated[@] ELSE @,
                                    !.jump = TRUE, !.label = o.label, !.alt = o.alt])
        ELSE s

(* "simplify jieqI/jineI into jz/jnz when possible": the operand is lost.  *)
ComparesWithZero(o) == o.jump /\ o.hasImm /\ o.op \in {"ieq", "ine"} /\ o.imm = 0

JumpOnZero(s) ==
    LET o == Cur(s)
    IN  IF ComparesWithZero(o)
        THEN Put(s, [o EXCEPT !.op = IF @ = "ieq" THEN "jz" ELSE "jnz",
                              !.hasImm = FALSE, !.in = <<0>>])
        ELSE s

-----------------------------------------------------------------------------
(* Identities.                                                             *)

(* -(-a), a + 0, a - 0, a * 1                                              *)
Identity(s) ==
    LET o == Cur(s)
    IN  IF \/ Is(o, "ineg") /\ InIs(s, 1, "ineg")
           \/ Is(o, "dneg") /\ InIs(s, 1, "dneg")
        THEN RenameTo(s, N(s, 1).in[1])
        ELSE IF \/ IsI(o, "iadd") /\ o.imm = 0
                \/ IsI(o, "isub") /\ o.imm = 0
                \/ IsI(o, "imul") /\ o.imm = 1
                \/ o.op \in {"dadd", "dsub"} /\ InIsDbl(s, 2, 0)
                \/ Is(o, "dmul") /\ InIsDbl(s, 2, 1)
        THEN RenameTo(s, o.in[1])
        ELSE s

(* a * 0, a * -1                                                           *)
MulBySign(s) ==
    LET o == Cur(s)
    IN  CASE IsI(o, "imul") /\ o.imm = 0  -> Put(s, Lci(0))
          [] IsI(o, "imul") /\ o.imm = -1 -> Put(s, [Blank EXCEPT !.op = "ineg", !.in = o.in])
          [] Is(o, "dmul") /\ InIsDbl(s, 2, -1) ->
                Put(s, [Blank EXCEPT !.op = "dneg", !.in = <<o.in[1]>>])
          [] OTHER -> s

(* a + (-b), a - (-b), -a + b, in this order                               *)
OfNegated(s, op, neg, to) ==
    IF Is(Cur(s), op) /\ InIs(s, 2, neg)
    THEN Put(s, [Cur(s) EXCEPT !.op = to, !.in = <<@[1], N(s, 2).in[1]>>])
    ELSE s
NegatedPlus(s, add, sub, neg) ==
    IF Is(Cur(s), add) /\ InIs(s, 1, neg)
    THEN Put(s, [Cur(s) EXCEPT !.op = sub, !.in = <<@[2], N(s, 1).in[1]>>])
    ELSE s
Negation(s, add, sub, neg) ==
    LET t == OfNegated(OfNegated(s, add, neg, sub), sub, neg, add)
    IN  NegatedPlus(t, add, sub, neg)

(* a & a, a | a, a & (a | b), a | (a & b)                                  *)
Absorption(s) ==
    LET o == Cur(s)
        dual == IF o.op = "iand" THEN "ior" ELSE "iand"
        Absorbs(j, k) == InIs(s, k, dual) /\ \E i \in 1..2 : N(s, k).in[i] = o.in[j]
    IN  IF ~Is(o, "iand") /\ ~Is(o, "ior") THEN s
        ELSE IF o.in[1] = o.in[2] \/ Absorbs(1, 2) THEN RenameTo(s, o.in[1])
        ELSE IF Absorbs(2, 1) THEN RenameTo(s, o.in[2])
        ELSE s

(* a + a = a << 1, a & ~a = 0, a - a = 0, a ^ a = 0                        *)
SameOperand(s) ==
    LET o == Cur(s)
        Same == o.in[1] = o.in[2]
        Complement == \E k \in 1..2 : InIs(s, k, "inot") /\ N(s, k).in[1] = o.in[3 - k]
    IN  IF Arity(s) # 2 \/ o.jump THEN s
        ELSE IF o.op = "iadd" /\ Same
             THEN Put(s, [o EXCEPT !.op = "ishl", !.hasImm = TRUE, !.imm = 1, !.in = <<@[1]>>])
        ELSE IF (o.op = "iand" /\ Complement) \/ (o.op \in {"isub", "ixor"} /\ Same)
             THEN Put(s, Lci(0))
        ELSE IF o.op = "dsub" /\ Same THEN Put(s, [Lci(0) EXCEPT !.op = "lcd"])
        ELSE s

-----------------------------------------------------------------------------
(* Merging immediates.                                                     *)

(* Takes the operand of the operand, with immediate v if that fits.        *)
Merge(s, v) ==
    IF FitsImm(v) THEN Put(s, [Cur(s) EXCEPT !.imm = v, !.in = N(s, 1).in]) ELSE s

MergeAdd(s, outer, inner) ==
    IF IsI(Cur(s), outer) /\ InIsI(s, 1, inner)
    THEN Merge(s, IF outer = inner THEN Cur(s).imm + N(s, 1).imm
                                   ELSE Cur(s).imm - N(s, 1).imm)
    ELSE s
MergeAdds(s) ==
    LET t == MergeAdd(MergeAdd(s, "iadd", "iadd"), "isub", "isub")
    IN  MergeAdd(MergeAdd(t, "iadd", "isub"), "isub", "iadd")

MergeShiftInMul(s) ==
    IF IsI(Cur(s), "imul") /\ InIsI(s, 1, "ishl")
    THEN Merge(s, Signed(Cur(s).imm * IntValue("ishl", 1, N(s, 1).imm)))
    ELSE s
MergeMul(s) ==
    IF IsI(Cur(s), "imul") /\ InIsI(s, 1, "imul")
    THEN Merge(s, Cur(s).imm * N(s, 1).imm)
    ELSE s

(* int shift = 0; while(b >>= 1) ++shift;                                  *)
Log2(b) == CHOOSE n \in 0..WordBits : 2 ^ n <= b /\ b < 2 ^ (n + 1)
Shift(b) == IF b = 0 THEN 0 ELSE Log2(b)
IsPowerOf2(x) == And(x, Signed(x - 1)) = 0

MulToShift(s) ==
    LET o == Cur(s)
    IN  IF IsI(o, "imul") /\ o.imm # 0 /\ IsPowerOf2(o.imm)
        THEN Put(s, [o EXCEPT !.op = "ishl", !.imm = Shift(o.imm)])
        ELSE s

(* Unsigned division and remainder: the shift comes from imm32, the high   *)
(* half of the constant i64 it shares its place with.                      *)
HighHalf(x) == Unsigned(x) \div 2 ^ ImmBits
DivToShift(s) ==
    LET o == Cur(s)
        shift == Shift(HighHalf(N(s, 2).imm))
        To(op, imm) == Put(s, [o EXCEPT !.op = op, !.hasImm = TRUE, !.imm = imm, !.in = <<@[1]>>])
    IN  IF o.op \in {"udiv", "umod"} /\ InIs(s, 2, "lci") /\ IsPowerOf2(N(s, 2).imm)
        THEN IF o.op = "udiv" THEN To("ushr", shift)
             ELSE IF Unsigned(N(s, 2).imm) <= 2 ^ ImmBits THEN To("iand", 2 ^ shift - 1)
             ELSE s
        ELSE s

(* Mutant of MergeShift: counts are added without a look at the sum.       *)
MergeShiftUncapped(s, op) ==
    IF IsI(Cur(s), op) /\ InIsI(s, 1, op)
    THEN Put(s, [Cur(s) EXCEPT !.imm = @ + N(s, 1).imm, !.in = N(s, 1).in])
    ELSE s

(* Shift counts are added modulo 64, with the sign of the C++ remainder.   *)
MergeShift(s, op) ==
    LET o == Cur(s)
        sum == Remainder(o.imm, WordBits) + Remainder(N(s, 1).imm, WordBits)
        By(n) == Put(s, [o EXCEPT !.imm = n, !.in = N(s, 1).in])
    IN  IF ~(IsI(o, op) /\ InIsI(s, 1, op)) THEN s
        ELSE IF sum < WordBits THEN By(sum)
        ELSE IF op = "ishr" THEN By(WordBits - 1)
        ELSE Put(s, Lci(0))
MergeShifts(s) == MergeShift(MergeShift(MergeShift(s, "ishl"), "ishr"), "ushr")

(* "reassoc (a+b)<<c as (a<<c)+(b<<c) when b,c are constants": the operand *)
(* is rewritten in place, "so only do it when (a+b) is not used".          *)
ShiftOfAdd(s, add) ==
    LET o == Cur(s)
        shift == Remainder(o.imm, WordBits)
        imm == IntValue("ishl", N(s, 1).imm, shift)
    IN  IF IsI(o, "ishl") /\ InIsI(s, 1, add) /\ SoleUse(s, 1) /\ FitsImm(imm)
        THEN Put([s EXCEPT !.ops[o.in[1]] = [@ EXCEPT !.op = "ishl", !.imm = shift]],
                 [o EXCEPT !.op = add, !.imm = imm])
        ELSE s

SubToAdd(s) ==
    IF IsI(Cur(s), "isub") /\ Cur(s).imm # LeastImm
    THEN [s EXCEPT !.ops[s.at].op = "iadd", !.ops[s.at].imm = -@]
    ELSE s

(* A shift by zero and ~(~a) are the operand.                              *)
NoShift(s) ==
    IF (\E c \in {"ishl", "ishr", "ushr"} : IsI(Cur(s), c)) /\ Remainder(Cur(s).imm, WordBits) = 0
    THEN RenameTo(s, Cur(s).in[1])
    ELSE IF Is(Cur(s), "inot") /\ InIs(s, 1, "inot")
    THEN RenameTo(s, N(s, 1).in[1])
    ELSE s

MergeBits(s, op) ==
    IF IsI(Cur(s), op) /\ InIsI(s, 1, op)
    THEN Put(s, [Cur(s) EXCEPT !.imm = IntValue(op, @, N(s, 1).imm), !.in = N(s, 1).in])
    ELSE s
XorIdentity(s) ==
    LET o == Cur(s)
    IN  CASE IsI(o, "ixor") /\ o.imm = -1 -> Put(s, [Blank EXCEPT !.op = "inot", !.in = o.in])
          [] IsI(o, "ixor") /\ o.imm = 0  -> RenameTo(s, o.in[1])
          [] OTHER -> s

(* "merge iadd into 1-reg loads/stores": li and si with an address a + b   *)
(* become l2i and s2i.                                                     *)
AddressOfAdd(s) ==
    LET o == Cur(s)
    IN  IF o.op = "li" /\ InIs(s, 1, "iadd") /\ SoleUse(s, 1)
        THEN Put(s, [o EXCEPT !.op = "l2i", !.in = N(s, 1).in])
        ELSE IF o.op = "si" /\ InIs(s, 2, "iadd") /\ SoleUse(s, 2)
        THEN Put(s, [o EXCEPT !.op = "s2i", !.in = <<@[1]>> \o N(s, 2).in])
        ELSE s

-----------------------------------------------------------------------------
(* Operations on constants.                                                *)

(* A jump on a constant is unconditional, to label 2 if it falls through.  *)
Decided(s, taken) ==
    Put(s, [Cur(s) EXCEPT !.op = "jmp", !.jump = TRUE, !.hasImm = FALSE, !.in = << >>,
                          !.label = <<IF taken THEN @[1] ELSE @[2]>>])

FoldOneJump(s) ==
    LET o == Cur(s)
        x == N(s, 1).imm
    IN  CASE o.op = "jz"  -> Decided(s, x = 0)
          [] o.op = "jnz" -> Decided(s, x # 0)
          [] o.jump /\ o.hasImm -> Decided(s, Holds(o.op, x, o.imm))
          [] OTHER -> s

FoldOne(s) ==
    LET o == Cur(s)
        x == N(s, 1).imm
    IN  CASE o.op = "iret" /\ FitsImm(x) /\ N(s, 1).op = "lci" ->
                Put(s, [o EXCEPT !.hasImm = TRUE, !.imm = x, !.in = << >>])
          [] o.hasImm /\ o.op \in IntCompares -> Put(s, Lci(CmpValue(o.op, x, o.imm)))
          [] o.hasImm /\ o.op \in IntOps -> Put(s, Lci(IntValue(o.op, x, o.imm)))
          [] o.op \in {"ineg", "inot"} -> Put(s, Lci(IntValue(o.op, x, 0)))
          [] o.op = "dneg" -> Put(s, [Lci(DblValue(s.unsafe, "dneg", x, 0)) EXCEPT !.op = "lcd"])
          [] OTHER -> s

FoldConstant(s) ==
    IF Arity(s) = 1 /\ IsConst(s, 1)
    THEN IF Cur(s).jump THEN FoldOneJump(s) ELSE FoldOne(s)
    ELSE s

(* Mutant of FoldTwo: what fits no immediate is not folded.                *)
FoldTwoFitting(s) ==
    LET o == Cur(s)
        value == IF o.op \in Compares THEN CmpValue(o.op, N(s, 1).imm, N(s, 2).imm)
                 ELSE IntValue(o.op, N(s, 1).imm, N(s, 2).imm)
    IN  IF o.op \in {"iadd", "isub", "imul", "iand", "ior", "ixor"} \cup IntCompares
           /\ FitsImm(N(s, 2).imm)
        THEN Put(s, Lci(value)) ELSE s

FoldTwo(s) ==
    LET o == Cur(s)
        x == N(s, 1).imm
        y == N(s, 2).imm
    IN  CASE o.op \in Compares -> Put(s, Lci(CmpValue(o.op, x, y)))
          [] o.op \in {"iadd", "isub", "imul", "iand", "ior", "ixor"} ->
                Put(s, Lci(IntValue(o.op, x, y)))
          [] o.op \in DivOps /\ y # 0 -> Put(s, Lci(IntValue(o.op, x, y)))
          [] o.op \in DblOps -> Put(s, [Lci(DblValue(s.unsafe, o.op, x, y)) EXCEPT !.op = "lcd"])
          [] OTHER -> s

FoldConstants(s) ==
    IF Arity(s) = 2 /\ IsConst(s, 1) /\ IsConst(s, 2)
    THEN IF Cur(s).jump THEN Decided(s, Holds(Cur(s).op, N(s, 1).imm, N(s, 2).imm))
                        ELSE FoldTwo(s)
    ELSE s

-----------------------------------------------------------------------------
(* One operation.                                                          *)

Tested(s) ==
    JumpOnTest(Immediate(InvertTest(ConstantSecond(SortOperands(RenameInputs(s))))))

FoldOp(s0) ==
    LET s3 == MulBySign(Identity(JumpOnZero(Tested(s0))))
        s4 == Negation(Negation(s3, "iadd", "isub", "ineg"), "dadd", "dsub", "dneg")
        s5 == SameOperand(Absorption(s4))
        s6 == MulToShift(MergeMul(MergeShiftInMul(MergeAdds(s5))))
        s7 == ShiftOfAdd(ShiftOfAdd(MergeShifts(DivToShift(s6)), "iadd"), "isub")
        s8 == NoShift(SubToAdd(s7))
        s9 == MergeBits(MergeBits(MergeBits(s8, "iand"), "ior"), "ixor")
    IN  FoldConstants(FoldConstant(AddressOfAdd(XorIdentity(s9))))
=============================================================================
