------------------------------- MODULE Reassoc -------------------------------
(***************************************************************************)
(* Reassociation, Proc::opt_reassoc (src/src/opt-reassoc.cpp): sums and    *)
(* products are brought into a canonical order, constants and dominating   *)
(* operands first, rewriting an operand in place when this is its only     *)
(* use.  In the comments below, the operation is the outer one, its first  *)
(* operand (a + b) or (a - b), its second X; a < b means a dominates b.    *)
(***************************************************************************)
EXTENDS Fold

(* Mutant of firstOpDominates: an operation dominates itself.              *)
firstOpDominatesOrSame(op1, op2) == op1 <= op2

(* "we want strict dominance only"                                         *)
firstOpDominates(op1, op2) == op1 < op2

Rewrite(s, k, inner, outer) ==
    [s EXCEPT !.ops = [@ EXCEPT ![Cur(s).in[k]] = inner, ![s.at] = outer],
              !.progress = TRUE]

(* Operands of the first operand, and the second operand.                  *)
A(s) == N(s, 1).in[1]
B(s) == N(s, 1).in[2]
X(s) == Cur(s).in[2]

Binary(c, x, y) == [Blank EXCEPT !.op = c, !.in = <<x, y>>]
WithImm(c, x, imm) == [Blank EXCEPT !.op = c, !.hasImm = TRUE, !.in = <<x>>, !.imm = imm]

(* (x inner y) outer z                                                     *)
Nest(s, inner, x, y, outer, z) ==
    Rewrite(s, 1, Binary(inner, x, y), Binary(outer, Cur(s).in[1], z))

(* outer(inner(a, b), X) with a # b and no other use of the operand.       *)
Nested(s, outer, inner) ==
    /\ Is(Cur(s), outer) /\ InIs(s, 1, inner) /\ SoleUse(s, 1)
    /\ A(s) # B(s)

(* (b + a) -> (a + b): no progress.                                        *)
Reorder(s, op) ==
    IF Is(Cur(s), op) /\ firstOpDominates(Cur(s).in[1], Cur(s).in[2])
    THEN [s EXCEPT !.ops[s.at].in = <<@[2], @[1]>>]
    ELSE s

(* (a+b)+(c+d) -> (a+c)+(b+d), or (a-b)+(c-d) -> (a+c)-(b+d)               *)
Exchange(s, op, inner, outer) ==
    LET n == N(s, 1)
        m == N(s, 2)
    IN  IF /\ Is(Cur(s), op) /\ InIs(s, 1, inner) /\ InIs(s, 2, inner)
           /\ SoleUse(s, 1) /\ SoleUse(s, 2)
           /\ firstOpDominates(n.in[2], m.in[1])
        THEN [s EXCEPT !.progress = TRUE,
                       !.ops = [@ EXCEPT ![Cur(s).in[1]] = Binary(op, n.in[1], m.in[1]),
                                         ![Cur(s).in[2]] = Binary(op, n.in[2], m.in[2]),
                                         ![s.at].op = outer]]
        ELSE s

(* (a+b)+(c+d) -> ((c+d)+b)+a when (c+d) dominates a, and the same with    *)
(* other operations inside.                                                *)
Rotate(s, op, inner, second) ==
    IF /\ Nested(s, op, inner) /\ SoleUse(s, 2)
       /\ second = "any" \/ InIs(s, 2, second)
       /\ firstOpDominates(X(s), A(s))
    THEN Nest(s, inner, X(s), B(s), op, A(s))
    ELSE s

(* (a+b)+X -> (a+X)+b when X < b, and when X = a; also with (a-b)+X,       *)
(* (a+b)-X and (a-b)-X: the operations change places.                      *)
InsteadOfB(s, outer, inner) == Nest(s, outer, A(s), X(s), inner, B(s))
PastB(s, outer, inner) ==
    IF Nested(s, outer, inner) /\ firstOpDominates(X(s), B(s))
    THEN InsteadOfB(s, outer, inner) ELSE s
JoinA(s, outer, inner) ==
    IF Nested(s, outer, inner) /\ X(s) = A(s) THEN InsteadOfB(s, outer, inner) ELSE s

(* (a+b)+X -> (X+b)+a when X < a, and when X = b; also with (a-b)+X.       *)
InsteadOfA(s, add, inner) == Nest(s, inner, X(s), B(s), add, A(s))
PastA(s, add, inner) ==
    IF Nested(s, add, inner) /\ firstOpDominates(X(s), A(s))
    THEN InsteadOfA(s, add, inner) ELSE s
JoinB(s, add, inner) ==
    IF Nested(s, add, inner) /\ X(s) = B(s) THEN InsteadOfA(s, add, inner) ELSE s

-----------------------------------------------------------------------------
(* doReassoc(opcode, opcodeI)                                              *)

(* (a+C1)+(b+C2) -> ((b+C2)+C1)+a                                          *)
NestConstants(s, op) ==
    IF /\ Is(Cur(s), op) /\ InIsI(s, 1, op) /\ InIsI(s, 2, op)
       /\ SoleUse(s, 1) /\ SoleUse(s, 2)
       /\ ~IsI(s.ops[A(s)], op)
    THEN Rewrite(s, 1, [N(s, 1) EXCEPT !.in = <<X(s)>>],
                       [Cur(s) EXCEPT !.in = <<@[1], A(s)>>])
    ELSE s

(* (a+b)+C -> (b+C)+a: "immediates always dominate everything"             *)
ConstantInside(s, op) ==
    IF IsI(Cur(s), op) /\ InIs(s, 1, op) /\ SoleUse(s, 1) /\ A(s) # B(s)
    THEN Rewrite(s, 1, WithImm(op, B(s), Cur(s).imm), Binary(op, Cur(s).in[1], A(s)))
    ELSE s
(* (a+C)+a -> (a+a)+C                                                      *)
ConstantOutside(s, op) ==
    IF Is(Cur(s), op) /\ InIsI(s, 1, op) /\ SoleUse(s, 1) /\ X(s) = A(s)
    THEN Rewrite(s, 1, Binary(op, A(s), X(s)), WithImm(op, Cur(s).in[1], N(s, 1).imm))
    ELSE s

WithoutConstants(s, op) ==
    JoinA(JoinB(PastA(PastB(Rotate(Exchange(Reorder(s, op), op, op, op),
                                   op, op, op), op, op), op, op), op, op), op, op)
WithConstants(s, op) == ConstantOutside(ConstantInside(NestConstants(s, op), op), op)

doReassoc(s, op) ==
    IF Cur(s).op = op THEN WithConstants(WithoutConstants(s, op), op) ELSE s

-----------------------------------------------------------------------------
(* reassocSub(opAdd, opSub)                                                *)

(* (a+b)-X -> (b-X)+a when X < a                                           *)
SubPastA(s, add, sub) ==
    IF Nested(s, sub, add) /\ firstOpDominates(X(s), A(s))
    THEN Nest(s, sub, B(s), X(s), add, A(s))
    ELSE s
(* (a-b)-X -> a-(X+b) when X < a, and when X = b                           *)
SubtractSum(s, add, sub, when) ==
    IF Nested(s, sub, sub) /\ when
    THEN Rewrite(s, 1, Binary(add, X(s), B(s)), Binary(sub, A(s), Cur(s).in[1]))
    ELSE s
SubSubPastA(s, add, sub) == SubtractSum(s, add, sub, firstOpDominates(X(s), A(s)))
SubSubJoinB(s, add, sub) == SubtractSum(s, add, sub, X(s) = B(s))
(* a-(a-b) -> b-(a-a)                                                      *)
SubJoin(s, sub) ==
    IF /\ Is(Cur(s), sub) /\ InIs(s, 2, sub) /\ SoleUse(s, 2)
       /\ N(s, 2).in[1] # N(s, 2).in[2]
       /\ N(s, 2).in[1] = Cur(s).in[1]
    THEN Rewrite(s, 2, Binary(sub, Cur(s).in[1], Cur(s).in[1]),
                       Binary(sub, N(s, 2).in[2], X(s)))
    ELSE s

(* What dominates goes inside; the same operand twice goes inside.         *)
Rotated(s, add, sub) ==
    Rotate(Rotate(Exchange(Reorder(s, add), add, sub, sub), add, add, sub), add, sub, "any")
ByDominance(s, add, sub) ==
    SubSubPastA(PastB(SubPastA(PastA(PastB(PastB(
        s, sub, add), add, sub), add, sub), add, sub), sub, sub), add, sub)
ByRepetition(s, add, sub) ==
    SubJoin(JoinA(JoinA(SubSubJoinB(JoinB(
        s, add, sub), add, sub), add, sub), sub, sub), sub)

(* Mutant of Cancel: the uses are those of the old operands.               *)
CancelUncounted(s, op, c1, c2, i, j) ==
    IF Is(Cur(s), op) /\ InIs(s, 1, c1) /\ InIs(s, 2, c2) /\ N(s, 1).in[i] = N(s, 2).in[j]
    THEN Put(s, [Cur(s) EXCEPT !.in = <<N(s, 1).in[3 - i], N(s, 2).in[3 - j]>>])
    ELSE s

UsesIn(o, v) == (IF o.in[1] = v THEN 1 ELSE 0) + (IF o.in[2] = v THEN 1 ELSE 0)
Recounted(s, o) ==
    [s EXCEPT !.nUse = [v \in DOMAIN @ |-> @[v] - UsesIn(Cur(s), v) + UsesIn(o, v)]]

(* simplify (a-b)+(b+c) -> (a + c) and the like: operand i of the first    *)
(* operand and operand j of the second cancel.  The only rule that has to  *)
(* keep the uses up to date: the others only move them.                    *)
Cancel(s, op, c1, c2, i, j) ==
    LET n == N(s, 1)
        m == N(s, 2)
        o == [Cur(s) EXCEPT !.in = <<n.in[3 - i], m.in[3 - j]>>]
    IN  IF Is(Cur(s), op) /\ InIs(s, 1, c1) /\ InIs(s, 2, c2) /\ n.in[i] = m.in[j]
        THEN Put(Recounted(s, o), o)
        ELSE s

CancelInAdd(s, add, sub) ==
    Cancel(Cancel(Cancel(Cancel(s, add, sub, add, 2, 1),
        add, sub, add, 2, 2), add, add, sub, 2, 2), add, add, sub, 1, 2)
CancelInSub(s, add, sub) ==
    Cancel(Cancel(Cancel(Cancel(s, sub, add, add, 1, 1),
        sub, add, add, 2, 1), sub, add, add, 2, 1), sub, add, add, 2, 2)

reassocSub(s, add, sub) ==
    IF Cur(s).op \in {add, sub}
    THEN CancelInSub(CancelInAdd(ByRepetition(ByDominance(Rotated(s, add, sub),
            add, sub), add, sub), add, sub), add, sub)
    ELSE s

-----------------------------------------------------------------------------
(* (a+b)-C -> (a-C)+b, (a-b)+C -> (a+C)-b, (a-b)-C -> (a-C)-b              *)
ImmediateInside(s, op, inner) ==
    IF IsI(Cur(s), op) /\ InIs(s, 1, inner) /\ SoleUse(s, 1)
    THEN Rewrite(s, 1, WithImm(op, A(s), Cur(s).imm), Binary(inner, Cur(s).in[1], B(s)))
    ELSE s

ReassocInt(s0) ==
    LET s1 == ImmediateInside(ImmediateInside(s0, "isub", "iadd"), "iadd", "isub")
        s2 == Rotate(ImmediateInside(s1, "isub", "isub"), "imul", "imul", "idiv")
        s3 == doReassoc(doReassoc(reassocSub(s2, "iadd", "isub"), "iadd"), "imul")
    IN  doReassoc(doReassoc(doReassoc(s3, "iand"), "ixor"), "ior")

(* "if(unsafeOpt)"                                                         *)
ReassocDbl(s) ==
    LET t == doReassoc(reassocSub(s, "dadd", "dsub"), "dadd")
    IN  doReassoc(reassocSub(t, "dmul", "ddiv"), "dmul")

ReassocOp(s) ==
    IF s.nUse[s.at] = 0 THEN s
    ELSE IF s.unsafe THEN ReassocDbl(ReassocInt(s)) ELSE ReassocInt(s)
=============================================================================
