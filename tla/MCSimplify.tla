----------------------------- MODULE MCSimplify -----------------------------
EXTENDS Simplify
LOCAL INSTANCE SequencesExt

(* An operand is a value (V(1) to V(3) the arguments, then the results in  *)
(* their order) or a constant, loaded where it is needed; an instruction   *)
(* is an operation with its operands.                                      *)
V(k) == <<"v", k>>
C(n) == <<"c", n>>
D(n) == <<"d", n>>
I0(op) == [op |-> op, in |-> << >>, label |-> << >>]
I1(op, x) == [op |-> op, in |-> <<x>>, label |-> << >>]
I2(op, x, y) == [op |-> op, in |-> <<x, y>>, label |-> << >>]

(* A jump passes result k to the exit; if that is the condition of the jump*)
(* the condition has two uses, and stays.                                  *)
Branch(op, in, k) == [op |-> op, in |-> in, label |-> <<"exit", "next">>, passes |-> k]

Emit(unsafe, q, i) ==
    LET Operand(p, x) ==        \* p.in, with the constants before it
            IF x[1] = "v" THEN [p EXCEPT !.in = Append(@, p.var[x[2]])]
            ELSE [p EXCEPT !.ops = Append(@, IF x[1] = "c" THEN Lci(x[2])
                                             ELSE [Lci(Number(unsafe, x[2])) EXCEPT !.op = "lcd"]),
                           !.in = Append(@, Len(p.ops) + 1)]
        p == FoldLeft(Operand, [q EXCEPT !.in = << >>], i.in)
        o == [Blank EXCEPT !.op = i.op, !.in = p.in, !.label = i.label,
                           !.jump = i.label # << >>,
                           !.alt = IF i.label = << >> THEN 0 ELSE p.var[i.passes]]
    IN  [p EXCEPT !.ops = Append(@, o),
                  !.var = IF HasOutput(o) THEN Append(@, Len(p.ops) + 1) ELSE @]

Assemble(unsafe, script) ==
    FoldLeft(LAMBDA q, i : Emit(unsafe, q, i),
             [ops |-> [k \in 1..3 |-> [Blank EXCEPT !.op = "arg", !.imm = k]],
              var |-> <<1, 2, 3>>, in |-> << >>], script).ops

-----------------------------------------------------------------------------
(* Integers.                                                               *)
Ret(r) == I1("iret", V(r))
Alu == {"iadd", "isub", "imul", "iand", "ior", "ixor"}
Shifts == {"ishl", "ishr", "ushr"}
Some == { C(n) : n \in {-8, -1, 0, 1, 2, 100} }

(* Two operations, the second on the result of the first.                  *)
First == { I2(op, V(1), y) : op \in Alu, y \in {V(1), V(2)} \cup Some }
    \cup { I2(op, V(1), C(n)) : op \in Shifts, n \in {0, 1, 5} }
    \cup { I1(op, V(1)) : op \in {"ineg", "inot"} }
Second == { I2(op, V(4), y) : op \in Alu, y \in {V(1), V(2), V(4)} \cup Some }
     \cup { I2(op, x, V(4)) : op \in Alu, x \in {V(1), V(2)} \cup Some }
     \cup { I2(op, V(4), C(n)) : op \in Shifts, n \in {1, 7} }
     \cup { I1(op, V(4)) : op \in {"ineg", "inot"} }
Chains == { <<x, y, Ret(5)>> : x \in First, y \in Second }

(* Three operations with constants, the first used again.                  *)
Threes ==
    { <<I2(f, V(1), x), I2(g, V(4), y), I2(h, V(5), z), Ret(6)>> :
        f \in {"iadd", "isub", "ishl"}, x \in {C(1), C(3)},
        g \in {"iadd", "isub", "imul", "ishl"}, y \in {C(2), V(2)},
        h \in {"iadd", "isub", "imul", "ishl"}, z \in {C(1), V(2), V(4)} }

(* Sums of sums, for any associative operation.                            *)
Sums(ops) ==
    { <<I2(o[1], V(p[1]), V(p[2])), I2(o[2], V(q[1]), V(q[2])), I2(o[3], V(4), V(5)), Ret(6)>> :
        o \in ops \X ops \X ops, p \in {<<1, 2>>, <<2, 1>>, <<1, 1>>}, q \in (1..3) \X (1..3) }

(* Sums of which one operand is computed after the first sum.              *)
LateSums(ops) ==
    { <<I2(o[1], V(p[1]), V(p[2])), I1("inot", V(3)), I2(o[2], V(q[1]), V(q[2])),
        I2(o[3], V(r[1]), V(r[2])), Ret(7)>> :
        o \in ops \X ops \X ops, p \in {<<1, 2>>, <<2, 1>>},
        q \in {<<1, 5>>, <<5, 1>>, <<2, 5>>}, r \in {<<4, 6>>, <<6, 4>>, <<4, 5>>} }
Nests(ops) ==
    { <<I2(o[1], V(p[1]), V(p[2])), I2(o[2], V(4), V(q)), I2(o[3], V(5), V(r)), Ret(6)>> :
        o \in ops \X ops \X ops, p \in {<<1, 2>>, <<2, 3>>, <<3, 1>>}, q \in 1..3, r \in 1..4 }
SumsOfConstants ==
    { <<I2(f, V(1), C(1)), I2(g, V(x), C(n)), I2(f, V(4), V(5)), Ret(6)>> :
        f \in Alu, g \in Alu, x \in {2, 4}, n \in {2, 7} }

(* Tests, and jumps on them that pass a value to the exit.  The product by *)
(* zero keeps a jump from testing for zero before the test is inverted.    *)
Tests == { I2(op, V(1), y) : op \in IntCompares, y \in {V(2), C(1), C(100)} }
    \cup { I2(op, C(-2), V(2)) : op \in IntCompares }
    \cup { I2(op, C(3), C(n)) : op \in IntCompares, n \in {3, 100} }
Jumps == { <<t, Branch(j, <<V(4)>>, k), Ret(2)>> :
                t \in Tests, j \in {"jz", "jnz"}, k \in {2, 4} }
    \cup { <<t, I2(i, V(4), C(0)), Branch(j, <<V(5)>>, 5), Ret(4)>> :
                t \in Tests, i \in {"ieq", "ine"}, j \in {"jz", "jnz"} }
    \cup { <<t, I2(i, V(4), C(0)), I2("imul", V(5), C(0)), Branch(j, <<V(5)>>, 6), Ret(2)>> :
                t \in { x \in Tests : x.op \in Ordered },
                i \in {"ieq", "ine"}, j \in {"jz", "jnz"} }
    \cup { <<I1("ineg", V(1)), I1("ineg", V(4)), Branch(j, <<V(5), x>>, 5), Ret(4)>> :
                j \in IntCompares, x \in {V(2), C(1)} }
    \cup { <<Branch(j, <<C(3), y>>, 3), Ret(2)>> :
                j \in IntCompares, y \in {V(2), C(3), C(100)} }
    \cup { <<Branch(j, <<C(n)>>, 3), Ret(2)>> : j \in {"jz", "jnz"}, n \in {0, 100} }

(* A division by zero, even of constants, is a trap.                       *)
Divisions ==
    { <<I2(op, x, y), Ret(4)>> :
        op \in {"idiv", "imod"}, x \in {V(1), C(7), C(-100)}, y \in {V(2), C(0), C(2), C(-3)} }
    \cup
    { <<I2(op, x, y), Ret(4)>> :
        op \in {"udiv", "umod"}, x \in {V(1), C(7), C(-100)}, y \in {V(2), C(1), C(3), C(-3)} }
    \cup
    { <<I2("imul", V(2), V(3)), I2("idiv", V(1), x), I2("imul", V(4), V(5)), Ret(6)>> :
        x \in {V(2), C(3)} }
    \cup
    { <<I2("idiv", V(1), x), I1("inot", V(3)), I2("imul", V(5), V(3)), I2("imul", V(6), V(4)), Ret(7)>> :
        x \in {V(2), C(3)} }

Products == { <<I2("imul", V(1), C(m)), I2("imul", V(4), C(n)), Ret(5)>> :
                m \in {-3, 3, 7}, n \in {-2, 2, 3, 7} }

(* Stores and loads at a sum, which other operations may use, too.         *)
Memory ==
    { <<I2("iadd", V(1), y), I2("si", V(2), V(4)), I2("iadd", V(3), z), I1("li", V(p)), Ret(6)>> :
        y \in {V(2), C(1)}, z \in {V(1), V(4)}, p \in {4, 5} }

(* What is computed from the stack block, taken from constants.            *)
StackSums(constants) ==
    { <<I0("alloc"), I2(op, V(4), y), I2("isub", C(n), V(5)), Ret(6)>> :
        op \in {"imul", "isub", "idiv"}, y \in {V(1), V(4)}, n \in constants }

IntPrograms ==
    Chains \cup Threes \cup SumsOfConstants \cup Jumps \cup Divisions \cup Products
    \cup Memory \cup StackSums({0})
    \cup UNION { Sums(ops) \cup LateSums(ops) \cup Nests(ops) :
                    ops \in {{"iadd", "isub"}, {"imul"}, {"ixor"}, {"iand"}, {"ior"}} }

-----------------------------------------------------------------------------
(* Floating point numbers, at either level.                                *)
DblTests ==
    { <<I2("dadd", V(1), V(2)), I2(op, V(4), y), Branch(j, <<V(5)>>, 5), Ret(5)>> :
        op \in DblCompares, y \in {V(1), D(1)}, j \in {"jz", "jnz"} }
    \cup
    { <<I2("dadd", V(1), V(2)), I2(op, V(4), y), Branch(j, <<V(5)>>, 4), Ret(2)>> :
        op \in DblCompares, y \in {V(1), D(1)}, j \in {"jz", "jnz"} }
    \cup
    { <<I2(op, V(1), y), I2("ieq", V(4), C(0)), Ret(5)>> :
        op \in DblCompares, y \in {V(2), D(3)} }
DblChains ==
    { <<I2(f, V(1), x), I2(g, V(2), V(4)), I2("dlt", V(5), D(2)), Ret(6)>> :
        f \in {"dadd", "dsub", "dmul"}, g \in {"dadd", "dsub", "dmul"},
        x \in { D(n) : n \in {-1, 0, 1} } \cup {V(1)} }
    \cup
    { <<I2(f, D(2), D(3)), I1("dneg", V(4)), I1("dneg", V(x)), I2(g, V(5), V(6)), Ret(7)>> :
        f \in {"dadd", "dsub", "dmul", "ddiv"}, g \in {"dadd", "dsub"}, x \in {1, 5} }
DblPrograms == DblTests \cup DblChains
    \cup UNION { Sums(ops) \cup Nests(ops) : ops \in {{"dadd", "dsub"}, {"dmul", "ddiv"}} }

IntArgs == { <<-128, 3, 1>>, <<-1, -128, 9>>, <<0, -5, 127>>, <<77, 77, -2>>, <<6, -1, 40>> }
DblArgs == { <<1, 2, 3>>, <<2, 2, 1>>, <<3, 1, 4>>, <<4, 3, 2>> }

Of(unsafe, programs, args) ==
    { [ops |-> Assemble(unsafe, c), unsafe |-> unsafe, args |-> args] : c \in programs }

SimplifyProcs == Of(FALSE, IntPrograms, IntArgs)
           \cup Of(FALSE, DblPrograms, DblArgs) \cup Of(TRUE, DblPrograms, DblArgs)

(* Unsigned division by a constant power of two.                           *)
DivideProcs ==
    Of(FALSE, { <<I2("iadd", V(1), C(n)), I2(op, V(4), C(4)), Ret(5)>> : op \in {"udiv", "umod"}, n \in 0..60 }, IntArgs)

(* A constant less something the stack block is multiplied or divided to.  *)
StackProcs == Of(FALSE, StackSums({5}), IntArgs)

(* A jump on the test whether a value is zero.                             *)
ZeroTestProcs ==
    Of(FALSE, { <<I2(i, V(1), C(0)), Branch(j, <<V(4)>>, 2), Ret(2)>> :
                  i \in {"ieq", "ine"}, j \in {"jz", "jnz"} }, IntArgs)

(* A sum that gets a second user by renaming.                              *)
RenamedProcs ==
    Of(FALSE, { <<I2("iadd", V(1), C(1)), I1("ineg", V(4)), I1("ineg", V(5)),
                  I2("ishl", V(6), C(n)), I2("imul", V(7), V(5)), Ret(8)>> : n \in 1..20 }, IntArgs)
=============================================================================
