------------------------------- MODULE MCX64 -------------------------------
(***************************************************************************)
(* Programs for X64Select: every operation with registers of every kind of *)
(* encoding, and sequences that share constants, slots and memory.         *)
(***************************************************************************)
EXTENDS X64Select

O(op, reg, in, imm) ==
    [op |-> op, jump |-> FALSE, reg |-> reg, in |-> in, imm |-> imm, bits |-> WordBits,
     scc |-> 0, spill |-> FALSE]
Wide(o, bits) == [o EXCEPT !.bits = bits]
Jump(o) == [o EXCEPT !.jump = TRUE]
Spill(o, s) == [o EXCEPT !.spill = TRUE, !.scc = s]
Reload(reg, bits, s) == [Wide(O("reload", reg, << >>, << >>), bits) EXCEPT !.scc = s]
Single(set) == { <<o>> : o \in set }

r8 == 8
r12 == 12
r13 == 13
Some == {rax, rcx, rdx, rbp, rsi, r12, r13}
Few == {rax, rbp, rsi, r12}
SomeX == {16, 20, 25, 29}
Widths == {ImmBits, WordBits}
DivOp == {"idiv", "imod", "udiv", "umod"}

(* Immediates: multiples of what LEA does, and the limits of each form.    *)
Imms == {-128, -9, -8, -1, 0, 1, 2, 3, 5, 7, 8, 10, 36, 127}

Binaries ==
    { O(op, r, <<x, y>>, << >>) :
        op \in {"iadd", "isub", "imul", "iand", "ior", "ixor"}, r \in Some, x \in Some, y \in Some }
    \cup { O("iadd", r, <<rsp, y>>, << >>) : r \in Some, y \in Some }
    \cup { O(op, r, <<x, rcx>>, << >>) : op \in Shift, r \in Some, x \in Some }
    \cup { O(op, r, <<rax, y>>, << >>) : op \in DivOp, r \in {rax, rdx}, y \in Some }
    \cup { O(op, r, <<x>>, << >>) : op \in {"ineg", "inot"}, r \in Some, x \in Some }

WithImm ==
    { O(op, r, <<x>>, <<n>>) :
        op \in {"iadd", "isub", "imul", "iand", "ior", "ixor"}, r \in Some,
        x \in Some \cup {rsp}, n \in Imms }
    \cup { O(op, r, <<x>>, <<n>>) : op \in Shift, r \in Few, x \in Few, n \in {0, 1, 5, 15} }

IntComparisons ==
    { O(op, r, <<x, y>>, << >>) : op \in IntTests, r \in {rax, rsi, r12}, x \in Few, y \in Few }
    \cup { O(op, r, <<x>>, <<n>>) : op \in IntTests, r \in {rax, rsi, r12}, x \in Few, n \in {-128, -8, 0, 7, 8} }
    \cup { Jump(O(op, 0, <<x, y>>, << >>)) : op \in IntTests, x \in Few, y \in Few }
    \cup { Jump(O(op, 0, <<x>>, <<n>>)) : op \in IntTests, x \in Few, n \in {-128, -8, 0, 7, 8} }
    \cup { Jump(O(op, 0, <<x>>, << >>)) : op \in {"jz", "jnz"}, x \in Some }

Numbers ==
    { Wide(O(op, r, <<x, y>>, << >>), b) :
        op \in {"dadd", "dsub", "dmul", "ddiv"}, r \in SomeX, x \in SomeX, y \in SomeX, b \in Widths }
    \cup { Wide(O(op, r, <<x>>, << >>), b) :
             op \in {"dneg", "dabs", "cvt", "rename"}, r \in SomeX, x \in SomeX, b \in Widths }
    \cup { Wide(O("ci2d", r, <<x>>, << >>), b) : r \in SomeX, x \in Some, b \in Widths }
    \cup { Wide(O("cd2i", r, <<x>>, << >>), b) : r \in Some, x \in SomeX, b \in Widths }
    \cup { Jump(O(op, 0, <<x, y>>, << >>)) : op \in DblCompares, x \in SomeX, y \in SomeX }

Casts ==
    { Wide(O(op, r, <<x>>, << >>), b) :
        op \in {"sx", "zx"}, r \in Some, x \in Some, b \in {ByteBits, HalfBits, ImmBits} }
    \cup { Wide(O("rename", r, <<x>>, << >>), 0) : r \in Some, x \in Some }
    \cup { O(op, rax, << >>, <<n>>) :
             op \in {"lci", "iretI"}, n \in {0, 1, 127, 128, 255, 256, 32767, -1, -128, -129, -32768} }

(* A store and a load from the same place.                                 *)
Access(op, x, address, n, b) == Wide(O(op, 0, <<x>> \o address, <<n>>), b)
Addresses == { <<b>> : b \in {rax, rbp, r12, r13} }
        \cup { <<b, i>> : b \in {rax, rbp, r12, r13}, i \in {rax, rbp, r12} }
Offsets == {-128, -8, 0, 7, 8, 127}
IntLoad == ({"li"} \X {ByteBits, HalfBits, ImmBits, WordBits})
           \cup ({"lu"} \X {ByteBits, HalfBits, ImmBits})
Memories ==
    { <<Access("si", x, a, n, b), Wide(O(load[1], r, a, <<n>>), load[2])>> :
        x \in {rdx, rsi}, a \in Addresses, n \in Offsets, load \in IntLoad,
        r \in {rsi, r8}, b \in {ByteBits, HalfBits, ImmBits, WordBits} }
    \cup { <<Access("sf", x, a, n, b), Wide(O("lf", 17, a, <<n>>), b)>> :
             x \in {16, 29}, a \in { a \in Addresses : Len(a) = 1 }, n \in Offsets, b \in Widths }
    \cup { <<Access(op, x, a, n, WordBits)>> :
             op \in {"si", "sf"}, x \in {rsi, 29}, n \in Offsets, a \in {<<rsp>>, <<rsp, rax>>, <<rsp, rbp>>} }

(* Values that go to a slot and come back.                                 *)
Spills ==
    { <<Spill(O("isub", rax, <<rsi, rbp>>, << >>), s), Spill(O("dmul", 16, <<17, 29>>, << >>), 1 - s),
        O("lci", rax, << >>, <<7>>), O("lcd", 16, << >>, <<2>>),
        Reload(x, 0, s), Reload(y, WordBits, 1 - s)>> : s \in 0..1, x \in Some, y \in SomeX }

(* Constants of each size, again and together.                             *)
Constants ==
    { O("lcd", r, << >>, <<n>>) : r \in {16, 29}, n \in {0, 1, -3} }
    \cup { O("dneg", 17, <<17>>, << >>), O("dabs", 24, <<17>>, << >>), O("dabs", 17, <<17>>, << >>),
           O("dneg", 18, <<29>>, << >>), O("iadd", rax, <<rax>>, <<100>>) }
Pools == { <<x, y, z>> : x \in Constants, y \in Constants, z \in Constants }

SelectPrograms ==
    Single(Binaries \cup WithImm \cup IntComparisons \cup Numbers \cup Casts)
    \cup Memories \cup Spills \cup Pools

(* Small integers, with a zero and two that are equal; and large ones.     *)
SelectInputs ==
    { [gpr |-> [r \in 0..15 |-> IF r = rsp THEN 1024 ELSE IF r = r12 THEN -1 ELSE r - 1],
       xmm |-> [r \in 0..15 |-> IF r \in {4, 9} THEN -3 ELSE 1 + (r % 4)]],
      [gpr |-> [r \in 0..15 |-> IF r = rsp THEN 2048 ELSE IF r = rcx THEN 21 ELSE Signed(r * 10007 - 5000)],
       xmm |-> [r \in 0..15 |-> IF r % 3 = 0 THEN -1 ELSE 2]] }

-----------------------------------------------------------------------------
(* A comparison of floating point numbers as a value.                      *)
NumberTests == Single({ O(op, rax, <<16, 17>>, << >>) : op \in DblCompares })

(* The stack pointer as an index.                                          *)
StackIndex == Single({ O("iadd", rax, <<rdx, rsp>>, << >>) })
=============================================================================
