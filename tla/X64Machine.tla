----------------------------- MODULE X64Machine -----------------------------
(***************************************************************************)
(* A machine that runs the instructions of module X64Asm: what the code in *)
(* src/ relies on of the x64 instruction set.  An xmm register is its low  *)
(* word.  Memory is what it was except where something has been stored; an *)
(* address stands for itself only, so accesses must not overlap.           *)
(*                                                                         *)
(* Floating point numbers are those of OpValues: small, or NaN.  In a      *)
(* register they have a sign bit and a magnitude; any other bits are NaN.  *)
(***************************************************************************)
EXTENDS X64Asm

CONSTANT HalfBits       \* 16 in the code

ASSUME WidthsAssumption == WordBits = 16 /\ HalfBits \in (ByteBits + 1)..(ImmBits - 1)

Bits(v, n) == Unsigned(v) % 2 ^ n               \* zero-extended
Sized(v, n) == Narrow(Bits(v, n), n)            \* sign-extended

(* The low bits of a word replaced.                                        *)
Merged(old, v, n) == Signed(Unsigned(old) - Bits(old, n) + Bits(v, n))

-----------------------------------------------------------------------------
(* Numbers in "bits" bits: the sign, and tag + 2^k * magnitude.            *)
Scale(bits) == IF bits = WordBits THEN 16 ELSE 4
Tag(bits) == IF bits = WordBits THEN 3 ELSE 1
NaNCode(bits) == 2 ^ (bits - 1) - 1

FloatBits(x, bits) ==
    IF x = NaN THEN NaNCode(bits)
    ELSE IF x = 0 THEN 0
    ELSE Signed((IF x < 0 THEN 2 ^ (bits - 1) - x * Scale(bits) ELSE x * Scale(bits))
                + Tag(bits))

FloatOf(v, bits) ==
    LET code == Bits(v, bits) % 2 ^ (bits - 1)
        magnitude == code \div Scale(bits)
        sign == IF Bits(v, bits) = code THEN 1 ELSE -1
    IN  IF code = 0 THEN 0
        ELSE IF code % Scale(bits) = Tag(bits) /\ magnitude \in 1..4 THEN sign * magnitude
        ELSE NaN

-----------------------------------------------------------------------------
(* Operands.                                                               *)
Content(address) == Signed(address * 37 + 4099)

Load(m, address, bits) ==
    Bits(IF address \in DOMAIN m.mem THEN m.mem[address] ELSE Content(address), bits)

Store(m, address, v, bits) ==
    [m EXCEPT !.mem = (address :> Merged(Load(m, address, WordBits), v, bits)) @@ @]

Trap(m, why) == [m EXCEPT !.status = why]

RegField(i) == i.reg + 8 * i.r
RmField(i) == i.rm + 8 * i.b
InRegister(i) == i.mod = 3
AtRIP(i) == i.mod = 0 /\ i.rm = 5

Address(m, i) ==
    LET base == IF i.sib = << >> THEN m.gpr[RmField(i)]
                ELSE IF i.sib[1] = 5 /\ i.mod = 0 THEN 0
                ELSE m.gpr[i.sib[1] + 8 * i.b]
        index == IF i.sib = << >> \/ i.sib[2] + 8 * i.x = 4 THEN 0
                 ELSE m.gpr[i.sib[2] + 8 * i.x] * 2 ^ i.sib[3]
    IN  Signed(base + index + i.disp)

(* A constant, if that is what is there.                                   *)
DataAt(m, i, bits) ==
    LET p == m.pc + i.disp
        unit(n) == m.code[n].imm[1]
        units == bits \div ImmBits
    IN  IF p \in 1..(Len(m.code) - units + 1) /\ \A n \in p..(p + units - 1) : m.code[n].op = << >>
        THEN unit(p) + (IF units = 2 THEN unit(p + 1) * 2 ^ ImmBits ELSE 0)
        ELSE NaNCode(WordBits)

Operand(m, i, bits) ==
    IF InRegister(i) THEN Bits(m.gpr[RmField(i)], bits)
    ELSE IF AtRIP(i) THEN DataAt(m, i, bits)
    ELSE Load(m, Address(m, i), bits)

XmmOperand(m, i, bits) ==
    IF InRegister(i) THEN Bits(m.xmm[RmField(i)], bits) ELSE Operand(m, i, bits)

Size(i) == IF i.w THEN WordBits ELSE ImmBits

(* Writing 32 bits of a register clears the rest.                          *)
SetReg(m, r, v, bits) == [m EXCEPT !.gpr[r] = Signed(Bits(v, bits))]

(* Without a REX prefix, byte registers 4 to 7 are the second bytes of the *)
(* first four.                                                             *)
ByteReg(m, i, r) ==
    IF i.rex \/ r < 4 THEN Bits(m.gpr[r], ByteBits)
    ELSE Bits(m.gpr[r - 4], 2 * ByteBits) \div 2 ^ ByteBits

SetByteReg(m, i, r, v) ==
    IF i.rex \/ r < 4 THEN [m EXCEPT !.gpr[r] = Merged(@, v, ByteBits)]
    ELSE [m EXCEPT !.gpr[r - 4] =
            Merged(@, Bits(@, ByteBits) + v * 2 ^ ByteBits, 2 * ByteBits)]

-----------------------------------------------------------------------------
(* Flags: what was compared, until the next instruction that sets them.    *)
NoFlags == [cf |-> FALSE, zf |-> FALSE, lt |-> FALSE, known |-> FALSE]

Compared(m, x, y) ==
    [m EXCEPT !.flags = [cf |-> Unsigned(x) < Unsigned(y), zf |-> x = y,
                         lt |-> x < y, known |-> TRUE]]

(* UCOMISx: "unordered" looks like below and equal.                        *)
Ordering(m, x, y) ==
    LET unordered == NaN \in {x, y}
    IN  [m EXCEPT !.flags = [cf |-> unordered \/ x < y, zf |-> unordered \/ x = y,
                             lt |-> FALSE, known |-> TRUE]]

Condition(f, cc) ==
    LET even == CASE cc \in {2, 3} -> f.cf
                  [] cc \in {4, 5} -> f.zf
                  [] cc \in {6, 7} -> f.cf \/ f.zf
                  [] cc \in {12, 13} -> f.lt
                  [] cc \in {14, 15} -> f.lt \/ f.zf
    IN  even = (cc % 2 = 0)

-----------------------------------------------------------------------------
(* Instructions by their opcode.                                           *)
Alu == (\h03 :> "iadd") @@ (\h2B :> "isub") @@ (\h23 :> "iand") @@ (\h0B :> "ior")
       @@ (\h33 :> "ixor")
AluImm == (0 :> "iadd") @@ (1 :> "ior") @@ (4 :> "iand") @@ (5 :> "isub") @@ (6 :> "ixor")
Shifts == (4 :> "ishl") @@ (5 :> "ushr") @@ (7 :> "ishr")
Sse == (\h58 :> "dadd") @@ (\h59 :> "dmul") @@ (\h5C :> "dsub") @@ (\h5E :> "ddiv")

Unflagged(m) == [m EXCEPT !.flags = NoFlags]

DivideBy(m, y, signed) ==
    LET x == m.gpr[rax]
        c == IF signed THEN <<"idiv", "imod">> ELSE <<"udiv", "umod">>
        extended == m.gpr[rdx] = IF signed /\ x < 0 THEN -1 ELSE 0
    IN  IF y = 0 \/ ~extended \/ (signed /\ Quotient(x, y) # Signed(Quotient(x, y)))
        THEN Trap(m, "trapped")
        ELSE [Unflagged(m) EXCEPT !.gpr =
                [@ EXCEPT ![rax] = IntValue(c[1], x, y), ![rdx] = IntValue(c[2], x, y)]]

Group(m, i) ==
    LET r == RmField(i)
        v == m.gpr[r]
        n == Unflagged(m)
    IN  CASE i.op = <<\hF7>> /\ i.reg = 2 -> SetReg(m, r, IntValue("inot", v, 0), Size(i))
          [] i.op = <<\hF7>> /\ i.reg = 3 -> SetReg(n, r, IntValue("ineg", v, 0), Size(i))
          [] i.op = <<\hF7>> /\ i.reg = 6 -> DivideBy(m, v, FALSE)
          [] i.op = <<\hF7>> /\ i.reg = 7 -> DivideBy(m, v, TRUE)
          [] i.op = <<\hFF>> -> SetReg(n, r, v + 1 - 2 * i.reg, Size(i))
          [] i.op = <<\hD3>> -> SetReg(n, r, IntValue(Shifts[i.reg], v, m.gpr[rcx]), Size(i))
          [] i.op = <<\hC1>> -> SetReg(n, r, IntValue(Shifts[i.reg], v, i.imm[1]), Size(i))
          [] i.reg = 7 -> Compared(m, v, i.imm[1])
          [] OTHER -> SetReg(n, r, IntValue(AluImm[i.reg], v, i.imm[1]), Size(i))

Groups == {\hF7, \hFF, \hD3, \hC1, \h81, \h83}

Integer(m, i) ==
    LET r == RegField(i)
        c == i.op[1]
        y == Operand(m, i, Size(i))
    IN  CASE c \in Groups -> Group(m, i)
          [] c \in DOMAIN Alu ->
                SetReg(Unflagged(m), r, IntValue(Alu[c], m.gpr[r], Signed(y)), Size(i))
          [] c = \h8B -> SetReg(m, r, y, Size(i))
          [] c = \h3B -> Compared(m, m.gpr[r], Signed(y))
          [] c = \h85 -> Compared(m, And(m.gpr[r], Signed(y)), 0)
          [] c \in {\h69, \h6B} ->
                SetReg(Unflagged(m), r, IntValue("imul", Signed(y), i.imm[1]), Size(i))
          [] c = \h8D -> SetReg(m, r, IF AtRIP(i) THEN m.pc + i.disp ELSE Address(m, i), Size(i))
          [] c = \h63 -> SetReg(m, r, Sized(Operand(m, i, ImmBits), ImmBits), Size(i))
          [] c = \h89 -> Store(m, Address(m, i), m.gpr[r], Size(i))
          [] c = \h88 -> Store(m, Address(m, i), ByteReg(m, i, r), ByteBits)
          [] c = \h99 -> [m EXCEPT !.gpr[rdx] = IF m.gpr[rax] < 0 THEN -1 ELSE 0]
          [] c = \hB8 -> [m EXCEPT !.gpr[RmField(i)] =
                            Signed(i.imm[1] + (IF i.w THEN i.imm[2] * 2 ^ ImmBits ELSE 0))]
          [] c = \hC7 -> [m EXCEPT !.gpr[RmField(i)] = Sized(i.imm[1], ImmBits)]
          [] c = \h90 -> m

(* 0F ...: conditions, multiplication, extension.                          *)
TwoByte(m, i) ==
    LET r == RegField(i)
        c == i.op[2]
        byte == IF InRegister(i) THEN ByteReg(m, i, RmField(i)) ELSE Operand(m, i, ByteBits)
        half == Operand(m, i, HalfBits)
    IN  CASE c \in \h80..\h8F ->
                IF m.flags.known THEN [m EXCEPT !.taken = Condition(m.flags, c - \h80)]
                ELSE Trap(m, "no flags")
          [] c \in \h90..\h9F ->
                IF ~m.flags.known THEN Trap(m, "no flags")
                ELSE SetByteReg(m, i, RmField(i), IF Condition(m.flags, c - \h90) THEN 1 ELSE 0)
          [] c = \hAF -> SetReg(Unflagged(m), r,
                                IntValue("imul", m.gpr[r], Signed(Operand(m, i, Size(i)))), Size(i))
          [] c = \hBE -> SetReg(m, r, Narrow(byte, ByteBits), Size(i))
          [] c = \hBF -> SetReg(m, r, Narrow(half, HalfBits), Size(i))
          [] c = \hB6 -> SetReg(m, r, byte, Size(i))
          [] c = \hB7 -> SetReg(m, r, half, Size(i))
          [] c = \h28 -> [m EXCEPT !.xmm[r] = Signed(XmmOperand(m, i, WordBits))]
          [] c = \h2E -> Ordering(m, FloatOf(m.xmm[r], ImmBits),
                                     FloatOf(XmmOperand(m, i, ImmBits), ImmBits))
          [] c \in {\h57, \h54} ->
                IF ~InRegister(i) /\ (m.pc + i.disp) % 4 # 1 THEN Trap(m, "misaligned")
                ELSE [m EXCEPT !.xmm[r] =
                        IntValue(IF c = \h57 THEN "ixor" ELSE "iand", @,
                                 Signed(XmmOperand(m, i, WordBits)))]

(* F2, F3 or 66, and 0F: doubles and singles.                              *)
Prefixed(m, i) ==
    LET r == RegField(i)
        c == i.op[3]
        bits == IF i.op[1] = \hF2 THEN WordBits ELSE ImmBits
        other == WordBits + ImmBits - bits
        x == FloatOf(m.xmm[r], bits)
        y == FloatOf(XmmOperand(m, i, bits), bits)
        SetLow(n, v, size) == [n EXCEPT !.xmm[r] = Merged(@, v, size)]
    IN  CASE c = \h10 /\ InRegister(i) -> SetLow(m, XmmOperand(m, i, bits), bits)
          [] c = \h10 -> [m EXCEPT !.xmm[r] = Signed(XmmOperand(m, i, bits))]
          [] c = \h11 -> Store(m, Address(m, i), m.xmm[r], bits)
          [] c \in DOMAIN Sse -> SetLow(m, FloatBits(DblValue(FALSE, Sse[c], x, y), bits), bits)
          [] c = \h2A -> SetLow(m, FloatBits(Number(FALSE, Signed(Operand(m, i, Size(i)))), bits), bits)
          [] c = \h2C -> SetReg(m, r, IF y = NaN THEN 2 ^ (WordBits - 1) ELSE y, Size(i))
          [] c = \h5A -> SetLow(m, FloatBits(y, other), other)
          [] c = \h2E -> Ordering(m, FloatOf(m.xmm[r], WordBits),
                                     FloatOf(XmmOperand(m, i, WordBits), WordBits))
          [] c = \h6E -> [m EXCEPT !.xmm[r] = Signed(Operand(m, i, Size(i)))]
          [] c = \h7E -> SetReg(m, RmField(i), m.xmm[r], Size(i))

(* 66 89: a store of 16 bits.                                              *)
Perform(m, i) ==
    CASE i.op = << >> -> Trap(m, "data")
      [] i.op = <<\h66, \h89>> -> Store(m, Address(m, i), m.gpr[RegField(i)], HalfBits)
      [] Len(i.op) = 3 -> Prefixed(m, i)
      [] Len(i.op) = 2 -> TwoByte(m, i)
      [] OTHER -> Integer(m, i)

(* The instructions up to "last".                                          *)
Runs(m0, last) ==
    LET after[p \in 0..last] ==
            IF p = 0 THEN m0
            ELSE LET m == after[p - 1]
                 IN  IF m.status # "running" THEN m
                     ELSE Perform([m EXCEPT !.pc = p + 1], m.code[p])
    IN  after[last]
=============================================================================
