------------------------------- MODULE X64Asm -------------------------------
(***************************************************************************)
(* The assembler of the x64 back end, AsmX64 (src/src/arch-x64-asm.h): how *)
(* registers, addresses, immediates and constants go into an instruction.  *)
(*                                                                         *)
(* An instruction is a record of its parts: the opcode with its prefixes,  *)
(* the REX prefix, the fields of the ModRM and SIB bytes, which have three *)
(* bits for a register, the displacement and the immediate.  It takes one  *)
(* unit of code, and so does a constant of 32 bits.  An immediate or       *)
(* displacement of 8 bits has ByteBits here, one of 32 bits ImmBits, and a *)
(* word WordBits (module OpValues).                                        *)
(***************************************************************************)
EXTENDS OpValues, Sequences, SequencesExt

CONSTANT ByteBits       \* 8 in the code

ASSUME ByteAssumption == ByteBits \in 2..(ImmBits - 1)

-----------------------------------------------------------------------------
(* Registers: the general ones are 0..15, xmm0 to xmm15 are 16..31.        *)
rax == 0
rcx == 1
rdx == 2
rsp == 4
rbp == 5
rsi == 6
rdi == 7
xmm0 == 16
RIP == 255

REG(r) == IF r = RIP THEN RIP ELSE r % 16
Low(r) == r % 8         \* what goes into a field
High(r) == r \div 8     \* what goes into the REX prefix

(* (int8_t) v and (int32_t) v.                                             *)
Narrow(v, bits) == ((v + 2 ^ (bits - 1)) % 2 ^ bits) - 2 ^ (bits - 1)
FitsByte(v) == Narrow(v, ByteBits) = v

-----------------------------------------------------------------------------
(* Instructions.  "data" is the constant in memory it works on: the size   *)
(* in bits and the value.                                                  *)
NoData == << >>

Ins(op) ==
    [op |-> op, w |-> FALSE, rex |-> FALSE, r |-> 0, x |-> 0, b |-> 0, mod |-> 3,
     reg |-> 0, rm |-> 0, sib |-> << >>, disp |-> 0, imm |-> << >>, data |-> NoData]

(* Registers 4 to 7 are bytes of their own only with a REX prefix.         *)
REX(i, wide, reg, rm, sib) ==
    LET flags == High(reg) + High(rm) + High(sib) > 0
        forced == (wide = 2 /\ reg \in 4..7) \/ (wide = 3 /\ rm \in 4..7)
    IN  [i EXCEPT !.w = wide = 1, !.rex = flags \/ wide = 1 \/ forced,
                  !.r = High(reg), !.x = High(sib), !.b = High(rm)]

RR(wide, r0, r1, op) ==
    [REX(Ins(op), wide, r0, r1, 0) EXCEPT !.reg = Low(r0), !.rm = Low(r1)]

(* How an offset is encoded.                                               *)
OffsetMode(offset, needed) ==
    IF offset = 0 /\ ~needed THEN 0 ELSE IF FitsByte(offset) THEN 1 ELSE 2

Displacement(offset, mode) ==
    CASE mode = 0 -> 0
      [] mode = 1 -> Narrow(offset, ByteBits)
      [] mode = 2 -> Narrow(offset, ImmBits)

(* [base + index * 2^scale + offset].  With rbp and r13 as a base there is *)
(* no form without an offset.                                              *)
Indexed(w, r0, base, index, scale, offset, op) ==
    LET mode == OffsetMode(offset, Low(base) = rbp)
    IN  [REX(Ins(op), w, r0, base, index) EXCEPT
            !.mod = mode, !.reg = Low(r0), !.rm = 4,
            !.sib = <<Low(base), Low(index), scale>>, !.disp = Displacement(offset, mode)]

(* The base is exchanged for the index if that saves the offset.           *)
SwapBase(r1, r2) == Low(r1) = rbp /\ Low(r2) # rsp

RRRs(w, r0, r1, r2, scale, op) ==
    IF SwapBase(r1, r2) /\ scale = 0 THEN Indexed(w, r0, r2, r1, scale, 0, op)
    ELSE Indexed(w, r0, r1, r2, scale, 0, op)

RRM(w, r0, r1, r2, offset, op) ==
    IF SwapBase(r1, r2) THEN Indexed(w, r0, r2, r1, 0, offset, op)
    ELSE Indexed(w, r0, r1, r2, 0, offset, op)

(* [base + offset].  RIP is for constants, found when the instruction is   *)
(* placed; as a base, rsp and r12 need the SIB byte.                       *)
RM(wide, reg, base, offset, op) ==
    LET mode == OffsetMode(offset, Low(base) = rbp)
        i == [REX(Ins(op), wide, reg, base, 0) EXCEPT
                !.mod = mode, !.reg = Low(reg), !.rm = Low(base),
                !.disp = Displacement(offset, mode)]
    IN  IF base = RIP
        THEN [REX(Ins(op), wide, reg, 0, 0) EXCEPT
                !.mod = 0, !.reg = Low(reg), !.rm = 5, !.disp = offset]
        ELSE IF Low(base) = rsp THEN [i EXCEPT !.sib = <<4, 4, 0>>] ELSE i

Constant(wide, reg, size, v, op) ==
    [RM(wide, reg, RIP, 0, op) EXCEPT !.data = <<size, v>>]

(* Operation "op" (0..7) with an immediate.                                *)
XXriX(op, r, v) ==
    IF FitsByte(v) THEN [RR(1, op, r, <<\h83>>) EXCEPT !.imm = <<v>>]
    ELSE IF FitsImm(v) THEN [RR(1, op, r, <<\h81>>) EXCEPT !.imm = <<v>>]
    ELSE Constant(1, r, 64, v, <<3 + 8 * op>>)

IMULrriXX(r0, r1, v) ==
    IF FitsByte(v) THEN <<[RR(1, r0, r1, <<\h6B>>) EXCEPT !.imm = <<v>>]>>
    ELSE IF FitsImm(v) THEN <<[RR(1, r0, r1, <<\h69>>) EXCEPT !.imm = <<v>>]>>
    ELSE (IF r0 = r1 THEN << >> ELSE <<RR(1, r0, r1, <<\h8B>>)>>)
         \o <<Constant(1, r0, 64, v, <<\h0F, \hAF>>)>>

(* 32 bits suffice if they are extended, with zeros or with the sign.      *)
emitMOVri64(reg, imm) ==
    LET half == 2 ^ ImmBits
        lo == Unsigned(imm) % half
        hi == Unsigned(imm) \div half
        i == [REX(Ins(<<\hB8>>), 1, 0, reg, 0) EXCEPT !.rm = Low(reg)]
    IN  IF hi = 0
        THEN [REX(Ins(<<\hB8>>), 0, 0, reg, 0) EXCEPT !.rm = Low(reg), !.imm = <<lo>>]
        ELSE IF hi = half - 1 /\ 2 * lo >= half THEN [i EXCEPT !.op = <<\hC7>>, !.imm = <<lo>>]
        ELSE [i EXCEPT !.imm = <<lo, hi>>]

-----------------------------------------------------------------------------
(* The code with its constants; its size without them, in the end.         *)
Empty ==
    [out |-> << >>, rodata |-> [size \in {32, 64, 128} |-> << >>],
     relocations |-> << >>, size |-> 0]

(* data32, data64, data128: constants of one value are shared.             *)
AddData(a, size, v) ==
    LET known == SelectInSeq(a.rodata[size], LAMBDA x : x = v)
    IN  IF known > 0 THEN known - 1 ELSE Len(a.rodata[size])

PutData(a, i) ==
    LET size == i.data[1]
        index == AddData(a, size, i.data[2])
    IN  [a EXCEPT
          !.rodata[size] = IF index = Len(@) THEN Append(@, i.data[2]) ELSE @,
          !.relocations = Append(@, [codeOffset |-> Len(a.out) + 1, block |-> size]),
          !.out = Append(@, [i EXCEPT !.disp = index * (size \div 32) - (Len(a.out) + 2)])]

Put(a, i) ==
    IF i.data # NoData THEN PutData(a, i)
    ELSE [a EXCEPT !.out = Append(@, i)]

(* Constants in units of code.                                             *)
Units(size, v) ==
    LET half == 2 ^ ImmBits
        lo == Unsigned(v) % half
        hi == Unsigned(v) \div half
        unit(x) == [Ins(<< >>) EXCEPT !.imm = <<x>>]
    IN  CASE size = 32 -> <<unit(lo)>>
          [] size = 64 -> <<unit(lo), unit(hi)>>
          [] size = 128 -> <<unit(lo), unit(hi), unit(lo), unit(hi)>>

Nop == Ins(<<\h90>>)
Pad(out, align) == out \o [n \in 1..((align - (Len(out) % align)) % align) |-> Nop]

Aligned(a) == Pad(a.out, IF a.rodata[128] # << >> THEN 4 ELSE 2)

(* The larger constants come first, so that all are aligned.               *)
Finish(a) ==
    LET data(size) == FlattenSeq([n \in DOMAIN a.rodata[size] |-> Units(size, a.rodata[size][n])])
        code == Aligned(a)
        end128 == code \o data(128)
        end64 == end128 \o data(64)
        start == (128 :> Len(code) + 1) @@ (64 :> Len(end128) + 1) @@ (32 :> Len(end64) + 1)
    IN  [a EXCEPT
            !.size = Len(a.out),
            !.out = FoldLeft(LAMBDA out, r : [out EXCEPT ![r.codeOffset].disp = @ + start[r.block]],
                             Pad(end64 \o data(32), 4), a.relocations)]
=============================================================================
