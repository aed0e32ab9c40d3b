----------------------------- MODULE X64Select -----------------------------
(***************************************************************************)
(* Instruction selection on x64: the operations of Proc::arch_emit         *)
(* (src/src/arch-x64-emit.cpp) that compute, compare, load or store, and   *)
(* what they tell the register allocator of the registers they can work    *)
(* on (src/src/arch-x64-ops.cpp).  A program is straight code to which     *)
(* registers have been assigned in any way these constraints allow; the    *)
(* code made of it runs on X64Machine.                                     *)
(*                                                                         *)
(* An operation has the registers of its inputs and of its output.  "bits" *)
(* tells operations of several widths apart: fadd is dadd of ImmBits; for  *)
(* "rename" and "reload" 0 stands for an integer.  With an immediate,      *)
(* iadd is iaddI; with three inputs, si is s2i.                            *)
(***************************************************************************)
EXTENDS X64Machine

CONSTANTS Programs,     \* sequences of operations
          Inputs,       \* of registers: [gpr |-> words, xmm |-> numbers]
          frameOffset   \* where slots begin, from the stack pointer

VARIABLES ops,          \* the program
          at,           \* the operation that is emitted next
          asm,          \* the code so far
          pc

selectVars == <<ops, at, asm, pc>>

-----------------------------------------------------------------------------
(* Opcodes.  ir-ops.h numbers comparisons that produce a value and those   *)
(* that jump, with an immediate or not, each in the same order.            *)
Tests == <<"ilt", "ige", "igt", "ile", "ult", "uge", "ugt", "ule", "ieq", "ine",
           "deq", "dne", "dlt", "dge", "dgt", "dle">>
jilt == 0
jz == 22
jiltI == 24
jmp == 34
ilt == 42
iltI == 64

HasImm(o) == o.imm # << >>
Shift == {"ishl", "ishr", "ushr"}
IntTests == ToSet(SubSeq(Tests, 1, 10))
Stores == {"si", "sf"}
IntLoads == {"li", "lu"}
Loads == IntLoads \cup {"lf"}
Commutative == {"iadd", "imul", "iand", "ior", "ixor", "dadd", "dmul"}

(* There is a second series for float, between those for double and jz.    *)
Order(o) ==
    IF o.op \in DblCompares /\ o.bits = ImmBits
    THEN 15 + SelectInSeq(<<"dlt", "dge", "dgt", "dle", "deq", "dne">>, LAMBDA c : c = o.op)
    ELSE SelectInSeq(Tests, LAMBDA c : c = o.op) - 1

opcode(o) ==
    Order(o) + (IF o.jump THEN IF HasImm(o) THEN jiltI ELSE jilt
                ELSE IF HasImm(o) THEN iltI ELSE ilt)

Conditions == <<12, 13, 15, 14, 2, 3, 7, 6, 4, 5, 4, 5, 2, 3, 7, 6, 2, 3, 7, 6, 4, 5, 4, 5>>
CC(code) == Conditions[code + 1]

-----------------------------------------------------------------------------
(* Registers an operation can work on.                                     *)
General == (0..15) \ {rsp}
Float == 16..31

(* What is in a register: 0 for an integer, else the width of a number.    *)
TypeOut(o) ==
    IF o.op \in DblOps \cup {"dabs", "ci2d", "cvt", "lcd", "lf", "rename", "reload"}
    THEN o.bits ELSE 0

TypeIn(o, k) ==
    CASE o.op \in DblOps \cup DblCompares \cup {"dabs", "cd2i", "rename"} -> o.bits
      [] o.op = "sf" /\ k = 1 -> o.bits
      [] o.op = "cvt" -> WordBits + ImmBits - o.bits
      [] OTHER -> 0

regsMask(o) == IF TypeOut(o) = 0 THEN General ELSE Float

regsOut(o) ==
    CASE o.op \in {"idiv", "udiv"} -> {rax}
      [] o.op \in {"imod", "umod"} -> {rdx}
      [] OTHER -> regsMask(o)

(* A jump has no type: where none is listed for it there is none to take.  *)
regsIn(o, k) ==
    CASE o.op \in IntLoads \cup {"lf"} /\ Len(o.in) = 1 -> General
      [] o.op = "si" -> IF k = 1 THEN General ELSE General \cup {rsp}
      [] o.op = "sf" -> IF k = 1 THEN Float ELSE General \cup {rsp}
      [] o.op = "iadd" -> General \cup {rsp}
      [] o.op \in DivOps -> IF k = 1 THEN {rax} ELSE General \ {rdx}
      [] o.op \in Shift /\ ~HasImm(o) -> IF k = 1 THEN General \ {rcx} ELSE {rcx}
      [] o.op \in DblCompares -> IF o.jump /\ o.bits = ImmBits THEN {} ELSE Float
      [] o.op = "cd2i" -> Float
      [] o.op = "ci2d" -> General
      [] o.op \in {"ult", "uge", "ugt", "ule"} /\ o.jump -> {}
      [] OTHER -> regsMask(o)

regsLost(o) == IF o.op \in DivOps THEN {rax, rdx} ELSE {}

(* Operations whose first step does not overwrite their second operand.    *)
anyOutReg(o) == o.op \in Commutative \cup Loads \cup ToSet(Tests)

HasOutput(o) == ~o.jump /\ o.op \notin Stores

(* Mutant of OutMask: the second operand is not masked.                    *)
OutMaskAll(o) == regsOut(o)

(* The register of the second operand is no place for the result if        *)
(* another will do.                                                        *)
OutMask(o) ==
    IF Len(o.in) > 1 /\ ~anyOutReg(o) /\ o.in[1] # o.in[2] /\ regsOut(o) # {o.in[2]}
    THEN regsOut(o) \ {o.in[2]} ELSE regsOut(o)

Assigned(o) ==
    /\ \A k \in DOMAIN o.in : o.in[k] \in regsIn(o, k)
    /\ HasOutput(o) => o.reg \in OutMask(o)

-----------------------------------------------------------------------------
(* Instructions, by the macros of arch-x64-asm.h.                          *)
MOVrr(r0, r1) == RR(1, REG(r0), REG(r1), <<\h8B>>)
XORrr(r0, r1) == RR(IF r0 = r1 THEN 0 ELSE 1, REG(r0), REG(r1), <<\h33>>)
Unary(n, r) == RR(1, n, REG(r), <<\hF7>>)
Prefix(bits) == IF bits = WordBits THEN \hF2 ELSE \hF3
MOVxx(bits, r0, r1) == RR(0, REG(r0), REG(r1), <<Prefix(bits), \h0F, \h10>>)
XORPSxx(r0, r1) == RR(0, REG(r0), REG(r1), <<\h0F, \h57>>)
LEAri(r, base, offset) == RM(1, REG(r), REG(base), offset, <<\h8D>>)

ByteOf == [iadd |-> \h03, isub |-> \h2B, iand |-> \h23, ior |-> \h0B, ixor |-> \h33,
           dadd |-> \h58, dmul |-> \h59, dsub |-> \h5C, ddiv |-> \h5E]
GroupOf == [iadd |-> 0, ior |-> 1, iand |-> 4, isub |-> 5, ixor |-> 6,
            ishl |-> 4, ushr |-> 5, ishr |-> 7]

Binary(o, r0, r1) ==
    CASE o.op \in DblOps -> RR(0, REG(r0), REG(r1), <<Prefix(o.bits), \h0F, ByteOf[o.op]>>)
      [] o.op = "imul" -> RR(1, r0, r1, <<\h0F, \hAF>>)
      [] o.op = "ixor" -> XORrr(r0, r1)
      [] OTHER -> RR(1, r0, r1, <<ByteOf[o.op]>>)

Move(o, r0, r1) == IF o.op \in DblOps \cup {"dabs"} THEN MOVxx(o.bits, r0, r1) ELSE MOVrr(r0, r1)

(* The first operand in the place of the result.                           *)
Copied(o) == IF o.reg = o.in[1] THEN << >> ELSE <<Move(o, o.reg, o.in[1])>>

(* Memory: the instruction for a width, by what is loaded or stored.       *)
LoadOp(op, bits) ==
    CASE op = "lf" -> <<Prefix(bits), \h0F, \h10>>
      [] bits = WordBits -> <<\h8B>>
      [] bits = ImmBits -> IF op = "li" THEN <<\h63>> ELSE <<\h8B>>
      [] bits = HalfBits -> <<\h0F, IF op = "li" THEN \hBF ELSE \hB7>>
      [] bits = ByteBits -> <<\h0F, IF op = "li" THEN \hBE ELSE \hB6>>

StoreOp(op, bits) ==
    CASE op = "sf" -> <<Prefix(bits), \h0F, \h11>>
      [] bits \in {WordBits, ImmBits} -> <<\h89>>
      [] bits = HalfBits -> <<\h66, \h89>>
      [] bits = ByteBits -> <<\h88>>

(* Whether it is wide: to reach a byte register, or the whole word.        *)
LoadWide(op, bits) == IF op = "li" THEN 1 ELSE 0
StoreWide(op, bits) ==
    CASE op = "sf" -> 0 [] bits = WordBits -> 1 [] bits = ByteBits -> 2 [] OTHER -> 0

Memory(wide, r, address, offset, code) ==
    IF Len(address) = 1 THEN RM(wide, REG(r), REG(address[1]), offset, code)
    ELSE RRM(wide, REG(r), REG(address[1]), REG(address[2]), offset, code)

SlotOffset(scc) == frameOffset + 8 * scc
Spilled(o) ==
    IF ~o.spill THEN << >>
    ELSE LET op == IF TypeOut(o) = 0 THEN "si" ELSE "sf"
             bits == IF TypeOut(o) = 0 THEN WordBits ELSE o.bits
         IN  <<Memory(StoreWide(op, bits), o.reg, <<rsp>>, SlotOffset(o.scc), StoreOp(op, bits))>>

-----------------------------------------------------------------------------
(* What an operation becomes.                                              *)

Compare(o) ==
    IF HasImm(o) THEN XXriX(7, o.in[1], o.imm[1])
    ELSE IF o.op \in DblCompares
    THEN RR(0, REG(o.in[1]), REG(o.in[2]),
            IF o.bits = WordBits THEN <<\h66, \h0F, \h2E>> ELSE <<\h0F, \h2E>>)
    ELSE RR(1, o.in[1], o.in[2], <<\h3B>>)

Jcc(cc) == Ins(<<\h0F, \h80 + cc>>)
SETcc(r, cc) == RR(3, 3, r, <<\h0F, \h90 + cc>>)

emitTest(o) ==
    LET first == IF HasImm(o) THEN IF o.jump THEN jiltI ELSE iltI
                 ELSE IF o.jump THEN jilt ELSE ilt
    IN  IF o.jump THEN <<Compare(o), Jcc(CC(opcode(o) + jilt - first))>>
        ELSE IF o.op \in DblCompares
        THEN <<XORrr(o.reg, o.reg), Compare(o), SETcc(o.reg, CC(opcode(o) - jmp))>>
        ELSE <<Compare(o), SETcc(o.reg, CC(opcode(o) + jilt - first)),
               RR(3, o.reg, o.reg, <<\h0F, \hB6>>)>>

(* On zero or not: jz and jnz.                                             *)
emitZero(o) ==
    <<RR(1, o.in[1], o.in[1], <<\h85>>), Jcc(CC(jz + (IF o.op = "jz" THEN 0 ELSE 1)))>>

emitBinary(o) ==
    LET x == o.in[1]
        y == o.in[2]
    IN  IF o.op = "iadd" /\ o.reg \notin {x, y} THEN <<RRRs(1, o.reg, x, y, 0, <<\h8D>>)>>
        ELSE IF o.reg = y /\ o.op \in Commutative THEN <<Binary(o, o.reg, x)>>
        ELSE Copied(o) \o <<Binary(o, o.reg, y)>>

(* n = m * 2^shift with an odd m                                           *)
TwosIn(n) == CHOOSE s \in 0..ImmBits : n % 2 ^ s = 0 /\ (n \div 2 ^ s) % 2 = 1
LeaScale == (3 :> 1) @@ (5 :> 2) @@ (9 :> 3)
ShiftBy(o, r, n) == [RR(1, GroupOf[o], r, <<\hC1>>) EXCEPT !.imm = <<n>>]

emitImulI(o) ==
    LET x == o.in[1]
        n == o.imm[1]
        shift == TwosIn(n)
        odd == n \div 2 ^ shift
    IN  IF n > 0 /\ Low(x) # rbp /\ odd \in DOMAIN LeaScale
        THEN <<RRRs(1, o.reg, x, x, LeaScale[odd], <<\h8D>>)>>
             \o (IF shift = 0 THEN << >> ELSE <<ShiftBy("ishl", o.reg, shift)>>)
        ELSE IMULrriXX(o.reg, x, n)

(* Sums with an immediate: INC, DEC, LEA, or the general form.             *)
emitSumI(o) ==
    LET n == o.imm[1]
        change == IF o.op = "iadd" THEN n ELSE -n
        general == XXriX(GroupOf[o.op], o.reg, n)
    IN  IF o.op = "isub" /\ n = LeastImm THEN Copied(o) \o <<general>>
        ELSE IF o.reg # o.in[1] THEN <<LEAri(o.reg, o.in[1], change)>>
        ELSE IF change \in {1, -1}
        THEN <<RR(1, IF change = 1 THEN 0 ELSE 1, o.reg, <<\hFF>>)>>
        ELSE <<general>>

emitImm(o) ==
    CASE o.op \in {"iadd", "isub"} -> emitSumI(o)
      [] o.op = "imul" -> emitImulI(o)
      [] o.op \in Shift -> Copied(o) \o <<ShiftBy(o.op, o.reg, o.imm[1])>>
      [] OTHER -> Copied(o) \o <<XXriX(GroupOf[o.op], o.reg, o.imm[1])>>

emitDivision(o) ==
    (IF o.in[1] = rax THEN << >> ELSE <<MOVrr(rax, o.in[1])>>)
    \o (IF o.op \in {"idiv", "imod"}
        THEN <<[Ins(<<\h99>>) EXCEPT !.w = TRUE, !.rex = TRUE], Unary(7, o.in[2])>>
        ELSE <<XORrr(rdx, rdx), Unary(6, o.in[2])>>)

(* The sign is a bit of each number of the 128 bits.                       *)
SignBits(bits) == 2 ^ (WordBits - 1) + (IF bits = WordBits THEN 0 ELSE 2 ^ (ImmBits - 1))

emitSign(o) ==
    IF o.op = "dabs"
    THEN Copied(o) \o <<Constant(0, REG(o.reg), 128, Signed(-1 - SignBits(o.bits)), <<\h0F, \h54>>)>>
    ELSE IF o.reg = o.in[1]
    THEN <<Constant(0, REG(o.reg), 128, Signed(SignBits(o.bits)), <<\h0F, \h57>>)>>
    ELSE <<XORPSxx(o.reg, o.reg), Binary([o EXCEPT !.op = "dsub"], o.reg, o.in[1])>>

emitConstant(o) ==
    LET v == o.imm[1]
    IN  CASE o.op \in {"lci", "iretI"} ->
                IF v = 0 THEN <<XORrr(o.reg, o.reg)>> ELSE <<emitMOVri64(o.reg, v)>>
          [] o.op = "lcd" ->
                IF v = 0 THEN <<XORPSxx(o.reg, o.reg)>>
                ELSE <<Constant(0, REG(o.reg), 64, FloatBits(v, WordBits), <<\hF2, \h0F, \h10>>)>>

(* Conversions.                                                            *)
emitCast(o) ==
    LET x == REG(o.in[1])
        r == REG(o.reg)
        wide == IF o.op = "sx" THEN 1 ELSE IF o.bits = ByteBits THEN 3 ELSE 0
    IN  CASE o.op \in {"sx", "zx"} ->
                <<RR(wide, r, x, LoadOp(IF o.op = "sx" THEN "li" ELSE "lu", o.bits))>>
          [] o.op = "ci2d" -> <<RR(1, r, x, <<Prefix(o.bits), \h0F, \h2A>>)>>
          [] o.op = "cd2i" -> <<RR(1, r, x, <<Prefix(o.bits), \h0F, \h2C>>)>>
          [] o.op = "cvt" -> <<RR(0, r, x, <<Prefix(WordBits + ImmBits - o.bits), \h0F, \h5A>>)>>

emitMove(o) ==
    CASE o.op = "rename" ->
            IF o.reg = o.in[1] THEN << >>
            ELSE IF TypeOut(o) = 0 THEN <<MOVrr(o.reg, o.in[1])>>
            ELSE <<RR(0, REG(o.reg), REG(o.in[1]), <<\h0F, \h28>>)>>
      [] o.op = "reload" ->
            LET op == IF TypeOut(o) = 0 THEN "li" ELSE "lf"
                bits == IF TypeOut(o) = 0 THEN WordBits ELSE o.bits
            IN  <<Memory(LoadWide(op, bits), o.reg, <<rsp>>, SlotOffset(o.scc), LoadOp(op, bits))>>
      [] o.op \in Loads ->
            <<Memory(LoadWide(o.op, o.bits), o.reg, o.in, o.imm[1], LoadOp(o.op, o.bits))>>
      [] o.op \in Stores ->
            <<Memory(StoreWide(o.op, o.bits), o.in[1], Tail(o.in), o.imm[1],
                     StoreOp(o.op, o.bits))>>

emitOp(o) ==
    CASE o.op \in ToSet(Tests) -> emitTest(o)
      [] o.op \in {"jz", "jnz"} -> emitZero(o)
      [] o.op \in {"dneg", "dabs"} -> emitSign(o)
      [] o.op \in {"ineg", "inot"} -> Copied(o) \o <<Unary(IF o.op = "ineg" THEN 3 ELSE 2, o.reg)>>
      [] o.op \in DivOps -> emitDivision(o)
      [] o.op \in IntOps /\ HasImm(o) -> emitImm(o)
      [] o.op \in Shift /\ ~HasImm(o) -> Copied(o) \o <<RR(1, GroupOf[o.op], o.reg, <<\hD3>>)>>
      [] o.op \in {"lci", "lcd", "iretI"} -> emitConstant(o)
      [] o.op \in {"sx", "zx", "ci2d", "cd2i", "cvt"} -> emitCast(o)
      [] o.op \in {"rename", "reload"} \cup Loads \cup Stores -> emitMove(o)
      [] OTHER -> emitBinary(o)

-----------------------------------------------------------------------------
SelectInit ==
    /\ ops \in { p \in Programs : \A n \in DOMAIN p : Assigned(p[n]) }
    /\ at = 1 /\ asm = Empty /\ pc = "emit"

emitNext ==
    /\ pc = "emit" /\ at <= Len(ops)
    /\ asm' = FoldLeft(Put, asm, emitOp(ops[at]) \o Spilled(ops[at]))
    /\ at' = at + 1
    /\ UNCHANGED <<ops, pc>>

emitConstants ==
    /\ pc = "emit" /\ at > Len(ops)
    /\ asm' = Finish(asm) /\ pc' = "done"
    /\ UNCHANGED <<ops, at>>

SelectTerminated == pc = "done" /\ UNCHANGED selectVars

SelectNext == emitNext \/ emitConstants \/ SelectTerminated

SelectSpec == SelectInit /\ [][SelectNext]_selectVars

-----------------------------------------------------------------------------
(* What the operations promise: registers hold integers or numbers, and    *)
(* slots are not memory.                                                   *)
Of(type, v) == [type |-> type, v |-> v]
Lost == Of(-1, 0)

(* Numbers are of one width at the beginning.                              *)
Before(input, bits) ==
    [reg |-> [r \in 0..31 |-> IF r < 16 THEN Of(0, input.gpr[r]) ELSE Of(bits, input.xmm[r - 16])],
     slot |-> [s \in 0..1 |-> Lost], mem |-> << >>, taken |-> FALSE, status |-> "running"]

MachineBefore(input, bits, code) ==
    [gpr |-> input.gpr, xmm |-> [r \in 0..15 |-> FloatBits(input.xmm[r], bits)],
     mem |-> << >>, flags |-> NoFlags, taken |-> FALSE, status |-> "running",
     code |-> code, pc |-> 1]

Arg(w, o, k) ==
    IF k <= Len(o.in) THEN w.reg[o.in[k]].v ELSE IF HasImm(o) THEN o.imm[1] ELSE 0

MemoryAt(w, o, first) ==
    Signed(Arg(w, o, first) + o.imm[1] + (IF Len(o.in) > first THEN Arg(w, o, first + 1) ELSE 0))

Loaded(w, o) == Load(w, MemoryAt(w, o, 1), o.bits)

Result(w, o) ==
    LET x == Arg(w, o, 1)
        y == Arg(w, o, 2)
    IN  CASE o.op \in IntOps \cup DivOps -> IntValue(o.op, x, y)
          [] o.op \in ToSet(Tests) -> CmpValue(o.op, x, y)
          [] o.op \in DblOps -> DblValue(FALSE, o.op, x, y)
          [] o.op = "dabs" -> IF x < 0 THEN -x ELSE x
          [] o.op = "ci2d" -> Number(FALSE, x)
          [] o.op \in {"cd2i", "cvt", "rename"} -> x
          [] o.op \in {"lci", "lcd", "iretI"} -> o.imm[1]
          [] o.op = "sx" -> Sized(x, o.bits)
          [] o.op = "zx" -> Bits(x, o.bits)
          [] o.op = "li" -> Sized(Loaded(w, o), o.bits)
          [] o.op = "lu" -> Loaded(w, o)
          [] o.op = "lf" -> FloatOf(Loaded(w, o), o.bits)
          [] o.op = "reload" -> w.slot[o.scc].v

Took(w, o) ==
    CASE o.op = "jz" -> Arg(w, o, 1) = 0
      [] o.op = "jnz" -> Arg(w, o, 1) # 0
      [] OTHER -> Holds(o.op, Arg(w, o, 1), Arg(w, o, 2))

Stored(w, o) ==
    LET v == IF o.op = "si" THEN Arg(w, o, 1) ELSE FloatBits(Arg(w, o, 1), o.bits)
    IN  Store(w, MemoryAt(w, o, 2), v, o.bits)

Gets(w, o) ==
    LET v == Of(TypeOut(o), Result(w, o))
    IN  [w EXCEPT !.reg = [r \in DOMAIN @ |-> IF r = o.reg THEN v
                                              ELSE IF r \in regsLost(o) THEN Lost ELSE @[r]],
                  !.slot = [s \in DOMAIN @ |-> IF o.spill /\ s = o.scc THEN v ELSE @[s]]]

WellTyped(w, o) ==
    /\ \A k \in DOMAIN o.in : w.reg[o.in[k]].type = TypeIn(o, k)
    /\ o.op = "reload" => w.slot[o.scc].type = TypeOut(o)

Promise(w, o) ==
    CASE w.status # "running" -> w
      [] ~WellTyped(w, o) -> Trap(w, "ill-typed")
      [] o.op \in DivOps /\ Arg(w, o, 2) = 0 -> Trap(w, "trapped")
      [] o.jump -> [w EXCEPT !.taken = Took(w, o)]
      [] o.op \in Stores -> Stored(w, o)
      [] OTHER -> Gets(w, o)

Slots(input) == { Signed(input.gpr[rsp] + SlotOffset(s)) : s \in 0..1 }

(* The machine shows what was promised.                                    *)
Shows(m, w, hidden) ==
    /\ m.status = w.status
    /\ w.status = "running" =>
        /\ m.taken = w.taken
        /\ \A r \in 0..31 :
            CASE w.reg[r].type = 0 -> m.gpr[r] = w.reg[r].v
              [] w.reg[r].type > 0 -> FloatOf(m.xmm[r - 16], w.reg[r].type) = w.reg[r].v
              [] OTHER -> TRUE
        /\ \A a \in (DOMAIN m.mem \cup DOMAIN w.mem) \ hidden :
            Load(m, a, WordBits) = Load(w, a, WordBits)

(* The instructions leave in every register, in memory and for a jump what *)
(* the operations promise, whatever registers the allocator has chosen     *)
(* among those it was told: nothing that is still needed is overwritten,   *)
(* every register and offset is encoded as itself, and every constant is   *)
(* found where it was put.                                                 *)
CodeComputes ==
    pc = "done" => \A input \in Inputs, bits \in {ImmBits, WordBits} :
        LET w == FoldLeft(Promise, Before(input, bits), ops)
            m == Runs(MachineBefore(input, bits, asm.out), asm.size)
        IN  w.status = "ill-typed" \/ Shows(m, w, Slots(input))
=============================================================================
