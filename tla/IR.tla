--------------------------------- MODULE IR ---------------------------------
(***************************************************************************)
(* The intermediate representation of Bunny-JIT (src/src/ir-ops.h,         *)
(* ir-ops.cpp, Op and Block of bjit-impl.h) and what a procedure in it     *)
(* means.  "ops" is the array of all operations ever made, "blocks" the    *)
(* array of basic blocks; both are sequences, so that an index of the code *)
(* is one less than here, block 1 is the entry and noVal is 0.             *)
(*                                                                         *)
(* One opcode stands for each class the passes tell apart: "iadd" for the  *)
(* arithmetic that can be moved and shared, "idiv" for the one that may    *)
(* trap, "li" and "si" for loads and stores, "icalln" for calls.  All      *)
(* values are integers.                                                    *)
(***************************************************************************)
EXTENDS Integers, Sequences, FiniteSets, SequencesExt

noVal == 0

-----------------------------------------------------------------------------
(* The table of opcodes.                                                   *)

CondJumps == {"jz", "jnz"}                      \* opcode < jmp
Jumps == CondJumps \cup {"jmp"}                 \* opcode <= jmp
Exits == {"iret", "tcallp", "tcalln"}
Terminators == Jumps \cup Exits                 \* opcode <= tcalln

nInputs(opcode) ==
    CASE opcode \in {"iadd", "idiv", "si"} -> 2
      [] opcode \in {"jz", "jnz", "iret", "tcallp", "li", "rename", "reload"} -> 1
      [] OTHER -> 0

hasOutput(opcode) ==
    opcode \in {"alloc", "iarg", "lci", "iadd", "idiv", "li", "icalln", "phi",
                "rename", "reload"}

hasSideFX(opcode) ==
    opcode \in Terminators \cup {"si", "nop", "alloc", "icalln", "fence", "idiv"}

canCSE(opcode) == opcode \in {"lci", "iadd", "idiv", "li"}

canMove(opcode) == opcode \notin {"alloc", "iarg", "phi"}

Op(opcode, in, imm, block) ==
    [opcode |-> opcode, in |-> in, imm |-> imm, label |-> << >>,
     block |-> block, phiIndex |-> noVal, noOpt |-> FALSE]

NewBlock == [code |-> << >>, args |-> << >>, alts |-> << >>, live |-> FALSE]

Alt(phi, src, val) == [phi |-> phi, src |-> src, val |-> val]

(* What is left of a sequence when it is closed up over all but S.         *)
Keep(s, S) ==
    LET kept[n \in 0..Len(s)] ==
            IF n = 0 THEN << >>
            ELSE IF s[n] \in S THEN Append(kept[n - 1], s[n]) ELSE kept[n - 1]
    IN  kept[Len(s)]

(* Op::makeNOP: the inputs and the immediate are lost.                     *)
makeNOP(o) == [o EXCEPT !.opcode = "nop", !.in = << >>, !.label = << >>]

-----------------------------------------------------------------------------
(* The control flow graph of blocks whose last operation ends them.        *)

LastOp(ops, blocks, b) == ops[blocks[b].code[Len(blocks[b].code)]]

(* The blocks a block jumps to.                                            *)
Targets(ops, blocks, b) ==
    IF blocks[b].code # << >> /\ LastOp(ops, blocks, b).opcode \in Jumps
    THEN ToSet(LastOp(ops, blocks, b).label) ELSE {}

(* Block d is on every path from the entry to b.                           *)
Dominates(ops, blocks, d, b) ==
    LET avoiding[n \in 0..Len(blocks)] ==
            IF n = 0 THEN {1} \ {d}
            ELSE LET found == avoiding[n - 1]
                 IN  found \cup
                     ((UNION { Targets(ops, blocks, x) : x \in found }) \ {d})
    IN  b \notin avoiding[Len(blocks)]

-----------------------------------------------------------------------------
(* What a procedure means: run with an argument, it makes a sequence of    *)
(* calls, changes memory and returns a value.  Memory is a cell per        *)
(* address of Cells.  A run that does not end in "fuel" blocks is          *)
(* "running".  A value that was never computed is Undefined and any use of *)
(* it makes the outcome "undefined".  "work" is the number of operations    *)
(* that a pass may move which were carried out.                            *)

Undefined == -1
Width == 8
Cells == 0..1

Initial(ops, arg) ==
    [val |-> [i \in 1..Len(ops) |-> Undefined], mem |-> [c \in Cells |-> 0],
     calls |-> << >>, status |-> "running", result |-> Undefined,
     block |-> 1, arg |-> arg, work |-> 0]

(* The first of the alternatives counts: a later one for the same source   *)
(* belongs to a jump in the dead tail of a block.                          *)
PhiValue(blk, i, src, val) ==
    LET js == { j \in 1..Len(blk.alts) :
                    blk.alts[j].phi = i /\ blk.alts[j].src = src }
    IN  IF js = {} THEN Undefined
        ELSE val[blk.alts[CHOOSE j \in js : \A k \in js : j <= k].val]

Enter(m, ops, blocks, target) ==
    LET src == m.block
        blk == blocks[target]
    IN  [m EXCEPT !.block = target,
                  !.val = [i \in DOMAIN m.val |->
                    IF ops[i].opcode = "phi" /\ i \in ToSet(blk.code)
                    THEN PhiValue(blk, i, src, m.val) ELSE m.val[i]]]

Stop(m, status) == [m EXCEPT !.status = status]

(* One operation that does not end its block.                              *)
Compute(m, o, i) ==
    LET x == m.val[o.in[1]]
        y == m.val[o.in[2]]
        Set(v) == [m EXCEPT !.val[i] = v,
                            !.work = @ + (IF canCSE(o.opcode) THEN 1 ELSE 0)]
    IN  CASE o.opcode = "alloc" -> Set(0)
          [] o.opcode = "iarg" -> Set(m.arg)
          [] o.opcode = "lci" -> Set(o.imm)
          [] o.opcode = "iadd" -> Set((x + y) % Width)
          [] o.opcode = "idiv" -> IF y = 0 THEN Stop(m, "trapped") ELSE Set(x \div y)
          [] o.opcode = "li" -> Set(m.mem[x % 2])
          [] o.opcode = "si" -> [m EXCEPT !.mem[y % 2] = x]
          [] o.opcode = "icalln" ->
                [Set(m.mem[0]) EXCEPT !.calls = Append(m.calls, m.mem),
                                      !.mem = [c \in Cells |-> (m.mem[c] + 1) % Width]]
          [] OTHER -> m

Leave(m, o, ops, blocks) ==
    CASE o.opcode = "jmp" -> Enter(m, ops, blocks, o.label[1])
      [] o.opcode \in CondJumps ->
            Enter(m, ops, blocks,
                  o.label[IF (m.val[o.in[1]] = 0) <=> (o.opcode = "jz") THEN 1 ELSE 2])
      [] o.opcode = "iret" ->
            [Stop(m, "returned") EXCEPT !.result = m.val[o.in[1]]]
      [] OTHER -> Stop(m, "tail call")

InputsDefined(m, o) ==
    \A k \in 1..nInputs(o.opcode) : o.in[k] # noVal /\ m.val[o.in[k]] # Undefined

(* The block m is in, up to its first operation that ends it.              *)
RunBlock(m, ops, blocks) ==
    LET code == blocks[m.block].code
        after[c \in 0..Len(code)] ==
            IF c = 0 THEN m
            ELSE LET s == after[c - 1]
                     i == code[c]
                 IN  IF s.status # "running" \/ i = noVal THEN s
                     ELSE IF ~InputsDefined(s, ops[i]) THEN Stop(s, "undefined")
                     ELSE IF ops[i].opcode \in Terminators THEN s
                     ELSE Compute(s, ops[i], i)
        ends == { c \in 1..Len(code) : code[c] # noVal /\ ops[code[c]].opcode \in Terminators }
        e == CHOOSE c \in ends : \A d \in ends : c <= d
    IN  IF ends = {} THEN Stop(after[Len(code)], "undefined")
        ELSE LET s == after[e]
             IN  IF s.status # "running" THEN s
                 ELSE Leave(s, ops[code[e]], ops, blocks)

(* A run of at most "fuel" blocks.                                         *)
Run(ops, blocks, arg, fuel) ==
    LET after[n \in 0..fuel] ==
            IF n = 0 THEN Initial(ops, arg)
            ELSE LET m == after[n - 1]
                 IN  IF m.status = "running" THEN RunBlock(m, ops, blocks) ELSE m
    IN  after[fuel]

(* What can be observed of it.                                             *)
Outcome(ops, blocks, arg, fuel) ==
    LET end == Run(ops, blocks, arg, fuel)
    IN  [status |-> end.status, result |-> end.result, calls |-> end.calls,
         mem |-> end.mem]
=============================================================================
