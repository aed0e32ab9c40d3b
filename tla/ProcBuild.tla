------------------------------ MODULE ProcBuild ------------------------------
(***************************************************************************)
(* How a front-end makes a procedure: the constructor and the emitters of  *)
(* Proc (src/src/bjit.h).  The front-end is the sequence of calls it still *)
(* has to make, "script"; it names values by their slot in env, which is   *)
(* how a front-end keeps track of its variables.                           *)
(*                                                                         *)
(* A failed assertion of an emitter has no step, so that a script that     *)
(* makes one fail is a deadlock.                                           *)
(***************************************************************************)
EXTENDS IR

CONSTANT Scripts        \* the sequences of front-end calls to build from

VARIABLES script,       \* the calls the front-end still makes
          ops, blocks,  \* the procedure
          env,          \* the values of the front-end's variables
          currentBlock  \* where operations are added

buildVars == <<script, ops, blocks, env, currentBlock>>

-----------------------------------------------------------------------------
(* The calls of a front-end.  "args" are slots of env, "dst" the slot the  *)
(* result is assigned to: none for 0, a new one for Len(env) + 1.          *)

Call(name, labels, args, imm, dst) ==
    [call |-> name, labels |-> labels, args |-> args, imm |-> imm, dst |-> dst]

Emitters == {"lci", "iadd", "idiv", "li", "si", "icalln", "fence"}

(* The calls that have the arguments which the signatures ask for.         *)
Calls ==
    { c \in [call : STRING, labels : Seq(Nat \ {0}), args : Seq(Nat \ {0}),
             imm : Int, dst : Nat] :
        /\ c.call \in Emitters \cup {"jz", "iret"} => Len(c.args) = nInputs(c.call)
        /\ c.call \in {"emitLabel", "jmp"} => Len(c.labels) = 1
        /\ c.call = "jz" => Len(c.labels) = 2 }

ASSUME ScriptsAssumption == Scripts \subseteq Seq(Calls)

-----------------------------------------------------------------------------
(* Proc(0, "i"): the entry block, alloc, and an argument in env.           *)
Entry == [NewBlock EXCEPT !.code = <<1, 2>>, !.live = TRUE]

BuildInit ==
    /\ script \in Scripts
    /\ ops = <<Op("alloc", << >>, 0, 1), Op("iarg", << >>, 0, 1)>>
    /\ blocks = <<Entry>>
    /\ env = <<2>>
    /\ currentBlock = 1

-----------------------------------------------------------------------------
Next1 == Head(script)

Consume(name) ==
    /\ script # << >>
    /\ Next1.call = name
    /\ script' = Tail(script)

(* addOp: a new operation at the end of the current block.                 *)
addOp(o) ==
    /\ ops' = Append(ops, o)
    /\ blocks' = [blocks EXCEPT ![currentBlock].code = Append(@, Len(ops) + 1)]

(* A new block with a phi for each variable.                               *)
newLabel ==
    /\ Consume("newLabel")
    /\ LET b == Len(blocks) + 1
           phis == [i \in 1..Len(env) |-> Len(ops) + i]
       IN  /\ ops' = ops \o [i \in 1..Len(env) |->
                                [Op("phi", << >>, 0, b) EXCEPT !.phiIndex = i]]
           /\ blocks' = Append(blocks, [NewBlock EXCEPT !.code = phis, !.args = phis])
    /\ UNCHANGED <<env, currentBlock>>

(* From here on code goes to the block, whose phis are the variables.      *)
emitLabel ==
    /\ Consume("emitLabel")
    /\ LET b == Next1.labels[1]
       IN  /\ b <= Len(blocks)
           /\ ~blocks[b].live
           /\ blocks' = [blocks EXCEPT ![b].live = TRUE]
           /\ currentBlock' = b
           /\ env' = blocks[b].args
    /\ UNCHANGED ops

(* The alternatives a jump from the current block gives a block's phis.    *)
AltsTo(b) ==
    [a \in 1..Len(env) |-> Alt(blocks[b].args[a], currentBlock, env[a])]

Jump(o) ==
    /\ \A k \in 1..Len(o.label) :
            o.label[k] <= Len(blocks) /\ Len(blocks[o.label[k]].args) = Len(env)
    /\ ops' = Append(ops, o)
    /\ blocks' = [b \in 1..Len(blocks) |->
          [blocks[b] EXCEPT
             !.code = IF b = currentBlock THEN Append(@, Len(ops) + 1) ELSE @,
             !.alts = @ \o FlattenSeq([k \in 1..Len(o.label) |->
                                IF o.label[k] = b THEN AltsTo(b) ELSE << >>])]]
    /\ UNCHANGED <<env, currentBlock>>

jmp ==
    /\ Consume("jmp")
    /\ Jump([Op("jmp", << >>, 0, currentBlock) EXCEPT !.label = Next1.labels])

jz ==
    /\ Consume("jz")
    /\ Jump([Op("jz", <<env[Next1.args[1]]>>, 0, currentBlock)
                EXCEPT !.label = Next1.labels])

iret ==
    /\ Consume("iret")
    /\ addOp(Op("iret", <<env[Next1.args[1]]>>, 0, currentBlock))
    /\ UNCHANGED <<env, currentBlock>>

tcalln ==
    /\ Consume("tcalln")
    /\ addOp(Op("tcalln", << >>, Next1.imm, currentBlock))
    /\ UNCHANGED <<env, currentBlock>>

(* An operation whose result, if any, the front-end may keep in a slot.    *)
emit(opcode) ==
    /\ Consume(opcode)
    /\ addOp(Op(opcode, [k \in 1..Len(Next1.args) |-> env[Next1.args[k]]],
                Next1.imm, currentBlock))
    /\ env' = IF Next1.dst = 0 THEN env
              ELSE [k \in 1..(IF Next1.dst > Len(env) THEN Len(env) + 1 ELSE Len(env)) |->
                        IF k = Next1.dst THEN Len(ops) + 1 ELSE env[k]]
    /\ UNCHANGED currentBlock

(* The front-end assigns its variables from each other.                    *)
assign ==
    /\ Consume("assign")
    /\ env' = [k \in 1..Len(Next1.args) |-> env[Next1.args[k]]]
    /\ UNCHANGED <<ops, blocks, currentBlock>>

Build ==
    \/ newLabel \/ emitLabel \/ jmp \/ jz \/ iret \/ tcalln \/ assign
    \/ \E opcode \in Emitters : emit(opcode)
=============================================================================
