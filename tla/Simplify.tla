------------------------------ MODULE Simplify ------------------------------
(***************************************************************************)
(* Folding and reassociation as Proc::opt() (src/src/bjit.h) makes them    *)
(* alternate, each repeated until it changes nothing, with a clean-up      *)
(* between them, until neither reports progress.  A step visits one        *)
(* operation.                                                              *)
(*                                                                         *)
(* The clean-up is opt_dce (module Dce) for a chain of blocks.             *)
(***************************************************************************)
EXTENDS Reassoc, FiniteSets
LOCAL INSTANCE SequencesExt

CONSTANT Procs          \* procedures the front-end built: records of their
                        \* ops, unsafeOpt and args, the arguments to try

VARIABLES built,        \* the procedure (history)
          meaning,      \* what it did for every argument (history)
          s,            \* the state of the passes
          repeat, pc

vars == <<built, meaning, s, repeat, pc>>

-----------------------------------------------------------------------------
(* Procedures.                                                             *)

HasOutput(o) == ~o.jump /\ o.op \notin {"iret", "si", "s2i", "nop"}

nInputs(o) ==
    CASE o.op \in {"nop", "alloc", "arg", "lci", "lcd", "jmp"} -> 0
      [] o.op \in {"jz", "jnz", "ineg", "inot", "dneg", "li"} -> 1
      [] o.op \in {"si", "l2i"} -> 2
      [] o.op = "s2i" -> 3
      [] o.op = "iret" -> IF o.hasImm THEN 0 ELSE 1
      [] OTHER -> IF o.hasImm THEN 1 ELSE 2

IsOperation(o) ==
    /\ DOMAIN o = DOMAIN Blank
    /\ o.jump \in BOOLEAN /\ o.hasImm \in BOOLEAN
    /\ o.in \in Seq(Nat) /\ Len(o.in) = nInputs(o)
    /\ IF o.jump THEN o.op \in {"jz", "jnz", "jmp"} \cup Compares
                 ELSE o.label = << >> /\ o.op \notin {"jz", "jnz", "jmp"}

(* An operand is computed before the operation that uses it.               *)
IsProcedure(ops) ==
    /\ ops \in Seq({ ops[i] : i \in DOMAIN ops })
    /\ \A i \in DOMAIN ops :
        /\ IsOperation(ops[i])
        /\ \A k \in DOMAIN ops[i].in : ops[i].in[k] \in 1..(i - 1)

(* ... and has not been renamed away.                                      *)
OperandsComputed(ops) ==
    \A i \in DOMAIN ops : \A k \in DOMAIN ops[i].in : HasOutput(ops[ops[i].in[k]])

ASSUME ProcsAssumption ==
    \A p \in Procs : IsProcedure(p.ops) /\ OperandsComputed(p.ops)

-----------------------------------------------------------------------------
(* What a procedure does: r.val are the values computed so far, r.mem the  *)
(* stores so far, r.out how it ended.                                      *)

StackBlock == 40        \* where "alloc" finds its block

Load(mem, addr) ==
    LET at == { k \in DOMAIN mem : mem[k][1] = addr }
    IN  IF at = {} THEN Signed(3 * addr + 1)
        ELSE mem[CHOOSE k \in at : \A j \in at : j <= k][2]

ValueOf(o, r, x, y, unsafe, args) ==
    CASE o.op = "arg" -> args[o.imm]
      [] o.op = "alloc" -> StackBlock
      [] o.op \in {"lci", "lcd"} -> o.imm
      [] o.op \in Compares -> CmpValue(o.op, x, y)
      [] o.op \in IntOps \cup DivOps -> IntValue(o.op, x, y)
      [] o.op \in DblOps -> DblValue(unsafe, o.op, x, y)
      [] o.op = "li" -> Load(r.mem, x)
      [] o.op = "l2i" -> Load(r.mem, Signed(x + y))
      [] OTHER -> 0

JumpTaken(o, x, y) ==
    CASE o.op = "jz" -> x = 0
      [] o.op = "jnz" -> x # 0
      [] o.op = "jmp" -> TRUE
      [] OTHER -> Holds(o.op, x, y)

Exec(r, o, unsafe, args) ==
    LET x == IF o.in = << >> THEN 0 ELSE r.val[o.in[1]]
        y == IF o.hasImm THEN o.imm ELSE IF Len(o.in) < 2 THEN 0 ELSE r.val[o.in[2]]
        End(what, v) == [r EXCEPT !.out = <<what, v>>]
        Value(v) == [r EXCEPT !.val = Append(@, v)]
        Store(p) == [r EXCEPT !.val = Append(@, 0), !.mem = Append(@, <<p, x>>)]
    IN  CASE o.jump -> IF o.label[IF JumpTaken(o, x, y) THEN 1 ELSE 2] = "exit"
                       THEN End("exit", IF o.alt = 0 THEN 0 ELSE r.val[o.alt])
                       ELSE Value(0)
          [] o.op = "iret" -> End("returned", IF o.hasImm THEN o.imm ELSE x)
          [] o.op \in DivOps /\ y = 0 -> End("trapped", 0)
          [] o.op = "si"  -> Store(y)
          [] o.op = "s2i" -> Store(Signed(y + r.val[o.in[3]]))
          [] OTHER -> Value(ValueOf(o, r, x, y, unsafe, args))

Outcome(ops, unsafe, args) ==
    LET r == FoldLeft(LAMBDA q, o : IF q.out = << >> THEN Exec(q, o, unsafe, args) ELSE q,
                      [val |-> << >>, mem |-> << >>, out |-> << >>], ops)
    IN  <<r.out, r.mem>>

Meaning(ops) == [a \in built.args |-> Outcome(ops, built.unsafe, a)]

-----------------------------------------------------------------------------
(* opt_dce: operations nothing can reach or nothing needs become nops, the *)
(* uses of the others are counted, those by alternatives of phis too.      *)

Ends(o) == o.op = "iret" \/ o.label = <<"exit">>
Kept(o, unsafe) == ~HasOutput(o) \/ (o.op \in DivOps /\ ~unsafe)

UsesBy(o, v) ==
    Cardinality({ k \in DOMAIN o.in : o.in[k] = v })
        + (IF o.alt = v /\ (\E k \in DOMAIN o.label : o.label[k] = "exit") THEN 1 ELSE 0)

Visit(t, i) ==
    IF /\ \A j \in 1..(i - 1) : ~Ends(t.ops[j])
       /\ t.nUse[i] > 0 \/ Kept(t.ops[i], t.unsafe)
    THEN [t EXCEPT !.nUse = [v \in DOMAIN @ |-> @[v] + UsesBy(t.ops[i], v)]]
    ELSE [t EXCEPT !.ops[i] = Blank]

Prune(t) ==
    LET n == Len(t.ops)
        after[m \in 0..n] ==
            IF m = 0 THEN [t EXCEPT !.nUse = [v \in 1..n |-> 0]]
            ELSE Visit(after[m - 1], n + 1 - m)
    IN  after[n]

-----------------------------------------------------------------------------
Init ==
    /\ built \in Procs
    /\ s = [ops |-> built.ops, nUse |-> << >>, unsafe |-> built.unsafe, at |-> 0,
            rename |-> << >>, progress |-> FALSE]
    /\ meaning = Meaning(built.ops)
    /\ repeat = FALSE
    /\ pc = "dce"

opt_dce ==
    /\ pc = "dce"
    /\ s' = [Prune(s) EXCEPT !.rename = << >>, !.at = 0, !.progress = FALSE]
    /\ repeat' = FALSE
    /\ pc' = "fold"
    /\ UNCHANGED <<built, meaning>>

(* The next operation that has operands or labels: the rules leave alone   *)
(* all others.                                                             *)
Following == { i \in DOMAIN s.ops : i > s.at /\ (s.ops[i].in # << >> \/ s.ops[i].label # << >>) }
Advanced(t) == [t EXCEPT !.at = CHOOSE i \in Following : \A j \in Following : i <= j]
NextRound(t) == [t EXCEPT !.at = 0, !.progress = FALSE]

foldOp ==
    /\ pc = "fold" /\ Following # {}
    /\ s' = FoldOp(Advanced(s))
    /\ UNCHANGED <<built, meaning, repeat, pc>>

(* "if we only made progress, then cleanup"                                *)
endFoldRound ==
    /\ pc = "fold" /\ Following = {}
    /\ repeat' = (repeat \/ s.progress)
    /\ pc' = IF s.progress THEN "fold" ELSE "reassoc"
    /\ s' = NextRound(IF repeat /\ ~s.progress THEN Prune(s) ELSE s)
    /\ UNCHANGED <<built, meaning>>

reassocOp ==
    /\ pc = "reassoc" /\ Following # {}
    /\ s' = ReassocOp(Advanced(s))
    /\ UNCHANGED <<built, meaning, repeat, pc>>

endReassocRound ==
    /\ pc = "reassoc" /\ Following = {}
    /\ repeat' = (repeat \/ s.progress)
    /\ pc' = IF s.progress THEN "reassoc" ELSE IF repeat THEN "dce" ELSE "done"
    /\ s' = NextRound(s)
    /\ UNCHANGED <<built, meaning>>

Step == opt_dce \/ foldOp \/ endFoldRound \/ reassocOp \/ endReassocRound
Terminated == pc = "done" /\ UNCHANGED vars

(* A sequential program goes on until it is done: WF_vars(Step), with      *)
(* "pc # done" for ENABLED Step.                                           *)
Fairness == []<>(pc = "done") \/ []<><<Step>>_vars

Spec == Init /\ [][Step \/ Terminated]_vars /\ Fairness

-----------------------------------------------------------------------------
(* Properties.                                                             *)

(* After every round of folding and of reassociation the procedure still   *)
(* returns, stores, branches and traps as the front-end asked for.         *)
MeaningKept == s.at = 0 => Meaning(s.ops) = meaning

OperandsBefore ==
    s.at = 0 => \A i \in DOMAIN s.ops : \A k \in DOMAIN s.ops[i].in :
        /\ s.ops[i].in[k] < i
        /\ HasOutput(s.ops[s.ops[i].in[k]])

TotalUses(ops, v) ==
    LET by[i \in 0..Len(ops)] == IF i = 0 THEN 0 ELSE by[i - 1] + UsesBy(ops[i], v)
    IN  by[Len(ops)]

UsesCounted == pc = "reassoc" => \A v \in DOMAIN s.ops : s.nUse[v] = TotalUses(s.ops, v)

(* An operand is computed before the operation that uses it and is not one *)
(* that was renamed away.  Reassociation rewrites an operand in place when *)
(* it is used once, and keeps count of uses while it moves operands        *)
(* around: the counts are those of the code at every round.                *)
SimplifySane == OperandsBefore /\ UsesCounted

(* fold is about to apply the rule for comparisons with zero to a jump     *)
(* that is one already: it forgets what is compared.                       *)
LosesOperand ==
    pc = "fold" /\ Following # {} /\ ComparesWithZero(Cur(Tested(Advanced(s))))

(* Folding never forgets what a jump is to test.                           *)
OperandKept == ~LosesOperand

(* When the passes have nothing more to do, no operation is left that      *)
(* computes on constants alone, except a division by zero, which the       *)
(* program is to run into.                                                 *)
ConstantsFolded ==
    pc = "done" => \A i \in DOMAIN s.ops :
        LET o == s.ops[i]
            Constant(k) == s.ops[o.in[k]].op \in {"lci", "lcd"}
        IN  o.op \in IntOps \cup Compares \cup DblOps
            => o.in # << >> /\ \E k \in DOMAIN o.in : ~Constant(k)

(* The order fold sorts operands into is the one reassociation wants:      *)
(* "otherwise we run into infinite loops".                                 *)
SimplifyTerminates == <>(pc = "done")
=============================================================================
