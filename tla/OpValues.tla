------------------------------ MODULE OpValues ------------------------------
(***************************************************************************)
(* What the operations of ir-ops.h compute, on words of WordBits bits.  The*)
(* code writes each of them twice: as a machine instruction and, in        *)
(* opt-fold.cpp, as the C++ expression that folds it on constants.         *)
(*                                                                         *)
(* A floating point value is a small number.  What the optimiser may do    *)
(* with one depends on unsafeOpt: without it the arithmetic rounds (here:  *)
(* saturates, so that it is commutative but not associative); with it only *)
(* the values of real arithmetic are promised (here: a prime field).  Zero *)
(* has no sign.                                                            *)
(***************************************************************************)
EXTENDS Integers

CONSTANTS WordBits,     \* 64 in the code
          ImmBits       \* 32 in the code: width of an immediate

ASSUME BitsAssumption ==
    /\ WordBits \in {8, 16} /\ ImmBits \in Nat \ {0} /\ 2 * ImmBits = WordBits

Word == 2 ^ WordBits
Signed(x) == ((x + Word \div 2) % Word) - Word \div 2
Unsigned(x) == x % Word

(* x == (int32_t) x                                                        *)
FitsImm(x) == x >= -(2 ^ (ImmBits - 1)) /\ x < 2 ^ (ImmBits - 1)
LeastImm == -(2 ^ (ImmBits - 1))

(* The C++ operators / and % round to zero.                                *)
Sign(x) == IF x < 0 THEN -1 ELSE 1
Quotient(x, y) == Sign(x) * Sign(y) * ((Sign(x) * x) \div (Sign(y) * y))
Remainder(x, y) == x - y * Quotient(x, y)

(* Bitwise "and" of words, four bits at a time.                            *)
Bit(x, i) == (x \div 2 ^ i) % 2
AndTable ==
    [p \in (0..15) \X (0..15) |->
        LET both(i) == 2 ^ i * Bit(p[1], i) * Bit(p[2], i)
        IN  both(0) + both(1) + both(2) + both(3)]
AndNibble(x, y, k) == AndTable[(x \div 16 ^ k) % 16, (y \div 16 ^ k) % 16] * 16 ^ k
And(x, y) ==
    LET low == AndNibble(x, y, 0) + AndNibble(x, y, 1)
    IN  Signed(IF WordBits = 8 THEN low
               ELSE low + AndNibble(x, y, 2) + AndNibble(x, y, 3))

(* The machine takes a shift count modulo the width of the word.           *)
Count(n) == n % WordBits

IntValue(c, x, y) ==
    CASE c = "iadd" -> Signed(x + y)
      [] c = "isub" -> Signed(x - y)
      [] c = "imul" -> Signed(x * y)
      [] c = "ineg" -> Signed(-x)
      [] c = "inot" -> -x - 1
      [] c = "iand" -> And(x, y)
      [] c = "ior"  -> Signed(x + y - And(x, y))
      [] c = "ixor" -> Signed(x + y - 2 * And(x, y))
      [] c = "ishl" -> Signed(x * 2 ^ Count(y))
      [] c = "ishr" -> x \div 2 ^ Count(y)
      [] c = "ushr" -> Signed(Unsigned(x) \div 2 ^ Count(y))
      [] c = "idiv" -> Signed(Quotient(x, y))
      [] c = "imod" -> Remainder(x, y)
      [] c = "udiv" -> Signed(Unsigned(x) \div Unsigned(y))
      [] c = "umod" -> Signed(Unsigned(x) % Unsigned(y))

IntOps == {"iadd", "isub", "imul", "ineg", "inot", "iand", "ior", "ixor",
           "ishl", "ishr", "ushr"}
DivOps == {"idiv", "imod", "udiv", "umod"}      \* by zero: a trap

-----------------------------------------------------------------------------
NaN == 99
Prime == 11
Number(unsafe, x) ==
    IF x = NaN THEN NaN
    ELSE IF unsafe THEN x % Prime
    ELSE IF x > 4 THEN 4 ELSE IF x < -4 THEN -4 ELSE x

DblValue(unsafe, c, x, y) ==
    IF NaN \in {x, y} \/ (c = "ddiv" /\ y = 0) THEN NaN
    ELSE Number(unsafe,
        CASE c = "dadd" -> x + y
          [] c = "dsub" -> x - y
          [] c = "dneg" -> -x
          [] c = "dmul" -> x * y
          [] c = "ddiv" -> IF unsafe THEN CHOOSE z \in 0..(Prime - 1) : (z * y) % Prime = x
                           ELSE Quotient(x, y))

DblOps == {"dadd", "dsub", "dneg", "dmul", "ddiv"}

-----------------------------------------------------------------------------
(* "(xor 1)" negates a comparison, "(xor 2)" swaps its operands; the first *)
(* letter tells signed, unsigned and floating point comparisons apart.     *)
Negated == [ilt |-> "ige", ige |-> "ilt", igt |-> "ile", ile |-> "igt",
            ult |-> "uge", uge |-> "ult", ugt |-> "ule", ule |-> "ugt",
            dlt |-> "dge", dge |-> "dlt", dgt |-> "dle", dle |-> "dgt",
            ieq |-> "ine", ine |-> "ieq", deq |-> "dne", dne |-> "deq"]
Swapped == [ilt |-> "igt", ige |-> "ile", igt |-> "ilt", ile |-> "ige",
            ult |-> "ugt", uge |-> "ule", ugt |-> "ult", ule |-> "uge",
            dlt |-> "dgt", dge |-> "dle", dgt |-> "dlt", dle |-> "dge"]

DblCompares == {"dlt", "dge", "dgt", "dle", "deq", "dne"}
Ordered == DOMAIN Swapped
Compares == DOMAIN Negated
IntCompares == Compares \ DblCompares

Holds(c, x, y) ==
    CASE c \in DblCompares /\ NaN \in {x, y} -> c = "dne"
      [] c \in {"ilt", "dlt"} -> x < y
      [] c \in {"ige", "dge"} -> x >= y
      [] c \in {"igt", "dgt"} -> x > y
      [] c \in {"ile", "dle"} -> x <= y
      [] c \in {"ieq", "deq"} -> x = y
      [] c \in {"ine", "dne"} -> x # y
      [] c = "ult" -> Unsigned(x) < Unsigned(y)
      [] c = "uge" -> Unsigned(x) >= Unsigned(y)
      [] c = "ugt" -> Unsigned(x) > Unsigned(y)
      [] c = "ule" -> Unsigned(x) <= Unsigned(y)

CmpValue(c, x, y) == IF Holds(c, x, y) THEN 1 ELSE 0
=============================================================================
