--------------------------- MODULE HashTableProofs ---------------------------
(***************************************************************************)
(* For any keys, values, hash functions and sizes: bjit::HashTable is a    *)
(* map, find() returns every stored item, and no probe ever fails.         *)
(***************************************************************************)
EXTENDS HashTable, SetInduction

-----------------------------------------------------------------------------
(* Division.                                                               *)

LEMMA Division ==
    ASSUME NEW a \in Int, NEW b \in Int, b > 0
    PROVE  a = b * (a \div b) + (a % b) /\ a \div b \in Int /\ a % b \in 0..(b - 1)
OBVIOUS

LEMMA Divides ==
    ASSUME NEW a \in Int, NEW b \in Int, b > 0, a % b = 0
    PROVE  \E q \in Int : a = b * q
<1> WITNESS a \div b \in Int
<1> QED
  OBVIOUS

LEMMA Multiple ==
    ASSUME NEW b \in Nat \ {0}, NEW q \in Nat
    PROVE  (b * q) % b = 0
OBVIOUS

LEMMA EvenOrOdd ==
    ASSUME NEW a \in Int
    PROVE  \E k \in Int : a = 2 * k \/ a = 2 * k + 1
<1>1. /\ a = 2 * (a \div 2) + (a % 2) /\ a \div 2 \in Int /\ a % 2 \in 0..1
  OBVIOUS
<1>2. a = 2 * (a \div 2) \/ a = 2 * (a \div 2) + 1
  BY <1>1
<1> QED
  BY <1>1, <1>2

LEMMA Parity ==
    ASSUME NEW k \in Int
    PROVE  (2 * k) % 2 = 0 /\ (2 * k + 1) % 2 = 1
OBVIOUS

-----------------------------------------------------------------------------
(* The sizes of the table.                                                 *)

(* No odd number but 1 divides n.                                          *)
PowerOf2(n) ==
    n \in Nat \ {0} /\ \A d, q \in Nat : n = d * q /\ d % 2 = 1 => d = 1

LEMMA SizesArePowers ==
    ASSUME NEW n \in Nat, n > 0
    PROVE  PowerOf2(n) <=> \A d \in 2..n : n % d = 0 => d % 2 = 0
<1>1. ASSUME PowerOf2(n), NEW d \in 2..n, n % d = 0
      PROVE  d % 2 = 0
  <2>1. d \in Nat /\ d > 0 /\ d # 1
    OBVIOUS
  <2>2. PICK q \in Int : n = d * q
    BY <1>1, <2>1, Divides
  <2>3. q \in Nat
    BY <2>1, <2>2
  <2>4. d % 2 # 1
    BY <1>1, <2>1, <2>2, <2>3 DEF PowerOf2
  <2> QED
    BY <2>1, <2>4
<1>2. ASSUME \A d \in 2..n : n % d = 0 => d % 2 = 0,
             NEW d \in Nat, NEW q \in Nat, n = d * q, d % 2 = 1
      PROVE  d = 1
  <2>1. d > 0 /\ q > 0
    BY <1>2
  <2>2. d <= n
    BY <2>1, <1>2
  <2>3. (d * q) % d = 0
    BY <2>1, Multiple
  <2> QED
    BY <1>2, <2>1, <2>2, <2>3
<1>3. ASSUME \A d \in 2..n : n % d = 0 => d % 2 = 0
      PROVE  PowerOf2(n)
  BY <1>2, <1>3 DEF PowerOf2
<1> QED
  BY <1>1, <1>3

(* Doubling and halving.                                                   *)
LEMMA DoubledPower ==
    ASSUME NEW n, PowerOf2(n)
    PROVE  PowerOf2(2 * n)
<1>1. n \in Nat /\ n > 0
  BY DEF PowerOf2
<1> SUFFICES ASSUME NEW d \in Nat, NEW q \in Nat, 2 * n = d * q, d % 2 = 1
             PROVE  d = 1
  BY <1>1 DEF PowerOf2
<1>2. PICK j \in Int : d = 2 * j + 1
  BY EvenOrOdd, Parity
<1>3. PICK k \in Int : q = 2 * k \/ q = 2 * k + 1
  <2>1. q \in Int
    OBVIOUS
  <2> QED
    BY <2>1, EvenOrOdd
<1>4. CASE q = 2 * k
  <2>1. d * (2 * k) = 2 * (d * k) /\ d * k \in Int
    OBVIOUS
  <2>2. n = d * k
    BY <2>1, <1>1, <1>4
  <2>3. k \in Nat
    BY <1>4
  <2> QED
    BY <2>2, <2>3 DEF PowerOf2
<1>5. CASE q = 2 * k + 1
  <2>1. (2 * j + 1) * (2 * k + 1) = 2 * (2 * (j * k) + j + k) + 1
    OBVIOUS
  <2>2. 2 * (j * k) + j + k \in Int
    OBVIOUS
  <2>3. 2 * n = 2 * (2 * (j * k) + j + k) + 1
    BY <2>1, <1>2, <1>5
  <2> QED
    BY <2>2, <2>3, <1>1, Parity
<1> QED
  BY <1>3, <1>4, <1>5

LEMMA HalvedPower ==
    ASSUME NEW n, PowerOf2(n), n > 1
    PROVE  \E m \in Nat : n = 2 * m /\ PowerOf2(m)
<1>1. n \in Nat /\ n % 2 = 0
  <2>1. n \in Nat /\ 1 \in Nat /\ n = n * 1 /\ n # 1
    BY DEF PowerOf2
  <2>2. n % 2 # 1
    BY <2>1 DEF PowerOf2
  <2> QED
    BY <2>1, <2>2
<1>2. PICK m \in Int : n = 2 * m
  BY <1>1, Divides
<1>3. m \in Nat /\ m > 0
  BY <1>1, <1>2
<1>4. ASSUME NEW d \in Nat, NEW q \in Nat, m = d * q, d % 2 = 1
      PROVE  d = 1
  <2>1. d * (2 * q) = 2 * (d * q) /\ 2 * q \in Nat
    OBVIOUS
  <2> QED
    BY <2>1, <1>2, <1>4 DEF PowerOf2
<1>5. PowerOf2(m)
  BY <1>3, <1>4 DEF PowerOf2
<1> QED
  BY <1>2, <1>3, <1>5

(* An odd factor does not help a power of two to divide a product.         *)
LEMMA OddFactor ==
    ASSUME NEW a \in Int, a % 2 = 1
    PROVE  \A n \in Nat : PowerOf2(n) =>
                \A x, q \in Int : a * x = n * q => \E z \in Int : x = n * z
<1> DEFINE Cancels(n) == \A x, q \in Int : a * x = n * q => \E z \in Int : x = n * z
           T == { n \in Nat : PowerOf2(n) /\ ~Cancels(n) }
<1> SUFFICES ASSUME T # {}
             PROVE  FALSE
  OBVIOUS
<1>1. PICK n \in T : \A y \in T : n <= y
  <2>1. T \subseteq Nat
    OBVIOUS
  <2> HIDE DEF T
  <2> QED
    BY <2>1, LeastNumber
<1>2. PowerOf2(n) /\ n \in Nat /\ n > 0
  BY DEF PowerOf2
<1>3. PICK x \in Int, q \in Int : a * x = n * q /\ ~ \E z \in Int : x = n * z
  OBVIOUS
<1>4. CASE n = 1
  BY <1>3, <1>4
<1>5. CASE n > 1
  <2>1. PICK m \in Nat : n = 2 * m /\ PowerOf2(m)
    BY <1>2, <1>5, HalvedPower
  <2>2. m < n
    BY <2>1, <1>5
  <2>3. Cancels(m)
    <3> HIDE DEF Cancels
    <3> QED
      BY <1>1, <2>1, <2>2
  <2>4. PICK b \in Int : a = 2 * b + 1
    BY EvenOrOdd, Parity
  <2>5. PICK y \in Int : x = 2 * y \/ x = 2 * y + 1
    BY EvenOrOdd
  <2>6. a * x = 2 * (m * q) /\ m * q \in Int
    BY <1>3, <2>1
  <2>7. x = 2 * y
    <3> SUFFICES ASSUME x = 2 * y + 1
                 PROVE  FALSE
      BY <2>5
    <3>1. (2 * b + 1) * (2 * y + 1) = 2 * (2 * (b * y) + b + y) + 1
      OBVIOUS
    <3>2. 2 * (b * y) + b + y \in Int
      OBVIOUS
    <3>3. 2 * (m * q) = 2 * (2 * (b * y) + b + y) + 1
      BY <3>1, <2>4, <2>6
    <3> QED
      BY <3>2, <3>3, <2>6, Parity
  <2>8. a * y = m * q
    <3>1. a * (2 * y) = 2 * (a * y) /\ a * y \in Int
      OBVIOUS
    <3> QED
      BY <3>1, <2>6, <2>7
  <2>9. PICK z \in Int : y = m * z
    BY <2>3, <2>8
  <2>10. x = n * z
    <3>1. 2 * (m * z) = (2 * m) * z
      OBVIOUS
    <3> QED
      BY <3>1, <2>1, <2>7, <2>9
  <2> QED
    BY <2>10, <1>3
<1> QED
  BY <1>2, <1>4, <1>5

LEMMA OddCancels ==
    ASSUME NEW a \in Int, a % 2 = 1, NEW n \in Nat, PowerOf2(n),
           NEW x \in Int, NEW q \in Int, a * x = n * q
    PROVE  \E z \in Int : x = n * z
<1>1. \A y, r \in Int : a * y = n * r => \E z \in Int : y = n * z
  BY OddFactor
<1> QED
  BY <1>1

LEMMA NoMultiple ==
    ASSUME NEW b \in Nat, NEW x \in Int, 0 < x, x < b, NEW w \in Int, x = b * w
    PROVE  FALSE
<1>1. CASE w <= 0
  <2>1. b * w <= 0
    BY <1>1
  <2> QED
    BY <2>1
<1>2. CASE w >= 1
  <2>1. b * w >= b
    BY <1>2
  <2> QED
    BY <2>1
<1> QED
  BY <1>1, <1>2

-----------------------------------------------------------------------------
(* The probe sequence of a key visits every slot, once.                    *)

LEMMA OddProduct ==
    ASSUME NEW m \in Nat, PowerOf2(m), NEW x \in Int, x % 2 = 1,
           NEW y \in Int, 0 < y, y < m, NEW z \in Int, x * y = m * z
    PROVE  FALSE
<1>1. \E w \in Int : y = m * w
  BY OddCancels
<1>2. PICK w \in Int : y = m * w
  BY <1>1
<1> QED
  BY <1>2, NoMultiple

Triangle(j) == (j + j * j) \div 2

LEMMA Triangular ==
    ASSUME NEW j \in Nat
    PROVE  Triangle(j) \in Nat /\ 2 * Triangle(j) = j + j * j
<1>1. PICK k \in Int : j = 2 * k \/ j = 2 * k + 1
  <2>1. j \in Int
    OBVIOUS
  <2> QED
    BY <2>1, EvenOrOdd
<1>2. CASE j = 2 * k
  <2>1. (2 * k) + (2 * k) * (2 * k) = 2 * (k + 2 * (k * k)) /\ k * k \in Int
    OBVIOUS
  <2>2. j + j * j = 2 * (k + 2 * (k * k))
    BY <2>1, <1>2
  <2>3. k >= 0 /\ k * k >= 0
    BY <1>2
  <2> QED
    BY <2>1, <2>2, <2>3 DEF Triangle
<1>3. CASE j = 2 * k + 1
  <2>1. (2 * k + 1) + (2 * k + 1) * (2 * k + 1) = 2 * (2 * (k * k) + 3 * k + 1)
        /\ k * k \in Int
    OBVIOUS
  <2>2. j + j * j = 2 * (2 * (k * k) + 3 * k + 1)
    BY <2>1, <1>3
  <2>3. k >= 0 /\ k * k >= 0
    BY <1>3
  <2> QED
    BY <2>1, <2>2, <2>3 DEF Triangle
<1> QED
  BY <1>1, <1>2, <1>3

LEMMA OddStepIsOdd ==
    ASSUME NEW k \in Keys
    PROVE  OddStep(k) \in Nat /\ OddStep(k) % 2 = 1 /\ HashLow[k] \in Nat
BY HashAssumption DEF OddStep

LEMMA ProbeType ==
    ASSUME NEW k \in Keys, NEW n \in Nat, n > 0, NEW j \in Nat
    PROVE  /\ Probe(k, j, n) = (HashLow[k] + OddStep(k) * Triangle(j)) % n
           /\ HashLow[k] + OddStep(k) * Triangle(j) \in Nat
           /\ Probe(k, j, n) \in 0..(n - 1)
<1>1. Probe(k, j, n) = (HashLow[k] + OddStep(k) * Triangle(j)) % n
  BY DEF Probe, Triangle
<1>2. OddStep(k) * Triangle(j) \in Nat
  <2>1. OddStep(k) \in Nat /\ Triangle(j) \in Nat
    BY OddStepIsOdd, Triangular
  <2> QED
    BY <2>1
<1>3. HashLow[k] + OddStep(k) * Triangle(j) \in Nat
  BY <1>2, OddStepIsOdd
<1> QED
  BY <1>1, <1>3

LEMMA LaterProbeDiffers ==
    ASSUME NEW k \in Keys, NEW n, PowerOf2(n),
           NEW i \in 0..(n - 1), NEW j \in 0..(n - 1), i < j
    PROVE  Probe(k, i, n) # Probe(k, j, n)
<1> DEFINE a == OddStep(k)
           Ti == Triangle(i)
           Tj == Triangle(j)
           hi == HashLow[k] + a * Ti
           hj == HashLow[k] + a * Tj
<1> SUFFICES ASSUME Probe(k, i, n) = Probe(k, j, n)
             PROVE  FALSE
  OBVIOUS
<1>1. n \in Nat /\ n > 0 /\ i \in Nat /\ j \in Nat
  BY DEF PowerOf2
<1>2. a \in Nat /\ a % 2 = 1 /\ HashLow[k] \in Nat
  BY OddStepIsOdd
<1>3. Ti \in Nat /\ Tj \in Nat /\ 2 * Ti = i + i * i /\ 2 * Tj = j + j * j
  BY <1>1, Triangular
<1>4. hi % n = hj % n /\ hi \in Nat /\ hj \in Nat
  BY <1>1, ProbeType
<1> HIDE DEF a, Ti, Tj
<1>5. PICK q \in Int : hj - hi = n * q
  <2> HIDE DEF hi, hj
  <2>1. /\ hi = n * (hi \div n) + (hi % n) /\ hi \div n \in Int
        /\ hj = n * (hj \div n) + (hj % n) /\ hj \div n \in Int
    BY <1>1, <1>4, Division
  <2>2. hj - hi = n * (hj \div n) - n * (hi \div n)
    BY <2>1, <1>1, <1>4
  <2>3. n * (hj \div n) - n * (hi \div n) = n * ((hj \div n) - (hi \div n))
    BY <2>1, <1>1
  <2> QED
    BY <2>1, <2>2, <2>3
<1>6. a * (Tj - Ti) = n * q
  BY <1>2, <1>3, <1>5
<1>7. PICK z \in Int : Tj - Ti = n * z
  <2> DEFINE d == Tj - Ti
  <2>1. d \in Int /\ a * d = n * q /\ a \in Int
    BY <1>2, <1>3, <1>6
  <2>2. a % 2 = 1 /\ n \in Nat /\ PowerOf2(n)
    BY <1>1, <1>2
  <2> HIDE DEF d, hi, hj
  <2>3. \E z \in Int : d = n * z
    BY <2>1, <2>2, OddCancels
  <2> QED
    BY <2>3 DEF d
<1>8. (j - i) * (j + i + 1) = (2 * n) * z
  <2>1. (j - i) * (j + i + 1) = (j + j * j) - (i + i * i)
    BY <1>1
  <2>2. (2 * n) * z = 2 * (n * z) /\ n * z \in Int
    BY <1>1
  <2> QED
    BY <2>1, <2>2, <1>3, <1>7
<1>9. PowerOf2(2 * n) /\ 2 * n \in Nat
  BY <1>1, DoubledPower
<1>10. /\ 0 < j - i /\ j - i < 2 * n /\ j - i \in Int
       /\ 0 < j + i + 1 /\ j + i + 1 < 2 * n /\ j + i + 1 \in Int
  BY <1>1
<1>11. (j - i) % 2 = 1 \/ (j + i + 1) % 2 = 1
  BY <1>1
<1> DEFINE m == 2 * n
           x == j - i
           y == j + i + 1
<1>12. m \in Nat /\ PowerOf2(m) /\ x \in Int /\ y \in Int
  BY <1>9, <1>10
<1>13. x * y = m * z
  BY <1>8
<1>14. y * x = m * z
  BY <1>12, <1>13
<1>15. 0 < x /\ x < m /\ 0 < y /\ y < m
  BY <1>10
<1> HIDE DEF m, x, y
<1>16. CASE x % 2 = 1
  BY <1>12, <1>13, <1>15, <1>16, OddProduct
<1>17. CASE y % 2 = 1
  BY <1>12, <1>14, <1>15, <1>17, OddProduct
<1> QED
  BY <1>11, <1>16, <1>17 DEF x, y

LEMMA ProbeInjective ==
    ASSUME NEW k \in Keys, NEW n, PowerOf2(n),
           NEW i \in 0..(n - 1), NEW j \in 0..(n - 1), Probe(k, i, n) = Probe(k, j, n)
    PROVE  i = j
<1>1. i \in Int /\ j \in Int
  OBVIOUS
<1>2. ~(i < j) /\ ~(j < i)
  BY LaterProbeDiffers
<1> QED
  BY <1>1, <1>2

LEMMA ProbeSurjective ==
    ASSUME NEW k \in Keys, NEW n, PowerOf2(n), NEW i \in 0..(n - 1)
    PROVE  \E j \in 0..(n - 1) : Probe(k, j, n) = i
<1> DEFINE S == 0..(n - 1)
           f == [j \in S |-> Probe(k, j, n)]
<1>1. n \in Nat /\ n > 0
  BY DEF PowerOf2
<1>2. f \in [S -> S]
  BY <1>1, ProbeType
<1>3. \A x, y \in S : f[x] = f[y] => x = y
  BY ProbeInjective
<1>4. f \in Injection(S, S)
  <2> HIDE DEF f
  <2> QED
    BY <1>2, <1>3 DEF Injection, IsInjective
<1>5. IsFiniteSet(S)
  BY <1>1, FS_Interval
<1>6. f \in Surjection(S, S)
  <2> HIDE DEF f, S
  <2> QED
    BY <1>4, <1>5, FS_Injection
<1> QED
  BY <1>6 DEF Surjection

-----------------------------------------------------------------------------
(* The table.                                                              *)

Slot == {FreeSlot, RemovedSlot} \cup { UsedSlot(i) : i \in Item }

KeysUnique(s) == \A i, j \in InUse(s) : s[i].item.key = s[j].item.key => i = j

(* The search for k gets as far as probe j: no free slot ends it before.   *)
Reaches(s, k, j) == \A e \in 0..(j - 1) : s[Probe(k, e, Size(s))].tag # "free"

Reachable(s) ==
    \A i \in InUse(s) : \E j \in DOMAIN s :
        /\ Probe(s[i].item.key, j, Size(s)) = i
        /\ Reaches(s, s[i].item.key, j)

TableOK(s) ==
    /\ Size(s) \in TableSizes /\ s \in [0..(Size(s) - 1) -> Slot]
    /\ KeysUnique(s) /\ Reachable(s)

(* Some slot is free or removed.                                           *)
Spare(s) == InUse(s) # DOMAIN s

LEMMA SizeFacts ==
    ASSUME NEW n \in TableSizes
    PROVE  n \in Nat /\ n >= 4 /\ n <= MaxSlots /\ PowerOf2(n)
<1>1. n \in Nat /\ n >= 4 /\ n <= MaxSlots
  BY MaxSlotsAssumption DEF TableSizes, minSlots
<1>2. \A d \in 2..n : n % d = 0 => d % 2 = 0
  BY DEF TableSizes
<1> QED
  BY <1>1, <1>2, SizesArePowers

LEMMA TableFacts ==
    ASSUME NEW s, TableOK(s)
    PROVE  /\ Size(s) \in Nat /\ Size(s) >= 4 /\ PowerOf2(Size(s))
           /\ DOMAIN s = 0..(Size(s) - 1) /\ \A i \in DOMAIN s : s[i] \in Slot
BY SizeFacts DEF TableOK

LEMMA SizeOf ==
    ASSUME NEW n \in Nat, n > 0, NEW X, NEW s \in [0..(n - 1) -> X]
    PROVE  Size(s) = n
<1>1. DOMAIN s = 0..(n - 1)
  OBVIOUS
<1>2. Cardinality(0..(n - 1)) = n
  BY FS_Interval
<1> QED
  BY <1>1, <1>2 DEF Size

LEMMA SlotKinds ==
    ASSUME NEW t \in Slot
    PROVE  /\ t.tag \in {"free", "removed", "inUse"}
           /\ t.tag = "inUse" => t.item \in Item /\ t = UsedSlot(t.item)
BY DEF Slot, FreeSlot, RemovedSlot, UsedSlot

(* A least element, as CHOOSE finds it.                                    *)
LEMMA LeastIs ==
    ASSUME NEW S, S \subseteq Nat, S # {}
    PROVE  Least(S) \in S /\ \A x \in S : Least(S) <= x
<1>1. \E x \in S : \A y \in S : x <= y
  BY LeastNumber
<1> QED
  BY <1>1 DEF Least

LEMMA ProbeInTable ==
    ASSUME NEW s, TableOK(s), NEW k \in Keys, NEW j \in DOMAIN s
    PROVE  Probe(k, j, Size(s)) \in DOMAIN s
<1>1. Size(s) \in Nat /\ Size(s) > 0 /\ DOMAIN s = 0..(Size(s) - 1)
  BY TableFacts
<1>2. j \in Nat
  BY <1>1
<1> QED
  BY <1>1, <1>2, ProbeType

LEMMA TableSpares ==
    ASSUME NEW s, TableOK(s), NEW used \in Nat, Cardinality(InUse(s)) <= used,
           ~Crowded(Size(s), used)
    PROVE  Spare(s)
<1>1. Size(s) \in Nat /\ Size(s) >= 4
  BY TableFacts
<1>2. used < Size(s)
  BY <1>1 DEF Crowded, freeFactor
<1>3. Cardinality(DOMAIN s) = Size(s)
  BY DEF Size
<1> QED
  BY <1>1, <1>2, <1>3 DEF Spare

(* Probing always comes to an end, because some probe meets a spare slot.  *)
LEMMA SpareIsProbed ==
    ASSUME NEW s, TableOK(s), Spare(s), NEW k \in Keys
    PROVE  /\ Tagged(s, k, "free") \cup Tagged(s, k, "removed") # {}
           /\ ~ProbeFails(s, k)
<1>1. PICK i \in DOMAIN s : s[i].tag # "inUse"
  BY DEF Spare, InUse
<1>2. s[i].tag \in {"free", "removed"}
  BY <1>1, TableFacts, SlotKinds
<1>3. PICK j \in DOMAIN s : Probe(k, j, Size(s)) = i
  <2>1. PowerOf2(Size(s)) /\ DOMAIN s = 0..(Size(s) - 1)
    BY TableFacts
  <2> QED
    BY <2>1, ProbeSurjective
<1>4. j \in Tagged(s, k, "free") \cup Tagged(s, k, "removed")
  BY <1>2, <1>3 DEF Tagged
<1> QED
  BY <1>4 DEF ProbeFails

(* What internalFind() returns: the slot of the key, or else one that is   *)
(* not in use, and a search for the key gets there.                        *)
LEMMA FoundSlot ==
    ASSUME NEW s, TableOK(s), Spare(s), NEW k \in Keys
    PROVE  /\ internalFind(s, k) \in DOMAIN s
           /\ \A i \in InUse(s) : s[i].item.key = k <=> i = internalFind(s, k)
           /\ \E j \in DOMAIN s :
                Probe(k, j, Size(s)) = internalFind(s, k) /\ Reaches(s, k, j)
<1> DEFINE N == Size(s)
           M == Matches(s, k)
           F == Tagged(s, k, "free")
           R == Tagged(s, k, "removed")
           p(j) == Probe(k, j, N)
<1>1. DOMAIN s = 0..(N - 1) /\ N \in Nat
  BY TableFacts
<1>2. M \subseteq DOMAIN s /\ F \subseteq DOMAIN s /\ R \subseteq DOMAIN s
  BY DEF Matches, Tagged
<1>3. M \cup F \subseteq Nat /\ F \cup R \subseteq Nat
  BY <1>1, <1>2
<1>4. F \cup R # {}
  BY SpareIsProbed
<1>5. \A j \in DOMAIN s : p(j) \in DOMAIN s
  BY ProbeInTable
<1>6. \A j \in DOMAIN s : j \in F <=> s[p(j)].tag = "free"
  BY DEF Tagged
<1>7. \A j \in DOMAIN s :
            j \in M <=> p(j) \in InUse(s) /\ s[p(j)].item.key = k
  BY <1>5 DEF Matches, Tagged, InUse
<1> HIDE DEF M, F, R
<1>8. CASE M \cup F # {} /\ Least(M \cup F) \in M
  <2> DEFINE j == Least(M \cup F)
  <2>1. j \in DOMAIN s /\ internalFind(s, k) = p(j)
    BY <1>2, <1>8 DEF internalFind, M, F
  <2>2. p(j) \in InUse(s) /\ s[p(j)].item.key = k
    BY <2>1, <1>7, <1>8
  <2>3. \A x \in M \cup F : j <= x
    BY <1>3, <1>8, LeastIs
  <2> HIDE DEF j
  <2>4. Reaches(s, k, j)
    <3>1. ASSUME NEW e \in 0..(j - 1)
          PROVE  s[p(e)].tag # "free"
      <4>1. e \in DOMAIN s /\ ~(j <= e)
        BY <2>1, <1>1
      <4> QED
        BY <4>1, <2>3, <1>6
    <3> QED
      BY <3>1 DEF Reaches
  <2>5. \A i \in InUse(s) : s[i].item.key = k => i = p(j)
    BY <2>2 DEF TableOK, KeysUnique
  <2> QED
    BY <2>1, <2>2, <2>4, <2>5, <1>5
<1>9. CASE ~(M \cup F # {} /\ Least(M \cup F) \in M)
  <2> DEFINE j == Least(F \cup R)
  <2>1. j \in F \cup R /\ \A x \in F \cup R : j <= x
    BY <1>3, <1>4, LeastIs
  <2>2. j \in DOMAIN s /\ internalFind(s, k) = p(j)
    BY <2>1, <1>2, <1>9 DEF internalFind, M, F, R
  <2>3. s[p(j)].tag # "inUse"
    BY <2>1 DEF F, R, Tagged
  <2> HIDE DEF j
  <2>4. Reaches(s, k, j)
    <3>1. ASSUME NEW e \in 0..(j - 1)
          PROVE  s[p(e)].tag # "free"
      <4>1. e \in DOMAIN s /\ ~(j <= e)
        BY <2>2, <1>1
      <4> QED
        BY <4>1, <2>1, <1>6
    <3> QED
      BY <3>1 DEF Reaches
  <2>5. ASSUME NEW i \in InUse(s), s[i].item.key = k
        PROVE  FALSE
    <3>1. PICK x \in DOMAIN s : p(x) = i /\ Reaches(s, k, x)
      BY <2>5 DEF TableOK, Reachable
    <3>2. x \in M
      BY <3>1, <2>5, <1>7
    <3>3. Least(M \cup F) \in F /\ Least(M \cup F) <= x
      <4>1. M \cup F # {}
        BY <3>2
      <4>2. Least(M \cup F) \in M \cup F /\ Least(M \cup F) <= x
        BY <4>1, <3>2, <1>3, LeastIs
      <4> QED
        BY <4>1, <4>2, <1>9
    <3> DEFINE y == Least(M \cup F)
    <3>4. y \in DOMAIN s /\ s[p(y)].tag = "free" /\ s[p(x)].tag = "inUse"
      BY <3>1, <3>3, <1>2, <1>6 DEF InUse
    <3>5. y \in 0..(x - 1)
      <4> HIDE DEF y
      <4>1. y # x
        BY <3>4
      <4>2. y <= x
        BY <3>3 DEF y
      <4> QED
        BY <4>1, <4>2, <3>4, <1>1
    <3> QED
      BY <3>1, <3>4, <3>5 DEF Reaches
  <2> QED
    BY <2>2, <2>3, <2>4, <2>5, <1>5 DEF InUse
<1> QED
  BY <1>8, <1>9

(* find() returns the item of the key, if there is one.                    *)
LEMMA FindsStored ==
    ASSUME NEW s, TableOK(s), Spare(s), NEW i \in InUse(s)
    PROVE  find(s, s[i].item.key) = {s[i].item}
<1>1. s[i].item.key \in Keys
  <2>1. s[i] \in Slot /\ s[i].tag = "inUse"
    BY TableFacts DEF InUse
  <2>2. s[i].item \in Item
    BY <2>1, SlotKinds
  <2> QED
    BY <2>2 DEF Item
<1>2. i = internalFind(s, s[i].item.key)
  BY <1>1, FoundSlot
<1> QED
  BY <1>2 DEF find, InUse

-----------------------------------------------------------------------------
(* Changes to the table.                                                   *)

LEMMA UsedFinite ==
    ASSUME NEW s, TableOK(s)
    PROVE  IsFiniteSet(InUse(s)) /\ Cardinality(InUse(s)) \in Nat
<1>1. DOMAIN s = 0..(Size(s) - 1) /\ Size(s) \in Nat
  BY TableFacts
<1>2. IsFiniteSet(DOMAIN s)
  BY <1>1, FS_Interval
<1>3. IsFiniteSet(InUse(s))
  BY <1>2, FS_Subset DEF InUse
<1> QED
  BY <1>3, FS_CardinalityType

(* A change of slots that frees none keeps every search as far as it got.  *)
LEMMA ReachesMore ==
    ASSUME NEW s, TableOK(s), NEW t, DOMAIN t = DOMAIN s,
           \A i \in DOMAIN s : t[i].tag = "free" => s[i].tag = "free",
           NEW k \in Keys, NEW j \in DOMAIN s, Reaches(s, k, j)
    PROVE  Reaches(t, k, j)
<1>1. Size(t) = Size(s)
  BY DEF Size
<1>2. \A e \in 0..(j - 1) : e \in DOMAIN s
  BY TableFacts
<1>3. \A e \in 0..(j - 1) : Probe(k, e, Size(s)) \in DOMAIN s
  BY <1>2, ProbeInTable
<1> QED
  BY <1>1, <1>3 DEF Reaches

LEMMA UsedKeys ==
    ASSUME NEW s, TableOK(s), NEW i \in InUse(s)
    PROVE  s[i].item \in Item /\ s[i].item.key \in Keys /\ s[i] = UsedSlot(s[i].item)
<1>1. s[i] \in Slot /\ s[i].tag = "inUse"
  BY TableFacts DEF InUse
<1>2. s[i].item \in Item /\ s[i] = UsedSlot(s[i].item)
  BY <1>1, SlotKinds
<1> QED
  BY <1>2 DEF Item

LEMMA Place ==
    ASSUME NEW s, TableOK(s), Spare(s), NEW i \in Item,
           NEW t, t = [s EXCEPT ![internalFind(s, i.key)] = UsedSlot(i)]
    PROVE  /\ TableOK(t) /\ Size(t) = Size(s) /\ InUse(t) # {}
           /\ Stored(t) = { x \in Stored(s) : x.key # i.key } \cup {i}
           /\ Cardinality(InUse(t)) <= Cardinality(InUse(s)) + 1
<1> DEFINE p == internalFind(s, i.key)
           N == Size(s)
<1>1. i.key \in Keys
  BY DEF Item
<1>2. /\ p \in DOMAIN s
      /\ \A x \in InUse(s) : s[x].item.key = i.key <=> x = p
  BY <1>1, FoundSlot
<1>3. PICK j \in DOMAIN s : Probe(i.key, j, N) = p /\ Reaches(s, i.key, j)
  BY <1>1, FoundSlot
<1> HIDE DEF p
<1>4. /\ DOMAIN t = DOMAIN s /\ t[p] = UsedSlot(i)
      /\ \A x \in DOMAIN s : x # p => t[x] = s[x]
  BY <1>2 DEF p
<1>5. Size(t) = N
  BY <1>4 DEF Size
<1>6. /\ UsedSlot(i).tag = "inUse" /\ UsedSlot(i).item = i /\ UsedSlot(i) \in Slot
  BY DEF UsedSlot, Slot
<1>7. InUse(t) = InUse(s) \cup {p}
  BY <1>2, <1>4, <1>6 DEF InUse
<1>8. t \in [0..(N - 1) -> Slot]
  <2>1. s \in [0..(N - 1) -> Slot]
    BY DEF TableOK
  <2> HIDE DEF N
  <2> QED
    BY <2>1, <1>6 DEF p
<1>9. KeysUnique(t)
  <2>1. \A x \in InUse(t) : t[x].item.key = i.key <=> x = p
    BY <1>2, <1>4, <1>6, <1>7 DEF InUse
  <2>2. \A x \in InUse(t) : x # p => x \in InUse(s) /\ t[x] = s[x]
    BY <1>4, <1>7 DEF InUse
  <2>3. \A x, y \in InUse(s) : s[x].item.key = s[y].item.key => x = y
    BY DEF TableOK, KeysUnique
  <2>4. ASSUME NEW x \in InUse(t), NEW y \in InUse(t),
               t[x].item.key = t[y].item.key
        PROVE  x = y
    <3>1. CASE x = p
      BY <2>1, <2>4, <3>1
    <3>2. CASE x # p
      <4>1. y # p
        BY <2>1, <2>4, <3>2
      <4> QED
        BY <2>2, <2>3, <2>4, <3>2, <4>1
    <3> QED
      BY <3>1, <3>2
  <2> QED
    BY <2>4 DEF KeysUnique
<1>10. Reachable(t)
  <2>1. \A x \in DOMAIN s : t[x].tag = "free" => s[x].tag = "free"
    BY <1>4, <1>6
  <2> SUFFICES ASSUME NEW x \in InUse(t)
               PROVE  \E e \in DOMAIN t : /\ Probe(t[x].item.key, e, Size(t)) = x
                                          /\ Reaches(t, t[x].item.key, e)
    BY DEF Reachable
  <2> USE <1>5
  <2>2. CASE x = p
    <3>1. Reaches(t, i.key, j)
      BY <2>1, <1>1, <1>3, <1>4, ReachesMore
    <3>2. t[x].item.key = i.key /\ j \in DOMAIN t
      BY <2>2, <1>3, <1>4, <1>6
    <3>3. Probe(t[x].item.key, j, N) = x /\ Reaches(t, t[x].item.key, j)
      BY <2>2, <3>1, <3>2, <1>3
    <3> QED
      BY <3>2, <3>3
  <2>3. CASE x # p
    <3>1. x \in InUse(s) /\ t[x] = s[x]
      BY <2>3, <1>4, <1>7 DEF InUse
    <3>2. PICK e \in DOMAIN s : /\ Probe(s[x].item.key, e, N) = x
                                /\ Reaches(s, s[x].item.key, e)
      BY <3>1 DEF TableOK, Reachable
    <3>3. s[x].item.key \in Keys
      BY <3>1, UsedKeys
    <3>4. Reaches(t, s[x].item.key, e)
      BY <2>1, <3>2, <3>3, <1>4, ReachesMore
    <3> QED
      BY <3>1, <3>2, <3>4, <1>4
  <2> QED
    BY <2>2, <2>3
<1>11. TableOK(t)
  BY <1>5, <1>8, <1>9, <1>10 DEF TableOK
<1>12. Stored(t) = { x \in Stored(s) : x.key # i.key } \cup {i}
  <2>1. ASSUME NEW x
        PROVE  x \in Stored(t) <=> (x \in Stored(s) /\ x.key # i.key) \/ x = i
    <3>1. x \in Stored(t) <=> \E y \in InUse(t) : x = t[y].item
      BY DEF Stored
    <3>2. x \in Stored(s) <=> \E y \in InUse(s) : x = s[y].item
      BY DEF Stored
    <3> QED
      BY <3>1, <3>2, <1>2, <1>4, <1>6, <1>7 DEF InUse
  <2> QED
    BY <2>1
<1>13. Cardinality(InUse(t)) <= Cardinality(InUse(s)) + 1
  <2>1. IsFiniteSet(InUse(s)) /\ Cardinality(InUse(s)) \in Nat
    BY UsedFinite
  <2>2. Cardinality(InUse(s) \cup {p}) =
            IF p \in InUse(s) THEN Cardinality(InUse(s)) ELSE Cardinality(InUse(s)) + 1
    BY <2>1, FS_AddElement
  <2>3. \/ Cardinality(InUse(t)) = Cardinality(InUse(s))
        \/ Cardinality(InUse(t)) = Cardinality(InUse(s)) + 1
    BY <2>2, <1>7
  <2> QED
    BY <2>1, <2>3
<1> QED
  BY <1>5, <1>7, <1>11, <1>12, <1>13

LEMMA Remove ==
    ASSUME NEW s, TableOK(s), NEW p \in InUse(s),
           NEW t, t = [s EXCEPT ![p] = RemovedSlot]
    PROVE  /\ TableOK(t) /\ Size(t) = Size(s)
           /\ Stored(t) = { x \in Stored(s) : x.key # s[p].item.key }
           /\ Cardinality(InUse(t)) = Cardinality(InUse(s)) - 1
<1> DEFINE N == Size(s)
<1>1. p \in DOMAIN s
  BY DEF InUse
<1>2. /\ DOMAIN t = DOMAIN s /\ t[p] = RemovedSlot
      /\ \A x \in DOMAIN s : x # p => t[x] = s[x]
  BY <1>1
<1>3. Size(t) = N
  BY <1>2 DEF Size
<1>4. RemovedSlot.tag = "removed" /\ RemovedSlot \in Slot
  BY DEF RemovedSlot, Slot
<1>5. InUse(t) = InUse(s) \ {p}
  BY <1>1, <1>2, <1>4 DEF InUse
<1>6. t \in [0..(N - 1) -> Slot]
  <2>1. s \in [0..(N - 1) -> Slot]
    BY DEF TableOK
  <2> HIDE DEF N
  <2> QED
    BY <2>1, <1>4
<1>7. KeysUnique(t)
  <2>1. \A x \in InUse(t) : x \in InUse(s) /\ t[x] = s[x]
    BY <1>2, <1>5 DEF InUse
  <2>2. \A x, y \in InUse(s) : s[x].item.key = s[y].item.key => x = y
    BY DEF TableOK, KeysUnique
  <2>3. ASSUME NEW x \in InUse(t), NEW y \in InUse(t),
               t[x].item.key = t[y].item.key
        PROVE  x = y
    <3>1. x \in InUse(s) /\ y \in InUse(s) /\ t[x] = s[x] /\ t[y] = s[y]
      BY <2>1
    <3> QED
      BY <2>2, <2>3, <3>1
  <2> QED
    BY <2>3 DEF KeysUnique
<1>8. Reachable(t)
  <2>1. \A x \in DOMAIN s : t[x].tag = "free" => s[x].tag = "free"
    BY <1>2, <1>4
  <2> SUFFICES ASSUME NEW x \in InUse(t)
               PROVE  \E e \in DOMAIN t : /\ Probe(t[x].item.key, e, Size(t)) = x
                                          /\ Reaches(t, t[x].item.key, e)
    BY DEF Reachable
  <2> USE <1>3
  <2>2. x \in InUse(s) /\ t[x] = s[x]
    BY <1>2, <1>5 DEF InUse
  <2>3. PICK e \in DOMAIN s : /\ Probe(s[x].item.key, e, N) = x
                              /\ Reaches(s, s[x].item.key, e)
    BY <2>2 DEF TableOK, Reachable
  <2>4. s[x].item.key \in Keys
    BY <2>2, UsedKeys
  <2>5. Reaches(t, s[x].item.key, e)
    BY <2>1, <2>3, <2>4, <1>2, ReachesMore
  <2> QED
    BY <2>2, <2>3, <2>5, <1>2
<1>9. TableOK(t)
  BY <1>3, <1>6, <1>7, <1>8 DEF TableOK
<1>10. Stored(t) = { x \in Stored(s) : x.key # s[p].item.key }
  <2>1. \A x \in InUse(s) : s[x].item.key = s[p].item.key => x = p
    BY DEF TableOK, KeysUnique
  <2>2. ASSUME NEW x
        PROVE  x \in Stored(t) <=> x \in Stored(s) /\ x.key # s[p].item.key
    <3>1. x \in Stored(t) <=> \E y \in InUse(t) : x = t[y].item
      BY DEF Stored
    <3>2. x \in Stored(s) <=> \E y \in InUse(s) : x = s[y].item
      BY DEF Stored
    <3> QED
      BY <3>1, <3>2, <2>1, <1>2, <1>5 DEF InUse
  <2> QED
    BY <2>2
<1>11. Cardinality(InUse(t)) = Cardinality(InUse(s)) - 1
  BY <1>5, UsedFinite, FS_RemoveElement
<1> QED
  BY <1>3, <1>9, <1>10, <1>11

LEMMA EmptyTable ==
    ASSUME NEW n \in TableSizes
    PROVE  /\ TableOK(Empty(n)) /\ Size(Empty(n)) = n /\ InUse(Empty(n)) = {}
           /\ Stored(Empty(n)) = {} /\ Cardinality(InUse(Empty(n))) = 0
<1>1. n \in Nat /\ n > 0
  BY SizeFacts
<1>2. FreeSlot \in Slot /\ FreeSlot.tag = "free"
  BY DEF Slot, FreeSlot
<1>3. Empty(n) \in [0..(n - 1) -> Slot] /\ \A i \in DOMAIN Empty(n) : Empty(n)[i] = FreeSlot
  BY <1>2 DEF Empty
<1>4. Size(Empty(n)) = n
  BY <1>1, <1>3, SizeOf
<1>5. InUse(Empty(n)) = {}
  BY <1>2, <1>3 DEF InUse
<1> QED
  BY <1>3, <1>4, <1>5, FS_EmptySet DEF TableOK, KeysUnique, Reachable, Stored

-----------------------------------------------------------------------------
(* The sizes that reserve() and rehash() choose.                           *)

LEMMA WantedSize ==
    ASSUME NEW fit \in FitSizes \cup {0}
    PROVE  WantSize(fit) \in TableSizes
<1> DEFINE S == { n \in TableSizes : n >= SlotsFor(fit) }
<1>1. S # {}
  BY FitAssumption
<1>2. S \subseteq Nat
  BY SizeFacts
<1>3. Least(S) \in S
  <2> HIDE DEF S
  <2> QED
    BY <1>1, <1>2, LeastIs
<1> QED
  BY <1>3 DEF WantSize

LEMMA CompactedSize ==
    ASSUME NEW n \in TableSizes, NEW used
    PROVE  CompactSize(n, used) \in TableSizes
<1> DEFINE S == { m \in TableSizes : m <= n /\ \A larger \in TableSizes :
                m < larger /\ larger <= n => Accepts(larger \div 2, used + minSlots) }
<1>1. \A m \in TableSizes : m \in Nat
  BY SizeFacts
<1>2. n \in S
  BY <1>1
<1>3. S \subseteq Nat
  BY <1>1
<1>4. Least(S) \in S
  <2> HIDE DEF S
  <2> QED
    BY <1>2, <1>3, LeastIs
<1> QED
  BY <1>4 DEF CompactSize

LEMMA DoubledSize ==
    ASSUME NEW n \in TableSizes, 2 * n <= MaxSlots
    PROVE  2 * n \in TableSizes
<1>1. n \in Nat /\ n >= 4 /\ PowerOf2(n)
  BY SizeFacts
<1>2. PowerOf2(2 * n)
  BY <1>1, DoubledPower
<1>3. \A d \in 2..(2 * n) : (2 * n) % d = 0 => d % 2 = 0
  <2> DEFINE m == 2 * n
  <2>1. m \in Nat /\ m > 0
    BY <1>1
  <2> HIDE DEF m
  <2>2. PowerOf2(m)
    BY <1>2 DEF m
  <2>3. \A d \in 2..m : m % d = 0 => d % 2 = 0
    BY <2>1, <2>2, SizesArePowers
  <2> QED
    BY <2>3 DEF m
<1> QED
  BY <1>1, <1>3, MaxSlotsAssumption DEF TableSizes, minSlots

-----------------------------------------------------------------------------
(* The items that resize() reinserts.                                      *)

DistinctKeys(q) == \A m, n \in 1..Len(q) : q[m].key = q[n].key => m = n

ItemsIn(q) == { q[m] : m \in 1..Len(q) }

(* A finite set of numbers can be listed in increasing order: the place of *)
(* a number is how many are not greater.                                   *)
LEMMA Ordered ==
    ASSUME NEW S \in SUBSET Nat, IsFiniteSet(S)
    PROVE  \E f \in [1..Cardinality(S) -> S] :
                /\ \A m, n \in DOMAIN f : m < n => f[m] < f[n]
                /\ \A x \in S : \E m \in 1..Cardinality(S) : f[m] = x
<1> DEFINE N == Cardinality(S)
           Upto(x) == { y \in S : y <= x }
           rank == [x \in S |-> Cardinality(Upto(x))]
<1>1. N \in Nat
  BY FS_CardinalityType
<1>2. \A x \in S : /\ Upto(x) \in SUBSET S /\ IsFiniteSet(Upto(x)) /\ x \in Upto(x)
                   /\ Cardinality(Upto(x)) \in Nat /\ Cardinality(Upto(x)) <= N
  <2>1. \A x \in S : x <= x
    OBVIOUS
  <2>2. \A x \in S : Upto(x) \in SUBSET S /\ x \in Upto(x)
    BY <2>1
  <2>3. \A x \in S : IsFiniteSet(Upto(x)) /\ Cardinality(Upto(x)) <= N
    <3> HIDE DEF Upto
    <3> QED
      BY <2>2, FS_Subset
  <2> HIDE DEF Upto
  <2> QED
    BY <2>2, <2>3, FS_CardinalityType
<1>3. \A x \in S : rank[x] \in 1..N
  <2>1. \A x \in S : Cardinality(Upto(x)) # 0
    <3> HIDE DEF Upto
    <3> QED
      BY <1>2, FS_EmptySet
  <2> HIDE DEF Upto
  <2> QED
    BY <1>1, <1>2, <2>1
<1>4. ASSUME NEW x \in S, NEW y \in S, x < y
      PROVE  rank[x] < rank[y]
  <2>1. Upto(x) \in SUBSET Upto(y) /\ y \in Upto(y) /\ y \notin Upto(x)
    <3>1. x \in Nat /\ y \in Nat /\ y <= y /\ ~(y <= x)
      BY <1>4
    <3>2. \A z \in S : z <= x => z <= y
      BY <3>1
    <3> QED
      BY <3>1, <3>2
  <2>2. /\ Cardinality(Upto(x)) \in Nat /\ Cardinality(Upto(y)) \in Nat
        /\ IsFiniteSet(Upto(y))
    BY <1>2
  <2> HIDE DEF Upto
  <2>3. /\ Cardinality(Upto(x)) <= Cardinality(Upto(y))
        /\ Cardinality(Upto(y)) = Cardinality(Upto(x)) => Upto(y) = Upto(x)
    BY <2>1, <2>2, FS_Subset
  <2> QED
    BY <2>1, <2>2, <2>3
<1> HIDE DEF rank, Upto
<1>5. \A x, y \in S : rank[x] = rank[y] => x = y
  <2> SUFFICES ASSUME NEW x \in S, NEW y \in S, rank[x] = rank[y]
               PROVE  x = y
    OBVIOUS
  <2>1. rank[x] \in Nat /\ ~(x < y) /\ ~(y < x)
    BY <1>3, <1>4
  <2> QED
    BY <2>1
<1>6. rank \in Surjection(S, 1..N)
  <2>1. rank \in [S -> 1..N]
    BY <1>3 DEF rank
  <2>2. rank \in Injection(S, 1..N)
    BY <2>1, <1>5 DEF Injection, IsInjective
  <2>3. IsFiniteSet(1..N) /\ Cardinality(1..N) = N
    BY <1>1, FS_Interval
  <2> QED
    BY <2>2, <2>3, FS_Injection
<1>7. \A m \in 1..N : \E x \in S : rank[x] = m
  BY <1>6 DEF Surjection
<1> DEFINE f == [m \in 1..N |-> CHOOSE x \in S : rank[x] = m]
<1>8. \A m \in 1..N : f[m] \in S /\ rank[f[m]] = m
  BY <1>7
<1>9. f \in [1..N -> S] /\ DOMAIN f = 1..N
  BY <1>8
<1> HIDE DEF f
<1>10. ASSUME NEW m \in 1..N, NEW n \in 1..N, m < n
       PROVE  f[m] < f[n]
  <2>1. f[m] \in S /\ f[n] \in S /\ rank[f[m]] = m /\ rank[f[n]] = n
    BY <1>8
  <2>2. f[m] # f[n] /\ ~(f[n] < f[m])
    <3>1. m \in Int /\ n \in Int /\ m # n /\ ~(n < m)
      BY <1>10
    <3> QED
      BY <2>1, <3>1, <1>4
  <2>3. f[m] \in Nat /\ f[n] \in Nat
    BY <2>1
  <2> QED
    BY <2>2, <2>3
<1>11. \A x \in S : f[rank[x]] = x /\ rank[x] \in 1..N
  BY <1>3, <1>5, <1>8
<1> QED
  BY <1>9, <1>10, <1>11

LEMMA ListedItems ==
    ASSUME NEW s, TableOK(s)
    PROVE  /\ ItemsOf(s) \in Seq(Item) /\ DistinctKeys(ItemsOf(s))
           /\ ItemsIn(ItemsOf(s)) = Stored(s)
           /\ InUse(s) # {} => ItemsOf(s) # << >>
<1> DEFINE N == Cardinality(InUse(s))
           Increasing(f) == \A m, n \in DOMAIN f : m < n => f[m] < f[n]
           order == CHOOSE f \in [1..N -> InUse(s)] : Increasing(f)
<1>1. IsFiniteSet(InUse(s)) /\ N \in Nat
  BY UsedFinite
<1>2. InUse(s) \in SUBSET Nat
  <2>1. DOMAIN s \subseteq Nat
    BY TableFacts
  <2> QED
    BY <2>1 DEF InUse
<1>3. \E f \in [1..N -> InUse(s)] : Increasing(f)
  BY <1>1, <1>2, Ordered
<1>4. order \in [1..N -> InUse(s)] /\ Increasing(order)
  <2> HIDE DEF Increasing, N
  <2> QED
    BY <1>3
<1>5. ItemsOf(s) = [n \in 1..N |-> s[order[n]].item]
  BY DEF ItemsOf
<1> HIDE DEF order
<1>6. \A m, n \in 1..N : order[m] = order[n] => m = n
  <2> SUFFICES ASSUME NEW m \in 1..N, NEW n \in 1..N, order[m] = order[n]
               PROVE  m = n
    OBVIOUS
  <2>1. order[m] \in Nat /\ DOMAIN order = 1..N /\ m \in Int /\ n \in Int
    BY <1>2, <1>4
  <2>2. ~(m < n) /\ ~(n < m)
    BY <2>1, <1>4
  <2> QED
    BY <2>1, <2>2
<1>7. \A x \in InUse(s) : \E n \in 1..N : order[n] = x
  <2>1. order \in Injection(1..N, InUse(s))
    BY <1>4, <1>6 DEF Injection, IsInjective
  <2>2. Cardinality(1..N) = N /\ IsFiniteSet(1..N)
    BY <1>1, FS_Interval
  <2>3. order \in Surjection(1..N, InUse(s))
    BY <2>1, <2>2, <1>1, FS_Injection
  <2> QED
    BY <2>3 DEF Surjection
<1>8. \A n \in 1..N : order[n] \in InUse(s) /\ s[order[n]].item \in Item
  BY <1>4, UsedKeys
<1> DEFINE q == ItemsOf(s)
<1>9. q \in Seq(Item) /\ Len(q) = N /\ \A n \in 1..N : q[n] = s[order[n]].item
  BY <1>1, <1>5, <1>8
<1> HIDE DEF q, N
<1>10. DistinctKeys(q)
  BY <1>6, <1>8, <1>9 DEF DistinctKeys, TableOK, KeysUnique
<1>11. ItemsIn(q) = Stored(s)
  <2>1. ASSUME NEW x
        PROVE  x \in ItemsIn(q) <=> x \in Stored(s)
    <3>1. x \in ItemsIn(q) <=> \E n \in 1..N : x = q[n]
      BY <1>9 DEF ItemsIn
    <3>2. x \in Stored(s) <=> \E y \in InUse(s) : x = s[y].item
      BY DEF Stored
    <3> QED
      BY <3>1, <3>2, <1>7, <1>8, <1>9
  <2> QED
    BY <2>1
<1>12. InUse(s) # {} => q # << >>
  BY <1>1, <1>7, <1>9
<1> QED
  BY <1>9, <1>10, <1>11, <1>12 DEF q

(* Two lists without a key in common.                                      *)
LEMMA Concatenated ==
    ASSUME NEW q \in Seq(Item), NEW r \in Seq(Item), DistinctKeys(q), DistinctKeys(r),
           \A x \in ItemsIn(q), y \in ItemsIn(r) : x.key # y.key
    PROVE  /\ q \o r \in Seq(Item) /\ DistinctKeys(q \o r)
           /\ ItemsIn(q \o r) = ItemsIn(q) \cup ItemsIn(r)
<1> DEFINE c == q \o r
           A == Len(q)
           B == Len(r)
<1>1. /\ c \in Seq(Item) /\ A \in Nat /\ B \in Nat /\ Len(c) = A + B
      /\ \A n \in 1..(A + B) : c[n] = IF n <= A THEN q[n] ELSE r[n - A]
  OBVIOUS
<1> HIDE DEF c, A, B
<1>2. \A n \in 1..A : n \in 1..(A + B) /\ c[n] = q[n] /\ q[n] \in ItemsIn(q)
  BY <1>1 DEF ItemsIn, A
<1>3. \A n \in 1..B : n + A \in 1..(A + B) /\ c[n + A] = r[n] /\ r[n] \in ItemsIn(r)
  BY <1>1 DEF ItemsIn, B
<1>4. \A n \in 1..(A + B) : n \in 1..A \/ \E m \in 1..B : n = m + A
  <2> SUFFICES ASSUME NEW n \in 1..(A + B), n \notin 1..A
               PROVE  \E m \in 1..B : n = m + A
    OBVIOUS
  <2>1. n - A \in 1..B /\ n = (n - A) + A
    BY <1>1
  <2> QED
    BY <2>1
<1>5. DistinctKeys(c)
  <2> SUFFICES ASSUME NEW m \in 1..(A + B), NEW n \in 1..(A + B), c[m].key = c[n].key
               PROVE  m = n
    BY <1>1 DEF DistinctKeys
  <2>1. CASE m \in 1..A /\ n \in 1..A
    BY <2>1, <1>2 DEF DistinctKeys, A
  <2>2. CASE m \in 1..A /\ \E k \in 1..B : n = k + A
    BY <2>2, <1>2, <1>3
  <2>3. CASE n \in 1..A /\ \E k \in 1..B : m = k + A
    BY <2>3, <1>2, <1>3
  <2>4. CASE (\E k \in 1..B : m = k + A) /\ (\E k \in 1..B : n = k + A)
    BY <2>4, <1>3 DEF DistinctKeys, B
  <2> QED
    BY <2>1, <2>2, <2>3, <2>4, <1>4
<1>6. ItemsIn(c) = ItemsIn(q) \cup ItemsIn(r)
  <2>1. \A x : x \in ItemsIn(c) <=> \E n \in 1..(A + B) : x = c[n]
    BY <1>1 DEF ItemsIn
  <2>2. \A x : /\ x \in ItemsIn(q) <=> \E n \in 1..A : x = q[n]
               /\ x \in ItemsIn(r) <=> \E n \in 1..B : x = r[n]
    BY DEF ItemsIn, A, B
  <2>3. ASSUME NEW x, x \in ItemsIn(c)
        PROVE  x \in ItemsIn(q) \/ x \in ItemsIn(r)
    <3>1. PICK n \in 1..(A + B) : x = c[n]
      BY <2>1, <2>3
    <3> QED
      BY <3>1, <1>2, <1>3, <1>4
  <2>4. ASSUME NEW x, x \in ItemsIn(q) \/ x \in ItemsIn(r)
        PROVE  x \in ItemsIn(c)
    BY <2>1, <2>2, <2>4, <1>2, <1>3
  <2> QED
    BY <2>3, <2>4
<1> QED
  BY <1>1, <1>5, <1>6 DEF c

LEMMA NextItems ==
    ASSUME NEW q \in Seq(Item), q # << >>, DistinctKeys(q)
    PROVE  /\ Head(q) \in Item /\ Tail(q) \in Seq(Item) /\ DistinctKeys(Tail(q))
           /\ ItemsIn(q) = {Head(q)} \cup ItemsIn(Tail(q))
           /\ \A x \in ItemsIn(Tail(q)) : x.key # Head(q).key
<1> DEFINE t == Tail(q)
           N == Len(q)
<1>1. /\ N \in Nat /\ N > 0 /\ q[1] = Head(q) /\ Head(q) \in Item
      /\ t \in Seq(Item) /\ Len(t) = N - 1
      /\ \A n \in 1..(N - 1) : t[n] = q[n + 1] /\ n + 1 \in 1..N /\ n + 1 # 1
  OBVIOUS
<1> HIDE DEF t, N
<1>2. DistinctKeys(t)
  BY <1>1 DEF DistinctKeys, N
<1>3. \A n \in 1..N : n = 1 \/ (n - 1 \in 1..(N - 1) /\ q[n] = t[n - 1])
  BY <1>1
<1>4. 1 \in 1..N
  BY <1>1
<1>5. \A x : /\ x \in ItemsIn(q) <=> \E n \in 1..N : x = q[n]
             /\ x \in ItemsIn(t) <=> \E n \in 1..(N - 1) : x = t[n]
  BY <1>1 DEF ItemsIn, N
<1>6. ItemsIn(q) = {Head(q)} \cup ItemsIn(t)
  <2>1. \A x : x \in ItemsIn(q) <=> x = Head(q) \/ x \in ItemsIn(t)
    BY <1>1, <1>3, <1>4, <1>5
  <2> QED
    BY <2>1
<1>7. \A x \in ItemsIn(t) : x.key # Head(q).key
  BY <1>1, <1>4, <1>5 DEF DistinctKeys, N
<1> QED
  BY <1>1, <1>2, <1>6, <1>7 DEF t

-----------------------------------------------------------------------------
(* The inductive invariant.                                                *)

(* The table always has a spare slot, because nUsed, which counts every    *)
(* insertion, those that replace an item and those a clear() undid, too,   *)
(* is never less than the slots in use.  A spare slot is what ends a       *)
(* search, and what StoredIsFound needs to be kept by the next insertion.  *)
LoadInv ==
    /\ TableOK(slots)
    /\ nUsed \in Nat /\ Cardinality(InUse(slots)) <= nUsed
    /\ ~Crowded(Size(slots), nUsed)

(* An item that waits for its reinsertion is no other version of one that  *)
(* is in the table, or that waits with it.                                 *)
TodoInv ==
    /\ todo \in Seq(Item) /\ DistinctKeys(todo)
    /\ \A x \in Stored(slots), y \in ItemsIn(todo) : x.key # y.key

HashInv == LoadInv /\ TodoInv /\ (doing = "idle" => todo = << >>)

Contents == Stored(slots) \cup Pending

LEMMA NothingListed == ItemsIn(<< >>) = {} /\ DistinctKeys(<< >>) /\ << >> \in Seq(Item)
<1>1. 1..Len(<< >>) = {}
  OBVIOUS
<1> QED
  BY <1>1 DEF ItemsIn, DistinctKeys

LEMMA NotCrowdedEmpty ==
    ASSUME NEW n \in TableSizes
    PROVE  ~Crowded(n, 0)
BY SizeFacts DEF Crowded, freeFactor

LEMMA InitHashInv == Init => HashInv /\ Contents = {}
<1> SUFFICES ASSUME Init
             PROVE  HashInv /\ Contents = {}
  OBVIOUS
<1>1. WantSize(0) \in TableSizes
  BY WantedSize
<1>2. /\ TableOK(slots) /\ Size(slots) \in TableSizes /\ Stored(slots) = {}
      /\ Cardinality(InUse(slots)) = 0
  BY <1>1, EmptyTable DEF Init
<1>3. LoadInv
  BY <1>2, NotCrowdedEmpty DEF Init, LoadInv
<1>4. todo = << >> /\ ItemsIn(todo) = {} /\ TodoInv
  BY <1>2, NothingListed DEF Init, TodoInv
<1> QED
  BY <1>2, <1>3, <1>4 DEF HashInv, Contents, Pending, ItemsIn

LEMMA InsertItemKeeps ==
    ASSUME LoadInv, NEW i \in Item, NEW rest \in Seq(Item), DistinctKeys(rest),
           \A y \in ItemsIn(rest) : y.key # i.key /\ \A x \in Stored(slots) : x.key # y.key,
           InsertItem(i, rest)
    PROVE  /\ LoadInv' /\ TodoInv'
           /\ Contents' = { x \in Stored(slots) : x.key # i.key } \cup {i} \cup ItemsIn(rest)
<1> DEFINE placed == [slots EXCEPT ![internalFind(slots, i.key)] = UsedSlot(i)]
           N == Size(slots)
<1>1. TableOK(slots) /\ Spare(slots)
  BY TableSpares DEF LoadInv
<1>2. /\ TableOK(placed) /\ Size(placed) = N /\ InUse(placed) # {}
      /\ Stored(placed) = { x \in Stored(slots) : x.key # i.key } \cup {i}
      /\ Cardinality(InUse(placed)) <= Cardinality(InUse(slots)) + 1
  BY <1>1, Place
<1>3. /\ nUsed \in Nat /\ Cardinality(InUse(slots)) <= nUsed
      /\ Cardinality(InUse(slots)) \in Nat /\ Cardinality(InUse(placed)) \in Nat
  BY <1>1, <1>2, UsedFinite DEF LoadInv
<1>4. CASE Crowded(N, nUsed + 1)
  <2>1. /\ 2 * N <= MaxSlots /\ slots' = Empty(2 * N) /\ nUsed' = 0
        /\ todo' = ItemsOf(placed) \o rest
    BY <1>4 DEF InsertItem
  <2>2. 2 * N \in TableSizes
    BY <2>1, <1>1, DoubledSize DEF TableOK
  <2>3. /\ TableOK(slots') /\ Size(slots') = 2 * N /\ Stored(slots') = {}
        /\ Cardinality(InUse(slots')) = 0
    BY <2>1, <2>2, EmptyTable
  <2>4. LoadInv'
    BY <2>1, <2>2, <2>3, NotCrowdedEmpty DEF LoadInv
  <2> DEFINE q == ItemsOf(placed)
  <2>5. q \in Seq(Item) /\ DistinctKeys(q) /\ ItemsIn(q) = Stored(placed)
    BY <1>2, ListedItems
  <2> HIDE DEF q, placed
  <2>6. \A x \in ItemsIn(q), y \in ItemsIn(rest) : x.key # y.key
    BY <2>5, <1>2
  <2>7. /\ q \o rest \in Seq(Item) /\ DistinctKeys(q \o rest)
        /\ ItemsIn(q \o rest) = ItemsIn(q) \cup ItemsIn(rest)
    BY <2>5, <2>6, Concatenated
  <2>8. todo' = q \o rest
    BY <2>1 DEF q
  <2>9. TodoInv'
    BY <2>3, <2>7, <2>8 DEF TodoInv
  <2>10. Contents' = Stored(slots') \cup ItemsIn(todo')
    BY DEF Contents, Pending, ItemsIn
  <2> QED
    BY <2>3, <2>4, <2>5, <2>7, <2>8, <2>9, <2>10, <1>2
<1>5. CASE ~Crowded(N, nUsed + 1)
  <2>1. slots' = placed /\ nUsed' = nUsed + 1 /\ todo' = rest
    BY <1>5 DEF InsertItem
  <2> HIDE DEF placed
  <2>2. nUsed' \in Nat /\ Cardinality(InUse(placed)) <= nUsed'
    BY <2>1, <1>2, <1>3
  <2>3. LoadInv'
    BY <2>1, <2>2, <1>2, <1>5 DEF LoadInv
  <2>4. TodoInv'
    BY <2>1, <1>2 DEF TodoInv
  <2>5. Contents' = Stored(slots') \cup ItemsIn(todo')
    BY DEF Contents, Pending, ItemsIn
  <2> QED
    BY <2>1, <2>3, <2>4, <2>5, <1>2
<1> QED
  BY <1>4, <1>5

(* resize() loses no item.                                                 *)
LEMMA ResizeKeeps ==
    ASSUME HashInv, doing = "idle", NEW n \in TableSizes, resize(n)
    PROVE  LoadInv' /\ TodoInv' /\ Contents' = Contents
<1>1. TableOK(slots) /\ todo = << >> /\ ItemsIn(todo) = {}
  BY NothingListed DEF HashInv, LoadInv
<1>2. /\ slots' = Empty(n) /\ TableOK(slots') /\ Size(slots') = n
      /\ Stored(slots') = {} /\ Cardinality(InUse(slots')) = 0
  BY EmptyTable DEF resize
<1>3. nUsed' = 0
  BY DEF resize
<1>4. LoadInv'
  BY <1>2, <1>3, NotCrowdedEmpty DEF LoadInv
<1>5. /\ Contents = Stored(slots) \cup ItemsIn(todo)
      /\ Contents' = Stored(slots') \cup ItemsIn(todo')
  BY DEF Contents, Pending, ItemsIn
<1>6. CASE nUsed = 0
  <2>1. todo' = << >>
    BY <1>1, <1>6 DEF resize
  <2>2. Stored(slots) = {}
    <3>1. Cardinality(InUse(slots)) = 0
      BY <1>1, <1>6, UsedFinite DEF HashInv, LoadInv
    <3>2. InUse(slots) = {}
      BY <3>1, <1>1, UsedFinite, FS_EmptySet
    <3> QED
      BY <3>2 DEF Stored
  <2> QED
    BY <2>1, <2>2, <1>1, <1>2, <1>4, <1>5, NothingListed DEF TodoInv
<1>7. CASE nUsed # 0
  <2>1. todo' = ItemsOf(slots)
    BY <1>7 DEF resize
  <2> QED
    BY <2>1, <1>1, <1>2, <1>4, <1>5, ListedItems DEF TodoInv
<1> QED
  BY <1>6, <1>7

-----------------------------------------------------------------------------
(* One lemma per operation: it keeps the invariant, and is a step of the   *)
(* map or none.                                                            *)

Keeps == HashInv' /\ [Map!MapNext]_Contents

LEMMA MapItems == \A k : Map!ItemsWithKey(k) = { x \in Contents : x.key = k }
BY DEF Map!ItemsWithKey, Contents

LEMMA InsertKeeps ==
    ASSUME HashInv, NEW i \in Item, insert(i)
    PROVE  Keeps
<1>1. todo = << >> /\ InsertItem(i, << >>) /\ LoadInv
  BY DEF insert, HashInv
<1>2. /\ LoadInv' /\ TodoInv'
      /\ Contents' = { x \in Stored(slots) : x.key # i.key } \cup {i} \cup ItemsIn(<< >>)
  BY <1>1, NothingListed, InsertItemKeeps
<1>3. doing' = "idle" => todo' = << >>
  BY DEF insert, Continue
<1>4. Contents = Stored(slots)
  BY <1>1, NothingListed DEF Contents, Pending, ItemsIn
<1>5. Map!Put(i)
  BY <1>2, <1>4, MapItems, NothingListed DEF Map!Put, Contents
<1>6. Map!MapNext
  BY <1>5 DEF Map!MapNext, Map!Item, Item
<1> QED
  BY <1>2, <1>3, <1>6 DEF Keeps, HashInv

LEMMA ReinsertKeeps ==
    ASSUME HashInv, reinsert
    PROVE  Keeps
<1> DEFINE i == Head(todo)
           rest == Tail(todo)
<1>1. LoadInv /\ todo \in Seq(Item) /\ todo # << >> /\ DistinctKeys(todo)
  BY DEF reinsert, HashInv, TodoInv
<1>2. /\ i \in Item /\ rest \in Seq(Item) /\ DistinctKeys(rest)
      /\ ItemsIn(todo) = {i} \cup ItemsIn(rest)
      /\ \A y \in ItemsIn(rest) : y.key # i.key
  BY <1>1, NextItems
<1>3. \A x \in Stored(slots), y \in ItemsIn(todo) : x.key # y.key
  BY DEF HashInv, TodoInv
<1>4. InsertItem(i, rest)
  BY DEF reinsert
<1> HIDE DEF i, rest
<1>5. /\ LoadInv' /\ TodoInv'
      /\ Contents' = { x \in Stored(slots) : x.key # i.key } \cup {i} \cup ItemsIn(rest)
  BY <1>1, <1>2, <1>3, <1>4, InsertItemKeeps
<1>6. Contents = Stored(slots) \cup ItemsIn(todo)
  BY DEF Contents, Pending, ItemsIn
<1>7. Contents' = Contents
  BY <1>2, <1>3, <1>5, <1>6
<1>8. doing' = "idle" => todo' = << >>
  BY <1>1 DEF reinsert, Continue, HashInv
<1> QED
  BY <1>5, <1>7, <1>8 DEF Keeps, HashInv

LEMMA ReserveKeeps ==
    ASSUME HashInv, NEW fit \in FitSizes, reserve(fit)
    PROVE  Keeps
<1>1. CASE UNCHANGED vars
  BY <1>1 DEF Keeps, vars, HashInv, LoadInv, TodoInv, Contents, Pending
<1>2. CASE resize(WantSize(fit)) /\ Continue("reserve") /\ doing = "idle"
  <2>1. WantSize(fit) \in TableSizes
    BY WantedSize
  <2>2. LoadInv' /\ TodoInv' /\ Contents' = Contents
    BY <1>2, <2>1, ResizeKeeps
  <2> QED
    BY <1>2, <2>2 DEF Keeps, HashInv, Continue
<1> QED
  BY <1>1, <1>2 DEF reserve

LEMMA RehashKeeps ==
    ASSUME HashInv, NEW compact \in BOOLEAN, rehash(compact)
    PROVE  Keeps
<1> DEFINE n == IF compact THEN CompactSize(Size(slots), nUsed) ELSE Size(slots)
<1>1. n \in TableSizes
  BY CompactedSize DEF HashInv, LoadInv, TableOK
<1>2. resize(n) /\ Continue("rehash") /\ doing = "idle"
  BY DEF rehash
<1> HIDE DEF n
<1>3. LoadInv' /\ TodoInv' /\ Contents' = Contents
  BY <1>1, <1>2, ResizeKeeps
<1> QED
  BY <1>2, <1>3 DEF Keeps, HashInv, Continue

LEMMA RemoveKeeps ==
    ASSUME HashInv, NEW k \in Keys, remove(k)
    PROVE  Keeps
<1> DEFINE p == internalFind(slots, k)
<1>1. TableOK(slots) /\ Spare(slots) /\ todo = << >>
  BY TableSpares DEF HashInv, LoadInv, remove
<1>2. /\ slots' = [slots EXCEPT ![p] = RemovedSlot] /\ nUsed' = nUsed - 1
      /\ UNCHANGED <<todo, doing>> /\ find(slots, k) # {}
  BY DEF remove
<1>3. p \in InUse(slots) /\ slots[p].item.key = k
  <2>1. p \in DOMAIN slots
    BY <1>1, FoundSlot
  <2>2. slots[p].tag = "inUse"
    BY <1>2 DEF find
  <2>3. p \in InUse(slots)
    BY <2>1, <2>2 DEF InUse
  <2> QED
    BY <2>3, <1>1, FoundSlot
<1> HIDE DEF p
<1>4. /\ TableOK(slots') /\ Size(slots') = Size(slots)
      /\ Stored(slots') = { x \in Stored(slots) : x.key # k }
      /\ Cardinality(InUse(slots')) = Cardinality(InUse(slots)) - 1
  <2>1. slots' = [slots EXCEPT ![p] = RemovedSlot]
    BY <1>2
  <2>2. /\ TableOK(slots') /\ Size(slots') = Size(slots)
        /\ Stored(slots') = { x \in Stored(slots) : x.key # slots[p].item.key }
        /\ Cardinality(InUse(slots')) = Cardinality(InUse(slots)) - 1
    <3> HIDE <1>2
    <3>1. TableOK(slots) /\ p \in InUse(slots)
      BY <1>1, <1>3
    <3>2. \A t : t = [slots EXCEPT ![p] = RemovedSlot] =>
             /\ TableOK(t) /\ Size(t) = Size(slots)
             /\ Stored(t) = { x \in Stored(slots) : x.key # slots[p].item.key }
             /\ Cardinality(InUse(t)) = Cardinality(InUse(slots)) - 1
      BY <3>1, Remove
    <3> QED
      BY <2>1, <3>2
  <2> QED
    BY <2>2, <1>3
<1>5. LoadInv'
  <2>1. /\ Cardinality(InUse(slots)) \in Nat /\ Cardinality(InUse(slots')) \in Nat
        /\ nUsed \in Nat /\ Size(slots) \in Nat
    BY <1>1, <1>4, UsedFinite, TableFacts DEF HashInv, LoadInv
  <2>2. nUsed' \in Nat /\ Cardinality(InUse(slots')) <= nUsed'
    BY <2>1, <1>2, <1>4 DEF HashInv, LoadInv
  <2>3. ~Crowded(Size(slots'), nUsed')
    BY <2>1, <1>2, <1>4 DEF HashInv, LoadInv, Crowded, freeFactor
  <2> QED
    BY <2>2, <2>3, <1>4 DEF LoadInv
<1>6. TodoInv'
  BY <1>1, <1>2, NothingListed DEF TodoInv
<1>7. Contents = Stored(slots) /\ Contents' = Stored(slots')
  BY <1>1, <1>2, NothingListed DEF Contents, Pending, ItemsIn
<1>8. Map!Delete(k)
  BY <1>4, <1>7, MapItems DEF Map!Delete, Contents
<1>9. Map!MapNext
  BY <1>8 DEF Map!MapNext
<1> QED
  BY <1>1, <1>2, <1>5, <1>6, <1>9 DEF Keeps, HashInv

LEMMA ClearKeeps ==
    ASSUME HashInv, clear
    PROVE  Keeps
<1>1. TableOK(slots) /\ todo = << >> /\ Size(slots) \in TableSizes
  BY DEF HashInv, LoadInv, TableOK, clear
<1>2. slots' = Empty(Size(slots)) /\ UNCHANGED <<nUsed, todo, doing>>
  BY DEF clear
<1>3. /\ TableOK(slots') /\ Size(slots') = Size(slots) /\ Stored(slots') = {}
      /\ Cardinality(InUse(slots')) = 0
  BY <1>1, <1>2, EmptyTable
<1>4. LoadInv'
  BY <1>2, <1>3 DEF HashInv, LoadInv
<1>5. TodoInv'
  BY <1>1, <1>2, NothingListed DEF TodoInv
<1>6. Contents' = {}
  BY <1>1, <1>2, <1>3, NothingListed DEF Contents, Pending, ItemsIn
<1>7. Map!MapNext
  BY <1>6 DEF Map!MapNext, Map!DeleteAll, Contents
<1> QED
  BY <1>1, <1>2, <1>4, <1>5, <1>7 DEF Keeps, HashInv

LEMMA NextHashInv == HashInv /\ [Next]_vars => Keeps
<1> SUFFICES ASSUME HashInv, [Next]_vars
             PROVE  Keeps
  OBVIOUS
<1>1. CASE \E i \in Item : insert(i)
  BY <1>1, InsertKeeps
<1>2. CASE reinsert
  BY <1>2, ReinsertKeeps
<1>3. CASE \E fit \in FitSizes : reserve(fit)
  BY <1>3, ReserveKeeps
<1>4. CASE \E compact \in BOOLEAN : rehash(compact)
  BY <1>4, RehashKeeps
<1>5. CASE \E k \in Keys : remove(k)
  BY <1>5, RemoveKeeps
<1>6. CASE clear
  BY <1>6, ClearKeeps
<1>7. CASE UNCHANGED vars
  BY <1>7 DEF Keeps, vars, HashInv, LoadInv, TodoInv, Contents, Pending
<1> QED
  BY <1>1, <1>2, <1>3, <1>4, <1>5, <1>6, <1>7 DEF Next

LEMMA HashInvariant == Spec => []HashInv
<1>1. HashInv /\ [Next]_vars => HashInv'
  BY NextHashInv DEF Keeps
<1> QED
  BY <1>1, InitHashInv, PTL DEF Spec

-----------------------------------------------------------------------------
(* The theorems.                                                           *)

(* find() returns every stored item, whatever was inserted, replaced,      *)
(* removed and rehashed before, and whichever keys collide: an item never  *)
(* hides behind a slot at which the search for it would end.               *)
THEOREM EveryItemIsFound == Spec => []StoredIsFound
<1>1. HashInv => StoredIsFound
  BY FindsStored, TableSpares DEF HashInv, LoadInv, StoredIsFound
<1> QED
  BY <1>1, HashInvariant, PTL

(* internalFind() always finds a slot: the probe sequence of any hash      *)
(* visits every slot of a table whose size is a power of two, and one of   *)
(* them is not in use.                                                     *)
THEOREM ProbesEnd == Spec => []ProbeSucceeds
<1>1. HashInv => ProbeSucceeds
  BY SpareIsProbed, TableSpares DEF HashInv, LoadInv, ProbeSucceeds
<1> QED
  BY <1>1, HashInvariant, PTL

(* The table is a map with one item per key: insertion replaces, removal   *)
(* deletes, and no resize, nested or not, loses or duplicates an item.     *)
THEOREM TableIsMap == Spec => ImplementsMap
<1>1. Init => Map!MapInit
  BY InitHashInv DEF Map!MapInit, Contents
<1>2. HashInv /\ [Next]_vars => [Map!MapNext]_(Stored(slots) \cup Pending)
  BY NextHashInv DEF Keeps, Contents
<1> QED
  BY <1>1, <1>2, HashInvariant, PTL DEF Spec, ImplementsMap, Map!MapSpec
=============================================================================
