----------------------------- MODULE HashTable ------------------------------
(***************************************************************************)
(* bjit::HashTable (src/src/hash.h): a closed hash table with lazy         *)
(* removal, used by CSE.  A resize reinserts the old items one by one with *)
(* insert(), which may resize again; the vectors of the nested calls are   *)
(* one sequence "todo" here, innermost first.                              *)
(*                                                                         *)
(* Abstractions.  A slot keeps its two tag bits and its item.  The other   *)
(* bits of its hash only save calls of isEqual: equal keys have equal      *)
(* hashes.  A hash is the pair of its 32-bit halves.  The code masks with  *)
(* the size less one; sizes are powers of two, so that this is a modulus.  *)
(***************************************************************************)
EXTENDS Integers, Sequences, FiniteSets

CONSTANTS
    Keys, Values,
    HashLow, HashHigh,  \* getHash(): Keys -> Nat, the two halves
    FitSizes,           \* arguments of reserve()
    MaxSlots            \* bound: the table grows no larger

ASSUME HashAssumption == HashLow \in [Keys -> Nat] /\ HashHigh \in [Keys -> Nat]
ASSUME MaxSlotsAssumption == MaxSlots \in Nat

VARIABLES
    slots,      \* 0..n-1 -> [tag, item]
    nUsed,
    todo,       \* items of the old vectors, not reinserted yet
    doing       \* the operation under way: "idle", "insert", "rehash", "reserve"

vars == <<slots, nUsed, todo, doing>>

-----------------------------------------------------------------------------
minSlots == 4
freeFactor == 3

Item == [key : Keys, value : Values]
NoItem == [key |-> "none", value |-> "none"]

FreeSlot == [tag |-> "free", item |-> NoItem]
RemovedSlot == [tag |-> "removed", item |-> NoItem]
UsedSlot(i) == [tag |-> "inUse", item |-> i]

Empty(n) == [i \in 0..(n - 1) |-> FreeSlot]

Size(s) == Cardinality(DOMAIN s)

InUse(s) == { i \in DOMAIN s : s[i].tag = "inUse" }

Stored(s) == { s[i].item : i \in InUse(s) }

(* The items in the order of the slots.                                    *)
ItemsOf(s) ==
    LET order == CHOOSE f \in [1..Cardinality(InUse(s)) -> InUse(s)] :
                    \A m, n \in DOMAIN f : m < n => f[m] < f[n]
    IN  [n \in 1..Cardinality(InUse(s)) |-> s[order[n]].item]

(* Fewer than 1/freeFactor of the n slots would be free.                   *)
Crowded(n, used) == (n - used) * freeFactor < n

OddStep(k) == IF HashHigh[k] % 2 = 0 THEN HashHigh[k] + 1 ELSE HashHigh[k]

(* Mutant of Probe: the step is not made odd.                              *)
ProbeEvenStep(k, j, n) == (HashLow[k] + HashHigh[k] * ((j + j * j) \div 2)) % n

(* The j-th slot for key k in a table of n slots.                          *)
Probe(k, j, n) == (HashLow[k] + OddStep(k) * ((j + j * j) \div 2)) % n

(* The probes for k that meet a tag, and those that meet its item.         *)
Tagged(s, k, tag) == { j \in DOMAIN s : s[Probe(k, j, Size(s))].tag = tag }

Matches(s, k) ==
    { j \in Tagged(s, k, "inUse") : s[Probe(k, j, Size(s))].item.key = k }

Least(S) == CHOOSE x \in S : \A y \in S : x <= y

(* Mutant of internalFind: the search ends at the first removed slot.      *)
internalFindRemoved(s, k) ==
    Probe(k, Least(Matches(s, k) \cup Tagged(s, k, "free") \cup Tagged(s, k, "removed")),
          Size(s))

(* The probe whose slot internalFind() returns: the match, unless a free   *)
(* slot comes first, or else the first slot that is free or removed.  With *)
(* none of these the probe fails.                                          *)
ProbeFails(s, k) ==
    Matches(s, k) \cup Tagged(s, k, "free") \cup Tagged(s, k, "removed") = {}

internalFind(s, k) ==
    LET ends == Matches(s, k) \cup Tagged(s, k, "free")
        j == IF ends # {} /\ Least(ends) \in Matches(s, k) THEN Least(ends)
             ELSE Least(Tagged(s, k, "free") \cup Tagged(s, k, "removed"))
    IN  Probe(k, j, Size(s))

(* The item find() returns for a key, as a set of at most one.             *)
find(s, k) ==
    IF s[internalFind(s, k)].tag = "inUse" THEN { s[internalFind(s, k)].item }
    ELSE {}

-----------------------------------------------------------------------------
(* The powers of two, by their divisors: what doubling and halving reach.  *)
TableSizes ==
    { n \in minSlots..MaxSlots : \A d \in 2..n : n % d = 0 => d % 2 = 0 }

SlotsFor(fit) ==
    LET fitSize == IF fit < minSlots THEN minSlots ELSE fit
    IN  1 + (fitSize * (freeFactor + 1)) \div freeFactor

ASSUME FitAssumption ==
    /\ FitSizes \subseteq Nat
    /\ \A fit \in FitSizes \cup {0} : \E n \in TableSizes : n >= SlotsFor(fit)

(* The size at which the doubling loop of reserve() stops.                 *)
WantSize(fit) == Least({ n \in TableSizes : n >= SlotsFor(fit) })

(* The size rehash(true) accepts.  A halved size below what is needed      *)
(* makes the unsigned difference wrap, and passes the test.  The modulus   *)
(* is 2^32 in the code, with the same outcome for up to 2^28 slots.        *)
Accepts(half, need) ==
    half <= ((half - need) * freeFactor) % (2 ^ 30)

(* Halving n goes on as long as the next size is accepted.                 *)
CompactSize(n, used) ==
    Least({ m \in TableSizes : m <= n /\ \A larger \in TableSizes :
                m < larger /\ larger <= n => Accepts(larger \div 2, used + minSlots) })

-----------------------------------------------------------------------------
Init == slots = Empty(WantSize(0)) /\ nUsed = 0 /\ todo = << >> /\ doing = "idle"

(* Mutant of InsertItem: the table is rehashed without growing.            *)
InsertItemNoGrowth(i, rest) ==
    LET placed == [slots EXCEPT ![internalFind(slots, i.key)] = UsedSlot(i)]
    IN  IF Crowded(Size(slots), nUsed + 1)
        THEN /\ slots' = Empty(Size(slots)) /\ nUsed' = 0
             /\ todo' = ItemsOf(placed) \o rest
        ELSE slots' = placed /\ nUsed' = nUsed + 1 /\ todo' = rest

(* What insert() does with an item, "rest" being left to reinsert.         *)
InsertItem(i, rest) ==
    LET placed == [slots EXCEPT ![internalFind(slots, i.key)] = UsedSlot(i)]
    IN  IF Crowded(Size(slots), nUsed + 1)
        THEN /\ 2 * Size(slots) <= MaxSlots
             /\ slots' = Empty(2 * Size(slots)) /\ nUsed' = 0
             /\ todo' = ItemsOf(placed) \o rest
        ELSE slots' = placed /\ nUsed' = nUsed + 1 /\ todo' = rest

Continue(op) == doing' = IF todo' = << >> THEN "idle" ELSE op

insert(i) ==
    /\ doing = "idle"
    /\ InsertItem(i, << >>)
    /\ Continue("insert")

(* One turn of the loop of resize().                                       *)
reinsert ==
    /\ todo # << >>
    /\ InsertItem(Head(todo), Tail(todo))
    /\ Continue(doing)

(* resize() from outside insert().                                         *)
resize(n) ==
    /\ slots' = Empty(n)
    /\ IF nUsed = 0 THEN UNCHANGED <<nUsed, todo>>
       ELSE nUsed' = 0 /\ todo' = ItemsOf(slots)

reserve(fit) ==
    /\ doing = "idle"
    /\ IF WantSize(fit) > Size(slots)
       THEN resize(WantSize(fit)) /\ Continue("reserve")
       ELSE UNCHANGED vars

rehash(compact) ==
    /\ doing = "idle"
    /\ resize(IF compact THEN CompactSize(Size(slots), nUsed) ELSE Size(slots))
    /\ Continue("rehash")

(* Mutant of remove: the slot is freed at once.                            *)
removeFrees(k) ==
    /\ doing = "idle" /\ find(slots, k) # {}
    /\ slots' = [slots EXCEPT ![internalFind(slots, k)] = FreeSlot]
    /\ nUsed' = nUsed - 1
    /\ UNCHANGED <<todo, doing>>

remove(k) ==
    /\ doing = "idle" /\ find(slots, k) # {}
    /\ slots' = [slots EXCEPT ![internalFind(slots, k)] = RemovedSlot]
    /\ nUsed' = nUsed - 1
    /\ UNCHANGED <<todo, doing>>

(* nUsed is left as it was (hash.h:141).                                   *)
clear ==
    /\ doing = "idle"
    /\ slots' = Empty(Size(slots))
    /\ UNCHANGED <<nUsed, todo, doing>>

Next ==
    \/ \E i \in Item : insert(i)
    \/ reinsert
    \/ \E fit \in FitSizes : reserve(fit)
    \/ \E compact \in BOOLEAN : rehash(compact)
    \/ \E k \in Keys : remove(k)
    \/ clear

Spec == Init /\ [][Next]_vars

(* The loop of resize() runs to its end.                                   *)
FairSpec == Spec /\ WF_vars(reinsert)

-----------------------------------------------------------------------------
(* Properties.                                                             *)

Pending == { todo[i] : i \in 1..Len(todo) }

(* find() returns every stored item: no removal or insertion cuts the      *)
(* probe sequence of another key.                                          *)
StoredIsFound ==
    \A i \in InUse(slots) : find(slots, slots[i].item.key) = {slots[i].item}

(* internalFind() never runs out of probes (the warning of hash.h:272 is   *)
(* never printed), though removed slots may have used up the free ones.    *)
ProbeSucceeds == \A k \in Keys : ~ProbeFails(slots, k)

(* The table is a map, also in the middle of a resize.                     *)
Map == INSTANCE ItemMap WITH items <- Stored(slots) \cup Pending
ImplementsMap == Map!MapSpec

(* Every resize ends, nested ones included, although rehash(true) may      *)
(* choose a size too small for the items.                                  *)
ResizeTerminates == []<>(todo = << >>)
=============================================================================
