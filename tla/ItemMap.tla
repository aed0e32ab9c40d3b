------------------------------ MODULE ItemMap -------------------------------
(***************************************************************************)
(* What bjit::HashTable promises: a map with at most one item per key.     *)
(***************************************************************************)
CONSTANTS Keys, Values

VARIABLE items      \* the set of [key, value] in the table

Item == [key : Keys, value : Values]

ItemsWithKey(k) == { i \in items : i.key = k }

MapInit == items = {}

Put(i) == items' = (items \ ItemsWithKey(i.key)) \cup {i}

Delete(k) == items' = items \ ItemsWithKey(k)

DeleteAll == items' = {}

MapNext ==
    \/ \E i \in Item : Put(i)
    \/ \E k \in Keys : Delete(k)
    \/ DeleteAll

MapSpec == MapInit /\ [][MapNext]_items
=============================================================================
