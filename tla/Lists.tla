-------------------------------- MODULE Lists ---------------------------------
(***************************************************************************)
(* The methods of JavaScript's arrays and objects that the pages of the    *)
(* dashboard work with.  What a callback tells of an item is given as a    *)
(* set, of the items wanted, or as a function, from an item to its rank,   *)
(* and a reduce is a recursive function on the places of the list.         *)
(***************************************************************************)
EXTENDS Integers, FiniteSets, Sequences

\* list.filter: the items that are wanted, in the order of the list.
Filter(list, wanted) ==
  LET kept[i \in 0..Len(list)] ==
        IF i = 0 THEN <<>>
        ELSE IF list[i] \in wanted THEN Append(kept[i - 1], list[i]) ELSE kept[i - 1]
  IN  kept[Len(list)]

\* list.sort, of different items by their rank.
SortedBy(items, rank) ==
  CHOOSE list \in [1..Cardinality(items) -> items] :
    \A i, j \in DOMAIN list : i < j => list[i] # list[j] /\ rank[list[i]] <= rank[list[j]]

\* An object without a key, and object[key] = value.
NoKeys == [key \in {} |-> {}]
Put(object, key, value) ==
  [other \in DOMAIN object \cup {key} |-> IF other = key THEN value ELSE object[other]]
===============================================================================
