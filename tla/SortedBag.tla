------------------------------ MODULE SortedBag ------------------------------
(***************************************************************************)
(* What bst_set, bst_map and their multi variants promise: a sequence of   *)
(* <<key, value>> pairs in the order of the keys.  A set keeps one pair of *)
(* a key; in a bag a new pair comes after the pairs of the same key.       *)
(***************************************************************************)
EXTENDS Integers, Sequences, SequencesExt

CONSTANTS Keys, Vals

VARIABLES multi, items

Upto(k) == Len(SelectSeq(items, LAMBDA x : x[1] <= k))
Has(k) == \E i \in DOMAIN items : items[i][1] = k

Init == items = <<>> /\ multi \in BOOLEAN

Insert(k, v) == (multi \/ ~Has(k)) /\ items' = InsertAt(items, Upto(k) + 1, <<k, v>>)
EraseKey(k)  == items' = SelectSeq(items, LAMBDA x : x[1] # k)
EraseRange   == \E i, j \in 1..Len(items) + 1 :
                  i <= j /\ items' = SubSeq(items, 1, i - 1) \o SubSeq(items, j, Len(items))
Clear        == items' = <<>>

Next == /\ \/ \E k \in Keys, v \in Vals : Insert(k, v)
           \/ \E k \in Keys : EraseKey(k)
           \/ EraseRange \/ Clear
        /\ UNCHANGED multi

Spec == Init /\ [][Next]_<<multi, items>>
=============================================================================
