----------------------------- MODULE IndexedSet -----------------------------
(***************************************************************************)
(* What indexer_set and indexer_map promise: <<key, value>> pairs with     *)
(* different keys, found by key or by index; a new pair gets the next      *)
(* index and the last pair takes the index of an erased one.               *)
(***************************************************************************)
EXTENDS Integers, Sequences, SequencesExt

CONSTANTS Keys, Vals

VARIABLE items

Index(k) == SelectInSeq(items, LAMBDA x : x[1] = k)

Init == items = <<>>

Insert(k, v) == Index(k) = 0 /\ items' = Append(items, <<k, v>>)
Write(k, v)  == items' = IF Index(k) = 0 THEN Append(items, <<k, v>>)
                         ELSE [items EXCEPT ![Index(k)] = <<k, v>>]
Erase(k)     == Index(k) # 0 /\ items' = Front([items EXCEPT ![Index(k)] = Last(items)])
Clear        == items' = <<>>

Next == \/ \E k \in Keys, v \in Vals : Insert(k, v) \/ Write(k, v)
        \/ \E k \in Keys : Erase(k)
        \/ Clear

Spec == Init /\ [][Next]_items
=============================================================================
