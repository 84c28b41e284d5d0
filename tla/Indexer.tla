------------------------------ MODULE Indexer ------------------------------
(***************************************************************************)
(* indexer_base (inc/vhwd/collection/detail/indexer_base.h) as indexer_map *)
(* and indexer_set use it: the pairs in an array, and a hash table of      *)
(* chains that holds their indices.  Hash codes are the keys themselves.   *)
(*                                                                         *)
(* Not modelled: exceptions, moves, swap(value_array&) with equal keys.    *)
(***************************************************************************)
EXTENDS Integers, Sequences, SequencesExt, FiniteSetsExt

CONSTANTS Keys, Vals,
          InitialBuckets,   \* g_nInitialBucketCount
          Loads,            \* max_load_factor values
          MaxBuckets,       \* bound: the buckets asked of rehash and reserve
          MaxLost           \* bound: the chain nodes lost

VARIABLES values,     \* pairs; index i of the code is i + 1 here
          buckets,    \* a sequence of chains, each a sequence of indices from its head
          mask,       \* m_nBucketMask
          hint,       \* m_nElemHint
          load,       \* m_nMaxLoadFactor
          lost        \* chain nodes that no chain holds

indexerVars == <<values, buckets, mask, hint, load, lost>>

ASSUME IndexerAssumption ==
  Keys \subseteq Nat /\ Loads \subseteq Nat \ {0} /\ InitialBuckets \in Nat \ {0} /\ MaxBuckets \in Nat

Table == <<buckets, mask, hint>>

invalid_pos == 0

IndexerInit == values = <<>> /\ buckets = <<>> /\ mask = 0 /\ hint = 0 /\ load \in Loads /\ lost = 0

-----------------------------------------------------------------------------
\* sz_helper::n2p, for sizes that have a power of two above them
n2p(n) == LET k[i \in 0..n] == IF i = 0 THEN 1 ELSE 2 * k[i - 1]
          IN  Min({k[i] : i \in {j \in 0..n : k[j] >= n}})

Ceil(n, d) == (n + d - 1) \div d

\* k & m_nBucketMask, for a mask one below a power of two
Slot(k, m) == (k % (m + 1)) + 1

\* The chains of the pairs vs in sz buckets: chunk_insert puts one index after the other in front.
Chains(vs, sz) ==
  LET cks[n \in 0..Len(vs)] == IF n = 0 THEN [c \in 1..sz |-> <<>>]
                               ELSE [cks[n - 1] EXCEPT ![Slot(vs[n][1], sz - 1)] = <<n>> \o @]
  IN  cks[Len(vs)]

\* rehash(n): buckets, mask and hint for the pairs vs
Rehashed(n, vs) ==
  IF n = 0 /\ vs = <<>> THEN <<<<>>, 0, hint>>
  ELSE LET min == (2 * Len(vs) + load) \div (2 * load)     \* min_bucket_count
           sz  == n2p(IF n > min THEN n ELSE min)
       IN  <<Chains(vs, sz), sz - 1, sz * load>>

\* Mutant of InChain: only the head of the chain is looked at.
InChainHead(chain, vs, k) ==
  IF chain # <<>> /\ vs[chain[1]][1] = k THEN chain[1] ELSE invalid_pos

\* chunk_find: the index the chain holds for key k
InChain(chain, vs, k) ==
  LET at == SelectInSeq(chain, LAMBDA i : vs[i][1] = k)
  IN  IF at = 0 THEN invalid_pos ELSE chain[at]

\* find
Find(k) == IF mask = 0 THEN invalid_pos ELSE InChain(buckets[Slot(k, mask)], values, k)

\* insert and find2, up to the search: a table without a mask is built first
Ready == IF mask = 0 THEN Rehashed(InitialBuckets, values) ELSE Table

\* chunk_push, into the chain of k in table t.  Beyond the load factor the table is built
\* anew, with the new pair in it; the node then goes to a chain of the freed table.
Pushed(t, k, vs) ==
  IF Len(vs) > t[3] THEN Rehashed((2 * Len(vs)) \div load, vs)
  ELSE <<[t[1] EXCEPT ![Slot(k, t[2])] = <<Len(vs)>> \o @], t[2], t[3]>>

Set(t) == buckets' = t[1] /\ mask' = t[2] /\ hint' = t[3]

Push(k, v) ==
  LET t  == Ready
      vs == Append(values, <<k, v>>)
  IN  /\ Set(Pushed(t, k, vs)) /\ values' = vs
      /\ lost' = IF Len(vs) > t[3] THEN lost + 1 ELSE lost

\* insert: a key that is there keeps its pair
InsertPair(k, v) ==
  LET id == InChain(Ready[1][Slot(k, Ready[2])], values, k)
  IN  /\ IF id = invalid_pos THEN Push(k, v) ELSE Set(Ready) /\ UNCHANGED <<values, lost>>
      /\ UNCHANGED load

\* operator[] of indexer_map, assigned to: find2, then the mapped value
WritePair(k, v) ==
  LET id == InChain(Ready[1][Slot(k, Ready[2])], values, k)
  IN  /\ IF id = invalid_pos THEN Push(k, v)
         ELSE Set(Ready) /\ values' = [values EXCEPT ![id] = <<k, v>>] /\ UNCHANGED lost
      /\ UNCHANGED load

\* chunk_replace
Renamed(chain, i, j) == [c \in DOMAIN chain |-> IF chain[c] = i THEN j ELSE chain[c]]

\* erase: the last pair moves to the place of the erased one, and so does its index
Moved(bs, vs, id, last) ==
  IF id = last THEN bs
  ELSE [bs EXCEPT ![Slot(vs[last][1], mask)] = Renamed(@, last, id)]

ErasePair(k) ==
  LET id   == Find(k)
      last == Len(values)
      bs   == [buckets EXCEPT ![Slot(k, mask)] = RemoveFirst(@, id)]
  IN  /\ id # invalid_pos
      /\ buckets' = Moved(bs, values, id, last)
      /\ values' = Front([values EXCEPT ![id] = values[last]])
      /\ UNCHANGED <<mask, hint, load, lost>>

Rehash(n) == Set(Rehashed(n, values)) /\ UNCHANGED <<values, load, lost>>

ReserveBuckets(n) == Ceil(n, load) > Len(buckets) /\ Rehash(Ceil(n, load))

ClearPairs ==
  /\ values' = <<>> /\ buckets' = [c \in DOMAIN buckets |-> <<>>]
  /\ UNCHANGED <<mask, hint, load, lost>>

\* The copy constructor; the original goes away.
CopyPairs ==
  /\ IF values = <<>> THEN Set(<<<<>>, 0, hint>>) ELSE Set(Rehashed(0, values))
  /\ UNCHANGED <<values, load, lost>>

\* max_load_factor
SetLoad(z) == load' = z /\ hint' = Len(buckets) * z /\ UNCHANGED <<values, buckets, mask, lost>>

IndexerNext ==
  \/ lost < MaxLost /\ \E k \in Keys, v \in Vals : InsertPair(k, v) \/ WritePair(k, v)
  \/ \E k \in Keys : ErasePair(k)
  \/ \E n \in 0..MaxBuckets : Rehash(n) \/ ReserveBuckets(n)
  \/ ClearPairs \/ CopyPairs
  \/ \E z \in Loads : SetLoad(z)

IndexerSpec == IndexerInit /\ [][IndexerNext]_indexerVars

-----------------------------------------------------------------------------
(* Properties. *)

\* No chain holds an index that is not in use, and each index in use is in one place of one chain:
\* after chains were shared, pairs moved by erase and tables rebuilt at the load factor.
ChainsAgree ==
  /\ \A c \in DOMAIN buckets : \A j \in DOMAIN buckets[c] :
       /\ buckets[c][j] \in DOMAIN values
       /\ \A d \in DOMAIN buckets : \A l \in DOMAIN buckets[d] :
            buckets[c][j] = buckets[d][l] => c = d /\ j = l
  /\ buckets # <<>> => \A i \in DOMAIN values :
       \E c \in DOMAIN buckets : \E j \in DOMAIN buckets[c] : buckets[c][j] = i

\* Every pair is found by its key under the index it has in the array.  A table of one bucket has
\* mask 0, which the code takes for no table at all.
KeysFound == mask # 0 => \A k \in Keys : Find(k) = SelectInSeq(values, LAMBDA x : x[1] = k)

\* indexer_map and indexer_set: the array holds what a map with indices holds (insert, operator[] and
\* erase: no key twice, and an erase moves only the last pair), and the table leads to it.
Abstract == INSTANCE IndexedSet WITH items <- values
IndexesKept == Abstract!Spec /\ [](ChainsAgree /\ KeysFound)
=============================================================================
