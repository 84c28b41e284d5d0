------------------------- MODULE SharedData_proofs -------------------------
(***************************************************************************)
(* Data that threads share, for every value of the constants.              *)
(*                                                                         *)
(* Pointers: no call counts on an object or a handle that is gone, and     *)
(* when the calls have returned, each one is counted as often as it is     *)
(* held (ThereWhileHeld).  The invariant says, at every step of every      *)
(* call, what an object is counted for: the pointers and places in groups  *)
(* that hold it and are not being replaced, the decrements to come, and    *)
(* the pointers and groups to come that have been counted.                 *)
(*                                                                         *)
(* RingBuffer hands the bytes on in their order, for a ring, packets and a *)
(* stream of every length, with a reader and a writer at the same time.    *)
(*                                                                         *)
(* Arr: each operation leaves the sequence it is asked for, for arrays and *)
(* lists of every length (ArrayActsOnSequence).  Each loop over cells is   *)
(* given by what it leaves, cell by cell, as long as the loop reads no     *)
(* cell that it has written; an operation is its loops, one by one.        *)
(*                                                                         *)
(* Indexer: the pairs are those of a map with indices, and the table leads *)
(* to each one by its key (IndexerKeepsIndexes), for sequences of pairs,   *)
(* tables and load factors of every size.                                  *)
(***************************************************************************)
EXTENDS Pointers, RingBuffer, Arr, Indexer, TLAPS, FiniteSetTheorems, SequenceTheorems, WellFoundedInduction

-----------------------------------------------------------------------------
(* Pointers: the sets that an object is counted for *)

\* The calls: how many items are left of one, and the item with d others after it.
Left(t) == Len(todo[t])
Item(t, d) == todo[t][Len(todo[t]) - d]
Items(t) == 0..Left(t) - 1
First(t) == Item(t, Left(t) - 1)

\* Is the item with d others after it an op?
Does(t, d, op) == d \in Items(t) /\ Item(t, d).op = op

\* Where the call counts up.
Adding(t) == {d \in Items(t) : Item(t, d).op = "inc"}

\* Only decrements are left, or nothing.
OnlyDrops(t) == \A d \in Items(t) : Item(t, d).op = "dec"

\* Replaced: a pointer is to be stored last; the new object is counted first.
Replaces(t) ==
  /\ Left(t) \in 1..3 /\ Item(t, 0).op = "store"
  /\ \A d \in 1..Left(t) - 1 : \/ Item(t, d).op = "dec"
                               \/ Item(t, d).op = "inc" /\ d = Left(t) - 1 /\ Item(t, d).o = Item(t, 0).o
  /\ Left(t) = 3 => Item(t, 2).op = "inc"

\* Reopened: the new handle is counted last.
Reopens(t) ==
  /\ Left(t) \in 1..3 /\ Item(t, 0).op = "inc" /\ Item(t, 0).o \in Kernels
  /\ Left(t) = 1 => ptr[<<t, "ko">>] = Item(t, 0).o
  /\ Left(t) > 1 => Item(t, 1) = [op |-> "store", p |-> <<t, "ko">>, o |-> Item(t, 0).o]
  /\ Left(t) = 3 => Item(t, 2).op = "dec"

\* append(): the object is in the group and is to be counted.
Appends(t) ==
  /\ Left(t) = 1 /\ Item(t, 0).op = "inc" /\ Item(t, 0).o \in Datas
  /\ group[t] # <<>> /\ group[t][Len(group[t])] = Item(t, 0).o

\* A group is to become s, when b items are left: clear(), operator=.
Becomes(t, b) ==
  /\ b \in Items(t) /\ Item(t, b).op = "become"
  /\ \A d \in 0..b - 1 : Item(t, d).op = "dec"
  /\ \/ Item(t, b).s = <<>> /\ \A d \in b + 1..Left(t) - 1 : Item(t, d).op = "dec"
     \/ LET s == Item(t, b).s IN
        /\ Left(t) - 1 - b <= Len(s)
        /\ \A d \in b + 1..Left(t) - 1 : Item(t, d) = [op |-> "inc", o |-> s[Len(s) + 1 + b - d]]

\* Who writes.
StoresTo(t, p) == \E d \in Items(t) : Item(t, d).op = "store" /\ Item(t, d).p = p

\* The call makes a group.
Becoming(t) == \E d \in Items(t) : Item(t, d).op = "become"

\* The object in the KO_Handle of t, or at the end of its group, is still to be counted.
LateHandle(t) == Left(t) = 1 /\ Item(t, 0).op = "inc" /\ Item(t, 0).o \in Kernels
LateMember(t) == Left(t) = 1 /\ Item(t, 0).op = "inc" /\ Item(t, 0).o \in Datas

\* What o is counted for: pointers that are not being replaced, places in groups that do not become
\* others, decrements to come, pointers and groups to come.
Counts(p) ==
  /\ Live(p) /\ \A t \in Threads : ~StoresTo(t, p)
  /\ p[2] = "ko" /\ p[1] \in Threads => ~LateHandle(p[1])

\* The pointers that o is counted for.
Pointing(o) == {p \in Pointers : ptr[p] = o /\ Counts(p)}

\* The places in groups.
Grouped(o) ==
  {x \in Threads \X Nat : /\ x[2] \in DOMAIN group[x[1]] /\ group[x[1]][x[2]] = o
                          /\ ~Becoming(x[1]) /\ (LateMember(x[1]) => x[2] # Len(group[x[1]]))}

\* The decrements to come.
Dropping(o) ==
  {x \in Threads \X Nat : x[2] \in Items(x[1]) /\ Item(x[1], x[2]).op = "dec" /\ Item(x[1], x[2]).o = o}

\* The calls that have counted o and are to store it.
Storing(o) ==
  {t \in Threads : Adding(t) = {} /\ \E d \in Items(t) : Item(t, d).op = "store" /\ Item(t, d).o = o}

\* The places in groups to come that have been counted.
Joining(o) ==
  {x \in Threads \X Nat :
     \E b \in Items(x[1]) :
       /\ Item(x[1], b).op = "become" /\ x[2] \in DOMAIN Item(x[1], b).s /\ Item(x[1], b).s[x[2]] = o
       /\ Len(Item(x[1], b).s) + 1 + b - x[2] >= Left(x[1])}

\* Does an item name an object?
Names(x, o) ==
  \/ x.op \in {"inc", "dec", "store"} /\ x.o = o
  \/ x.op = "become" /\ \E k \in DOMAIN x.s : x.s[k] = o

\* Nothing but the call of a thread of T names o.
KnownTo(o, T) ==
  /\ \A p \in Pointers : ptr[p] # o
  /\ \A t \in Threads : \A k \in DOMAIN group[t] : group[t][k] # o
  /\ \A t \in Threads \ T : \A d \in Items(t) : ~Names(Item(t, d), o)

\* o has been made by the call of t and is to be counted by it.
New(o, t) == o \in made \ gone /\ KnownTo(o, {t}) /\ \E d \in Adding(t) : Item(t, d).o = o

-----------------------------------------------------------------------------
(* Pointers: the invariant *)

\* What a call is made of.
CallItems ==
  [op : {"inc", "dec"}, o : Objects] \cup [op : {"store"}, p : Pointers, o : Objects \cup {Null}]
    \cup [op : {"become"}, s : Seq(Datas)]

\* The variables have their types; a KO_Handle holds handles, the other pointers objects.
PointersTyped ==
  /\ counts \in [Objects -> Nat] /\ gone \subseteq made /\ made \subseteq Objects
  /\ ptr \in [Pointers -> Objects \cup {Null}]
  /\ \A p \in Pointers : ptr[p] # Null => (ptr[p] \in Kernels <=> p[1] \in Threads /\ p[2] = "ko")
  /\ group \in [Threads -> Seq(Datas)]
  /\ todo \in [Threads -> Seq(CallItems)]
  /\ reads \in [Threads -> Threads \cup {Null}]

\* Where each call is.
ShapeOf(t) ==
  OnlyDrops(t) \/ Replaces(t) \/ Reopens(t) \/ Appends(t) \/ \E b \in Items(t) : Becomes(t, b)

\* Nobody changes what another one reads.
ReaderInv ==
  /\ \A t \in Threads : Left(t) = 0 => reads[t] = t
  /\ \A t \in Threads : reads[t] \in Threads \ {t} => Left(reads[t]) = 0
  /\ \A t, u \in Threads : reads[t] = Null /\ reads[u] = Null => t = u

\* A call writes a pointer of its own thread, or that of an object that one of these holds.
StoreOf(t) ==
  \A d \in Items(t) :
    Item(t, d).op = "store" =>
      LET p == Item(t, d).p IN
      /\ Item(t, d).o # Null => (Item(t, d).o \in Kernels <=> p[1] \in Threads /\ p[2] = "ko")
      /\ \/ p \in {t} \X (Slots[t] \cup {"ko"})
         \/ reads[t] = Null /\ p[1] \in Datas /\ p[2] = "link" /\ \E j \in Slots[t] : ptr[<<t, j>>] = p[1]

\* While a new object is to be counted first, the old one is there.
OldOf(t) ==
  Replaces(t) /\ Adding(t) # {} =>
    LET old == ptr[Item(t, 0).p] IN
    IF old = Null THEN Left(t) = 2 ELSE Left(t) = 3 /\ Item(t, 1).o = old

\* Where an object to be counted comes from.
Comes(t, o, p) ==
  \/ reads[t] \in Threads /\ \E j \in Slots[reads[t]] \cup {"ko"} : <<reads[t], j>> # p /\ ptr[<<reads[t], j>>] = o
  \/ reads[t] = Null /\ \E j \in Slots[t] : <<t, j>> # p /\ ptr[<<t, j>>] = o
  \/ reads[t] = Null /\ p[1] = t /\ \E x \in Datas : ptr[<<x, "link">>] = o /\ \E j \in Slots[t] : ptr[<<t, j>>] = x

\* An object that is to be counted comes from where the caller keeps it, or it is new.
SourceOf(t) ==
  /\ Replaces(t) /\ Adding(t) # {} => New(Item(t, 0).o, t) \/ Comes(t, Item(t, 0).o, Item(t, 0).p)
  /\ Reopens(t) => reads[t] \in Threads \ {t} /\ ptr[<<reads[t], "ko">>] = Item(t, 0).o
  /\ Appends(t) => \E i \in Slots[t] : ptr[<<t, i>>] = Item(t, 0).o
  /\ \A b \in Items(t) :
       Becomes(t, b) /\ Adding(t) # {} => reads[t] \in Threads \ {t} /\ Item(t, b).s = group[reads[t]]

\* The calls under way.
CallInv == \A t \in Threads : ShapeOf(t) /\ StoreOf(t) /\ OldOf(t) /\ SourceOf(t)

\* The counts are the numbers of holders, and what is gone has none.
CountInv ==
  \A o \in Objects :
    /\ IsFiniteSet(Pointing(o)) /\ IsFiniteSet(Grouped(o)) /\ IsFiniteSet(Dropping(o))
    /\ IsFiniteSet(Storing(o)) /\ IsFiniteSet(Joining(o))
    /\ counts[o] = Cardinality(Pointing(o)) + Cardinality(Grouped(o)) + Cardinality(Dropping(o))
                     + Cardinality(Storing(o)) + Cardinality(Joining(o))
    /\ o \in gone => counts[o] = 0

\* What is not there yet is not named, and points nowhere.
UnmadeInv ==
  \A o \in Objects \ made : KnownTo(o, {}) /\ (o \in Datas => ptr[<<o, "link">>] = Null)

\* What is there is counted, unless it is new.
MadeInv == \A o \in made \ gone : counts[o] = 0 => \E t \in Threads : New(o, t)

\* The invariant.
RefsInv == PointersTyped /\ ReaderInv /\ CallInv /\ CountInv /\ UnmadeInv /\ MadeInv

-----------------------------------------------------------------------------
(* Pointers: what a step does to a call *)

\* The pointers are those of threads and those of objects.
LEMMA PointersAre ==
  /\ \A t \in Threads : \A j \in Slots[t] \cup {"ko"} : <<t, j>> \in Pointers
  /\ \A x \in Datas : <<x, "link">> \in Pointers
  /\ \A p \in Pointers : \/ \E t \in Threads : \E j \in Slots[t] \cup {"ko"} : p = <<t, j>>
                        \/ \E x \in Datas : p = <<x, "link">>
<1>1. \A t \in Threads : \A j \in Slots[t] \cup {"ko"} : <<t, j>> \in Pointers
  <2> SUFFICES ASSUME NEW t \in Threads, NEW j \in Slots[t] \cup {"ko"} PROVE <<t, j>> \in Pointers
    OBVIOUS
  <2>1. <<t, j>> \in {t} \X (Slots[t] \cup {"ko"})
    OBVIOUS
  <2> QED
    BY <2>1 DEF Pointers
<1>2. \A x \in Datas : <<x, "link">> \in Pointers
  BY DEF Pointers
<1>3. ASSUME NEW p \in Pointers
      PROVE  \/ \E t \in Threads : \E j \in Slots[t] \cup {"ko"} : p = <<t, j>>
             \/ \E x \in Datas : p = <<x, "link">>
  BY DEF Pointers
<1> QED
  BY <1>1, <1>2, <1>3

\* The call of a thread that does nothing stays as it is.
LEMMA SameCall ==
  ASSUME NEW u, todo'[u] = todo[u]
  PROVE  /\ Left(u)' = Left(u) /\ Items(u)' = Items(u) /\ Adding(u)' = Adding(u)
         /\ \A d : Item(u, d)' = Item(u, d)
         /\ \A p : StoresTo(u, p)' <=> StoresTo(u, p)
         /\ Becoming(u)' <=> Becoming(u)
         /\ LateHandle(u)' <=> LateHandle(u)
         /\ LateMember(u)' <=> LateMember(u)
BY DEF Left, Items, Adding, Item, StoresTo, Becoming, LateHandle, LateMember

\* The first item is done, and nothing takes its place.
LEMMA Pops ==
  ASSUME PointersTyped, NEW t \in Threads, todo[t] # <<>>,
         todo' = [todo EXCEPT ![t] = <<>> \o Tail(todo[t])]
  PROVE  /\ Left(t) \in Nat \ {0} /\ Left(t)' = Left(t) - 1
         /\ Head(todo[t]) = Item(t, Left(t) - 1)
         /\ Items(t)' = Items(t) \ {Left(t) - 1} /\ Left(t) - 1 \in Items(t)
         /\ \A d \in Items(t)' : Item(t, d)' = Item(t, d)
         /\ \A u \in Threads \ {t} : todo'[u] = todo[u]
         /\ todo' \in [Threads -> Seq(CallItems)]
<1> DEFINE s == todo[t]
<1>1. s \in Seq(CallItems) /\ s # <<>>
  BY DEF PointersTyped
<1>2. /\ Tail(s) \in Seq(CallItems) /\ Len(Tail(s)) = Len(s) - 1 /\ Len(s) \in Nat \ {0}
      /\ \A i \in 1..Len(s) - 1 : Tail(s)[i] = s[i + 1]
      /\ Head(s) = s[1]
  BY <1>1
<1>3. <<>> \o Tail(s) = Tail(s)
  BY <1>2, ConcatEmptySeq
<1>4. todo'[t] = Tail(s) /\ \A u \in Threads \ {t} : todo'[u] = todo[u]
  BY <1>3 DEF PointersTyped
<1>5. ASSUME NEW d \in 0..Len(s) - 2 PROVE Tail(s)[Len(s) - 1 - d] = s[Len(s) - d]
  <2>1. Len(s) - 1 - d \in 1..Len(s) - 1
    BY <1>2
  <2> QED
    BY <1>2, <2>1
<1>6. Left(t) = Len(s) /\ Left(t)' = Len(s) - 1 /\ Items(t)' = 0..Len(s) - 2 /\ Items(t) = 0..Len(s) - 1
  <2>1. Left(t)' = Len(todo'[t]) /\ Items(t)' = 0..Left(t)' - 1
    BY DEF Left, Items
  <2>2. Left(t)' = Len(s) - 1
    BY <1>2, <1>4, <2>1
  <2>3. (Len(s) - 1) - 1 = Len(s) - 2
    BY <1>2
  <2> QED
    BY <2>1, <2>2, <2>3 DEF Left, Items
<1>7. \A d \in Items(t)' : Item(t, d)' = Item(t, d)
  BY <1>2, <1>4, <1>5, <1>6 DEF Item
<1>8. Head(s) = Item(t, Left(t) - 1)
  BY <1>2, <1>6 DEF Item
<1>9. todo' \in [Threads -> Seq(CallItems)]
  BY <1>2, <1>3 DEF PointersTyped
<1>10. Items(t)' = Items(t) \ {Left(t) - 1} /\ Left(t) - 1 \in Items(t)
  BY <1>2, <1>6
<1> QED
  BY <1>2, <1>4, <1>6, <1>7, <1>8, <1>9, <1>10

\* The first item is done, and another one takes its place.
LEMMA Pushes ==
  ASSUME PointersTyped, NEW t \in Threads, todo[t] # <<>>, NEW x \in CallItems,
         todo' = [todo EXCEPT ![t] = <<x>> \o Tail(todo[t])]
  PROVE  /\ Left(t) \in Nat \ {0} /\ Left(t)' = Left(t)
         /\ Head(todo[t]) = Item(t, Left(t) - 1)
         /\ Items(t)' = Items(t) /\ Left(t) - 1 \in Items(t)
         /\ \A d \in Items(t) : Item(t, d)' = IF d = Left(t) - 1 THEN x ELSE Item(t, d)
         /\ \A u \in Threads \ {t} : todo'[u] = todo[u]
         /\ todo' \in [Threads -> Seq(CallItems)]
<1> DEFINE s == todo[t]
           r == <<x>> \o Tail(s)
<1>1. s \in Seq(CallItems) /\ s # <<>>
  BY DEF PointersTyped
<1>2. /\ Tail(s) \in Seq(CallItems) /\ Len(Tail(s)) = Len(s) - 1 /\ Len(s) \in Nat \ {0}
      /\ \A i \in 1..Len(s) - 1 : Tail(s)[i] = s[i + 1]
      /\ Head(s) = s[1]
  BY <1>1
<1>3. <<x>> \in Seq(CallItems) /\ Len(<<x>>) = 1 /\ <<x>>[1] = x
  OBVIOUS
<1>4. /\ r \in Seq(CallItems) /\ Len(r) = Len(s)
      /\ \A i \in 1..Len(s) : r[i] = IF i = 1 THEN x ELSE s[i]
  <2>1. /\ r \in Seq(CallItems) /\ Len(r) = 1 + Len(Tail(s))
        /\ \A i \in 1..1 + Len(Tail(s)) : r[i] = IF i <= 1 THEN <<x>>[i] ELSE Tail(s)[i - 1]
    BY <1>2, <1>3, ConcatProperties
  <2> HIDE DEF r
  <2>2. ASSUME NEW i \in 1..Len(s) PROVE r[i] = IF i = 1 THEN x ELSE s[i]
    <3>1. CASE i = 1
      BY <1>2, <1>3, <2>1, <3>1
    <3>2. CASE i # 1
      <4>1. i - 1 \in 1..Len(s) - 1 /\ ~(i <= 1)
        BY <3>2
      <4>2. Tail(s)[i - 1] = s[(i - 1) + 1]
        BY <1>2, <4>1
      <4> QED
        BY <1>2, <2>1, <4>1, <4>2
    <3> QED
      BY <3>1, <3>2
  <2> QED
    BY <1>2, <2>1, <2>2
<1> HIDE DEF r
<1>5. todo'[t] = r /\ \A u \in Threads \ {t} : todo'[u] = todo[u]
  BY DEF PointersTyped, r
<1>6. Left(t) = Len(s) /\ Left(t)' = Len(s) /\ Items(t)' = Items(t) /\ Items(t) = 0..Len(s) - 1
  BY <1>4, <1>5 DEF Left, Items
<1>7. \A d \in Items(t) : Item(t, d)' = IF d = Left(t) - 1 THEN x ELSE Item(t, d)
  <2> SUFFICES ASSUME NEW d \in Items(t) PROVE Item(t, d)' = IF d = Left(t) - 1 THEN x ELSE Item(t, d)
    OBVIOUS
  <2>1. Len(s) - d \in 1..Len(s) /\ (Len(s) - d = 1 <=> d = Len(s) - 1)
    BY <1>2, <1>6
  <2>2. Item(t, d)' = r[Len(s) - d] /\ Item(t, d) = s[Len(s) - d]
    BY <1>4, <1>5 DEF Item
  <2> QED
    BY <1>4, <1>6, <2>1, <2>2
<1>8. Head(s) = Item(t, Left(t) - 1)
  BY <1>2, <1>6 DEF Item
<1>9. todo' \in [Threads -> Seq(CallItems)]
  BY <1>4 DEF PointersTyped, r
<1> QED
  BY <1>2, <1>5, <1>6, <1>7, <1>8, <1>9

-----------------------------------------------------------------------------
(* Pointers: the items of a call *)

\* The items.
AddItem(o) == [op |-> "inc", o |-> o]
DropItem(o) == [op |-> "dec", o |-> o]
StoreItem(p, o) == [op |-> "store", p |-> p, o |-> o]
BecomeItem(s) == [op |-> "become", s |-> s]

\* What the items of a call hold.
LEMMA ItemsTyped ==
  /\ \A o \in Objects : AddItem(o) \in CallItems /\ DropItem(o) \in CallItems
  /\ \A p \in Pointers, o \in Objects \cup {Null} : StoreItem(p, o) \in CallItems
  /\ \A s \in Seq(Datas) : BecomeItem(s) \in CallItems
  /\ \A o : AddItem(o).op = "inc" /\ AddItem(o).o = o /\ DropItem(o).op = "dec" /\ DropItem(o).o = o
  /\ \A p, o : StoreItem(p, o).op = "store" /\ StoreItem(p, o).p = p /\ StoreItem(p, o).o = o
  /\ \A s : BecomeItem(s).op = "become" /\ BecomeItem(s).s = s
BY DEF AddItem, DropItem, StoreItem, BecomeItem, CallItems

\* An item of a call is of one of four kinds.
LEMMA ItemKinds ==
  ASSUME NEW x \in CallItems
  PROVE  \/ x.op = "inc" /\ x.o \in Objects /\ x = AddItem(x.o)
         \/ x.op = "dec" /\ x.o \in Objects /\ x = DropItem(x.o)
         \/ x.op = "store" /\ x.p \in Pointers /\ x.o \in Objects \cup {Null} /\ x = StoreItem(x.p, x.o)
         \/ x.op = "become" /\ x.s \in Seq(Datas) /\ x = BecomeItem(x.s)
BY DEF AddItem, DropItem, StoreItem, BecomeItem, CallItems

\* A call of at most three items begins.
LEMMA Begins ==
  ASSUME PointersTyped, NEW t \in Threads, NEW s \in Seq(CallItems), todo' = [todo EXCEPT ![t] = s]
  PROVE  /\ Left(t)' = Len(s) /\ Items(t)' = 0..Len(s) - 1
         /\ \A d \in 0..Len(s) - 1 : Item(t, d)' = s[Len(s) - d]
         /\ \A u \in Threads \ {t} : todo'[u] = todo[u]
         /\ todo' \in [Threads -> Seq(CallItems)]
BY DEF PointersTyped, Left, Items, Item

\* Short sequences that are joined.
LEMMA Joined ==
  ASSUME NEW a, NEW b, NEW c
  PROVE  /\ <<>> \o <<a>> = <<a>> /\ <<a>> \o <<>> = <<a>>
         /\ <<a>> \o <<b>> = <<a, b>>
         /\ <<a, b>> \o <<c>> = <<a, b, c>>
<1> DEFINE S == {a, b, c}
<1>1. <<a>> \in Seq(S) /\ <<b>> \in Seq(S) /\ <<c>> \in Seq(S) /\ <<a, b>> \in Seq(S) /\ <<a, b, c>> \in Seq(S)
  OBVIOUS
<1>2. <<a>> \o <<b>> = <<a, b>>
  <2> DEFINE r == <<a>> \o <<b>>
  <2>1. r \in Seq(S) /\ Len(r) = 2 /\ r[1] = a /\ r[2] = b
    BY <1>1, ConcatProperties
  <2> HIDE DEF r
  <2>2. r = <<a, b>>
    BY <1>1, <2>1, SeqEqual
  <2> QED
    BY <2>2 DEF r
<1>3. <<a, b>> \o <<c>> = <<a, b, c>>
  <2> DEFINE r == <<a, b>> \o <<c>>
  <2>1. r \in Seq(S) /\ Len(r) = 3 /\ r[1] = a /\ r[2] = b /\ r[3] = c
    BY <1>1, ConcatProperties
  <2> HIDE DEF r
  <2>2. r = <<a, b, c>>
    BY <1>1, <2>1, SeqEqual
  <2> QED
    BY <2>2 DEF r
<1> QED
  BY <1>1, <1>2, <1>3, ConcatEmptySeq

\* A call that replaces a pointer (Replaced), item by item: what there is to count up and down.
LEMMA ReplacedIs ==
  ASSUME PointersAssumption, PointersTyped, NEW p \in Pointers, NEW o \in Objects \cup {Null}
  PROVE  /\ Replaced(p, o) \in Seq(CallItems)
         /\ Replaced(p, o) =
              IF o = Null THEN IF ptr[p] = Null THEN <<StoreItem(p, o)>> ELSE <<DropItem(ptr[p]), StoreItem(p, o)>>
              ELSE IF ptr[p] = Null THEN <<AddItem(o), StoreItem(p, o)>>
                   ELSE <<AddItem(o), DropItem(ptr[p]), StoreItem(p, o)>>
<1> DEFINE a == AddItem(o)
           b == DropItem(ptr[p])
           c == StoreItem(p, o)
<1>1. ptr[p] \in Objects \cup {Null}
  BY DEF PointersTyped
<1>2. /\ o # Null => a \in CallItems
      /\ ptr[p] # Null => b \in CallItems
      /\ c \in CallItems
  BY <1>1, ItemsTyped
<1>3. Replaced(p, o) = (IF o = Null THEN <<>> ELSE <<a>>) \o (IF ptr[p] = Null THEN <<>> ELSE <<b>>) \o <<c>>
  BY DEF Replaced, Inc, Dec, Store, AddItem, DropItem, StoreItem
<1> HIDE DEF a, b, c
<1>4. CASE o = Null /\ ptr[p] = Null
  <2>1. Replaced(p, o) = <<>> \o <<>> \o <<c>>
    BY <1>3, <1>4
  <2>2. Replaced(p, o) = <<c>>
    BY <2>1
  <2>3. <<c>> \in Seq(CallItems)
    BY <1>2, <1>4
  <2> QED
    BY <1>4, <2>2, <2>3 DEF a, b, c
<1>5. CASE o = Null /\ ptr[p] # Null
  <2>1. Replaced(p, o) = <<>> \o <<b>> \o <<c>>
    BY <1>3, <1>5
  <2>2. Replaced(p, o) = <<b, c>>
    BY <2>1, Joined
  <2>3. <<b, c>> \in Seq(CallItems)
    BY <1>2, <1>5
  <2> QED
    BY <1>5, <2>2, <2>3 DEF a, b, c
<1>6. CASE o # Null /\ ptr[p] = Null
  <2>1. Replaced(p, o) = <<a>> \o <<>> \o <<c>>
    BY <1>3, <1>6
  <2>2. Replaced(p, o) = <<a, c>>
    BY <2>1, Joined
  <2>3. <<a, c>> \in Seq(CallItems)
    BY <1>2, <1>6
  <2> QED
    BY <1>6, <2>2, <2>3 DEF a, b, c
<1>7. CASE o # Null /\ ptr[p] # Null
  <2>1. Replaced(p, o) = <<a>> \o <<b>> \o <<c>>
    BY <1>3, <1>7
  <2>2. Replaced(p, o) = <<a, b, c>>
    BY <2>1, Joined
  <2>3. <<a, b, c>> \in Seq(CallItems)
    BY <1>2, <1>7
  <2> QED
    BY <1>7, <2>2, <2>3 DEF a, b, c
<1> QED
  BY <1>4, <1>5, <1>6, <1>7

\* The same, counted from the end.
LEMMA BeginsReplaced ==
  ASSUME PointersAssumption, PointersTyped, NEW t \in Threads, NEW p \in Pointers, NEW o \in Objects \cup {Null},
         todo' = [todo EXCEPT ![t] = Replaced(p, o)]
  PROVE  /\ Left(t)' = (IF o = Null THEN 0 ELSE 1) + (IF ptr[p] = Null THEN 0 ELSE 1) + 1
         /\ Items(t)' = 0..Left(t)' - 1
         /\ Item(t, 0)' = StoreItem(p, o)
         /\ ptr[p] # Null => Item(t, 1)' = DropItem(ptr[p])
         /\ o # Null => First(t)' = AddItem(o)
         /\ \A u \in Threads \ {t} : todo'[u] = todo[u]
         /\ todo' \in [Threads -> Seq(CallItems)]
<1> DEFINE r == Replaced(p, o)
           a == AddItem(o)
           b == DropItem(ptr[p])
           c == StoreItem(p, o)
<1>1. r \in Seq(CallItems)
  BY ReplacedIs
<1>2. /\ Left(t)' = Len(r) /\ Items(t)' = 0..Len(r) - 1
      /\ \A d \in 0..Len(r) - 1 : Item(t, d)' = r[Len(r) - d]
      /\ \A u \in Threads \ {t} : todo'[u] = todo[u]
      /\ todo' \in [Threads -> Seq(CallItems)]
  BY <1>1, Begins
<1>8. Len(r) \in Nat \ {0} => First(t)' = r[1]
  <2> SUFFICES ASSUME Len(r) \in Nat \ {0} PROVE First(t)' = r[1]
    OBVIOUS
  <2>1. todo'[t] = r
    BY DEF PointersTyped
  <2>2. First(t)' = r[Len(r) - (Len(r) - 1)] /\ Len(r) - (Len(r) - 1) = 1
    BY <2>1 DEF First, Item, Left
  <2> QED
    BY <2>2
<1>3. r = IF o = Null THEN IF ptr[p] = Null THEN <<c>> ELSE <<b, c>>
          ELSE IF ptr[p] = Null THEN <<a, c>> ELSE <<a, b, c>>
  BY ReplacedIs
<1> HIDE DEF r, a, b, c
<1>4. CASE o = Null /\ ptr[p] = Null
  BY <1>2, <1>3, <1>4 DEF c
<1>5. CASE o = Null /\ ptr[p] # Null
  BY <1>2, <1>3, <1>8, <1>5 DEF b, c
<1>6. CASE o # Null /\ ptr[p] = Null
  BY <1>2, <1>3, <1>8, <1>6 DEF a, c
<1>7. CASE o # Null /\ ptr[p] # Null
  BY <1>2, <1>3, <1>8, <1>7 DEF a, b, c
<1> QED
  BY <1>4, <1>5, <1>6, <1>7

-----------------------------------------------------------------------------
(* Pointers: what a step leaves as it is *)

\* A new object stays new as long as its call does and nothing else comes to name it.
LEMMA NewKept ==
  ASSUME NEW o, NEW u \in Threads, New(o, u), todo'[u] = todo[u],
         made \subseteq made', o \notin gone', KnownTo(o, {u}) => KnownTo(o, {u})'
  PROVE  New(o, u)'
<1>1. Adding(u)' = Adding(u) /\ \A d : Item(u, d)' = Item(u, d)
  BY SameCall
<1> QED
  BY <1>1 DEF New

\* The items of a call have their types.
LEMMA ItemTypes ==
  ASSUME PointersTyped, NEW t \in Threads
  PROVE  /\ Left(t) \in Nat /\ Items(t) \subseteq Nat
         /\ \A d \in Items(t) : Item(t, d) \in CallItems
<1>1. todo[t] \in Seq(CallItems)
  BY DEF PointersTyped
<1>2. \A d \in 0..Len(todo[t]) - 1 : Len(todo[t]) - d \in 1..Len(todo[t])
  BY <1>1
<1> QED
  BY <1>1, <1>2 DEF Left, Items, Item

\* A call that nothing happens to stays one.
LEMMA ShapeKept ==
  ASSUME NEW u \in Threads, todo'[u] = todo[u], group'[u] = group[u], ptr'[<<u, "ko">>] = ptr[<<u, "ko">>]
  PROVE  /\ OnlyDrops(u)' <=> OnlyDrops(u)
         /\ Replaces(u)' <=> Replaces(u)
         /\ Reopens(u)' <=> Reopens(u)
         /\ Appends(u)' <=> Appends(u)
         /\ \A b : Becomes(u, b)' <=> Becomes(u, b)
         /\ ShapeOf(u)' <=> ShapeOf(u)
<1>1. Left(u)' = Left(u) /\ Items(u)' = Items(u) /\ \A d : Item(u, d)' = Item(u, d)
  BY SameCall
<1>2. OnlyDrops(u)' <=> OnlyDrops(u)
  BY <1>1 DEF OnlyDrops
<1>3. Replaces(u)' <=> Replaces(u)
  BY <1>1 DEF Replaces
<1>4. Reopens(u)' <=> Reopens(u)
  BY <1>1 DEF Reopens
<1>5. Appends(u)' <=> Appends(u)
  BY <1>1 DEF Appends
<1>6. \A b : Becomes(u, b)' <=> Becomes(u, b)
  BY <1>1 DEF Becomes
<1> QED
  BY <1>1, <1>2, <1>3, <1>4, <1>5, <1>6 DEF ShapeOf

\* A call keeps its part of the invariant while another thread moves that it does not read.
LEMMA OthersKept ==
  ASSUME PointersAssumption, PointersTyped, CallInv, NEW t \in Threads, NEW u \in Threads \ {t},
         todo'[u] = todo[u], reads'[u] = reads[u], reads[u] # t,
         \A v \in Threads \ {t} : group'[v] = group[v] /\ \A j \in Slots[v] \cup {"ko"} : ptr'[<<v, j>>] = ptr[<<v, j>>],
         reads[u] = Null => \A x \in Datas : ptr'[<<x, "link">>] = ptr[<<x, "link">>],
         \A o \in Objects : New(o, u) => New(o, u)'
  PROVE  ShapeOf(u)' /\ StoreOf(u)' /\ OldOf(u)' /\ SourceOf(u)'
<1>1. /\ Left(u)' = Left(u) /\ Items(u)' = Items(u) /\ Adding(u)' = Adding(u)
      /\ \A d : Item(u, d)' = Item(u, d)
  BY SameCall
<1>2. /\ Replaces(u)' <=> Replaces(u)
      /\ Reopens(u)' <=> Reopens(u)
      /\ Appends(u)' <=> Appends(u)
      /\ \A b : Becomes(u, b)' <=> Becomes(u, b)
      /\ ShapeOf(u)' <=> ShapeOf(u)
  BY ShapeKept
<1>3. ShapeOf(u) /\ StoreOf(u) /\ OldOf(u) /\ SourceOf(u)
  BY DEF CallInv
<1>4. reads[u] \in (Threads \ {t}) \cup {Null}
  BY DEF PointersTyped
<1>5. \A j \in Slots[u] \cup {"ko"} : ptr'[<<u, j>>] = ptr[<<u, j>>]
  OBVIOUS
<1>6. StoreOf(u)'
  <2> DEFINE Placed(p) == p \in {u} \X (Slots[u] \cup {"ko"})
             Linked(p) == reads[u] = Null /\ p[1] \in Datas /\ p[2] = "link"
             Ends(o, p) == o # Null => (o \in Kernels <=> p[1] \in Threads /\ p[2] = "ko")
  <2>1. \A d \in Items(u) : Item(u, d).op = "store" =>
          /\ Ends(Item(u, d).o, Item(u, d).p)
          /\ \/ Placed(Item(u, d).p)
             \/ Linked(Item(u, d).p) /\ \E j \in Slots[u] : ptr[<<u, j>>] = Item(u, d).p[1]
    BY <1>3 DEF StoreOf
  <2>2. \A d \in Items(u) : Item(u, d).op = "store" =>
          /\ Ends(Item(u, d).o, Item(u, d).p)
          /\ \/ Placed(Item(u, d).p)
             \/ Linked(Item(u, d).p) /\ \E j \in Slots[u] : ptr'[<<u, j>>] = Item(u, d).p[1]
    <3> HIDE DEF Placed, Linked, Ends
    <3> QED
      BY <1>5, <2>1
  <2> SUFFICES ASSUME NEW d \in Items(u)', Item(u, d)'.op = "store"
      PROVE  /\ Ends(Item(u, d)'.o, Item(u, d)'.p)
             /\ \/ Placed(Item(u, d)'.p)
                \/ /\ reads'[u] = Null /\ Item(u, d)'.p[1] \in Datas /\ Item(u, d)'.p[2] = "link"
                   /\ \E j \in Slots[u] : ptr'[<<u, j>>] = Item(u, d)'.p[1]
    BY DEF StoreOf
  <2>3. d \in Items(u) /\ Item(u, d)' = Item(u, d)
    BY <1>1
  <2> HIDE DEF Placed, Ends
  <2> QED
    BY <2>2, <2>3
<1>7. OldOf(u)'
  <2> SUFFICES ASSUME Replaces(u), Adding(u) # {}
      PROVE ptr'[Item(u, 0).p] = ptr[Item(u, 0).p]
    BY <1>1, <1>2, <1>3 DEF OldOf
  <2>1. Left(u) \in 1..3 /\ Item(u, 0).op = "store" /\ 0 \in Items(u)
    BY DEF Replaces, Items
  <2> DEFINE p == Item(u, 0).p
  <2>2. CASE p \in {u} \X (Slots[u] \cup {"ko"})
    <3>1. \E j \in Slots[u] \cup {"ko"} : p = <<u, j>>
      BY <2>2
    <3> QED
      BY <3>1, <1>5
  <2>3. CASE reads[u] = Null /\ p[1] \in Datas /\ p[2] = "link"
    <3>1. p \in Pointers
      BY <2>1, ItemTypes, ItemKinds
    <3>2. p = <<p[1], p[2]>>
      BY <3>1, PointersAre
    <3>3. ptr'[<<p[1], "link">>] = ptr[<<p[1], "link">>]
      BY <2>3
    <3> QED
      BY <2>3, <3>2, <3>3
  <2>4. p \in {u} \X (Slots[u] \cup {"ko"}) \/ (reads[u] = Null /\ p[1] \in Datas /\ p[2] = "link")
    BY <1>3, <2>1 DEF StoreOf
  <2> QED
    BY <2>2, <2>3, <2>4
<1>8. ASSUME NEW o, NEW p, Comes(u, o, p) PROVE Comes(u, o, p)'
  <2>1. CASE reads[u] \in Threads
    <3>1. \A j \in Slots[reads[u]] \cup {"ko"} : ptr'[<<reads[u], j>>] = ptr[<<reads[u], j>>]
      BY <2>1
    <3>2. reads[u] # Null
      BY <2>1 DEF PointersAssumption
    <3> QED
      BY <1>8, <2>1, <3>1, <3>2 DEF Comes
  <2>2. CASE reads[u] = Null
    <3>1. Null \notin Threads
      BY DEF PointersAssumption
    <3> QED
      BY <1>5, <1>8, <2>2, <3>1 DEF Comes
  <2> QED
    BY <1>4, <2>1, <2>2
<1>9. SourceOf(u)'
  <2>1. Replaces(u) /\ Adding(u) # {} => New(Item(u, 0).o, u)' \/ Comes(u, Item(u, 0).o, Item(u, 0).p)'
    <3> SUFFICES ASSUME Replaces(u), Adding(u) # {}
        PROVE New(Item(u, 0).o, u)' \/ Comes(u, Item(u, 0).o, Item(u, 0).p)'
      OBVIOUS
    <3>1. New(Item(u, 0).o, u) => Item(u, 0).o \in Objects
      BY DEF New, PointersTyped
    <3>2. New(Item(u, 0).o, u) \/ Comes(u, Item(u, 0).o, Item(u, 0).p)
      BY <1>3 DEF SourceOf
    <3>3. CASE New(Item(u, 0).o, u)
      <4>1. PICK o \in Objects : o = Item(u, 0).o
        BY <3>1, <3>3
      <4>2. New(o, u)'
        BY <3>3, <4>1
      <4>3. Item(u, 0)'.o = o
        BY <1>1, <4>1
      <4> QED
        BY <4>2, <4>3 DEF New, KnownTo
    <3> QED
      BY <3>2, <3>3, <1>1, <1>8
  <2> QED
    BY <1>1, <1>2, <1>3, <1>4, <1>5, <2>1 DEF SourceOf
<1> QED
  BY <1>2, <1>3, <1>6, <1>7, <1>9

\* What a call that replaces a pointer says at first.
LEMMA ReplacedCall ==
  ASSUME PointersAssumption, PointersTyped, NEW t \in Threads, NEW p \in Pointers, NEW o \in Objects \cup {Null},
         todo' = [todo EXCEPT ![t] = Replaced(p, o)]
  PROVE  /\ Left(t)' \in 1..3 /\ 0 \in Items(t)' /\ Items(t)' = 0..Left(t)' - 1
         /\ Replaces(t)' /\ Adding(t)' = IF o = Null THEN {} ELSE {Left(t)' - 1}
         /\ \A q : StoresTo(t, q)' <=> q = p
         /\ ~Becoming(t)' /\ ~LateHandle(t)' /\ ~LateMember(t)'
         /\ \A d \in Items(t)' :
              /\ d = 0 => Item(t, d)' = StoreItem(p, o)
              /\ d > 0 => \/ o # Null /\ d = Left(t)' - 1 /\ Item(t, d)' = AddItem(o)
                          \/ ptr[p] # Null /\ d = 1 /\ Item(t, d)' = DropItem(ptr[p])
         /\ ptr[p] # Null => 1 \in Items(t)' /\ Item(t, 1)' = DropItem(ptr[p])
         /\ (o # Null => IF ptr[p] = Null THEN Left(t)' = 2 ELSE Left(t)' = 3)
<1>1. /\ Left(t)' = (IF o = Null THEN 0 ELSE 1) + (IF ptr[p] = Null THEN 0 ELSE 1) + 1
      /\ Items(t)' = 0..Left(t)' - 1
      /\ Item(t, 0)' = StoreItem(p, o)
      /\ ptr[p] # Null => Item(t, 1)' = DropItem(ptr[p])
      /\ o # Null => First(t)' = AddItem(o)
  BY BeginsReplaced
<1>2. \A x : /\ AddItem(x).op = "inc" /\ AddItem(x).o = x /\ DropItem(x).op = "dec" /\ DropItem(x).o = x
             /\ \A q : StoreItem(q, x).op = "store" /\ StoreItem(q, x).p = q /\ StoreItem(q, x).o = x
  BY ItemsTyped
<1>3. Left(t)' \in 1..3 /\ 0 \in Items(t)'
  BY <1>1
<1>4. \A d \in Items(t)' :
        /\ d = 0 => Item(t, d)' = StoreItem(p, o)
        /\ d > 0 => \/ o # Null /\ d = Left(t)' - 1 /\ Item(t, d)' = AddItem(o)
                    \/ ptr[p] # Null /\ d = 1 /\ Item(t, d)' = DropItem(ptr[p])
  <2>1. ASSUME NEW d \in Items(t)', d > 0
        PROVE \/ o # Null /\ d = Left(t)' - 1 /\ Item(t, d)' = AddItem(o)
              \/ ptr[p] # Null /\ d = 1 /\ Item(t, d)' = DropItem(ptr[p])
    <3>1. CASE ptr[p] # Null /\ d = 1
      BY <1>1, <3>1
    <3>2. CASE ~(ptr[p] # Null /\ d = 1)
      <4>1. o # Null /\ d = Left(t)' - 1
        BY <1>1, <2>1, <3>2
      <4>2. First(t)' = Item(t, d)'
        BY <4>1 DEF First
      <4> QED
        BY <1>1, <4>1, <4>2
    <3> QED
      BY <3>1, <3>2
  <2> QED
    BY <1>1, <2>1
<1>5. o # Null => Left(t)' - 1 \in Items(t)' /\ Left(t)' - 1 > 0 /\ Item(t, 0)'.o = o /\ First(t)' = AddItem(o)
  BY <1>1, <1>2
<1>6. Replaces(t)'
  BY <1>1, <1>2, <1>3, <1>4 DEF Replaces
<1>7. Adding(t)' = IF o = Null THEN {} ELSE {Left(t)' - 1}
  <2>1. ASSUME NEW d \in Items(t)', Item(t, d)'.op = "inc" PROVE o # Null /\ d = Left(t)' - 1
    BY <1>1, <1>2, <1>4, <2>1
  <2>2. ASSUME o # Null, NEW d, d = Left(t)' - 1 PROVE Item(t, d)'.op = "inc"
    <3>1. First(t)'.op = "inc"
      BY <1>2, <1>5, <2>2
    <3> QED
      BY <2>2, <3>1 DEF First
  <2> QED
    BY <1>5, <2>1, <2>2 DEF Adding
<1>8. \A q : StoresTo(t, q)' <=> q = p
  BY <1>1, <1>2, <1>3, <1>4 DEF StoresTo
<1>9. ~Becoming(t)'
  BY <1>1, <1>2, <1>3, <1>4 DEF Becoming
<1>10. ~LateHandle(t)' /\ ~LateMember(t)'
  BY <1>1, <1>2 DEF LateHandle, LateMember
<1> QED
  BY <1>1, <1>3, <1>4, <1>6, <1>7, <1>8, <1>9, <1>10

-----------------------------------------------------------------------------
(* Pointers: what is counted is there *)

\* Objects that are counted for a pointer are there.
LEMMA CountedIsThere ==
  ASSUME RefsInv, NEW o \in Objects, Pointing(o) \cup Grouped(o) \cup Dropping(o) \cup Storing(o) \cup Joining(o) # {}
  PROVE  counts[o] > 0 /\ o \notin gone
<1> DEFINE P == Pointing(o)
           G == Grouped(o)
           D == Dropping(o)
           S == Storing(o)
           J == Joining(o)
<1>1. /\ IsFiniteSet(P) /\ IsFiniteSet(G) /\ IsFiniteSet(D) /\ IsFiniteSet(S) /\ IsFiniteSet(J)
      /\ counts[o] = Cardinality(P) + Cardinality(G) + Cardinality(D) + Cardinality(S) + Cardinality(J)
      /\ o \in gone => counts[o] = 0
  BY DEF RefsInv, CountInv
<1> HIDE DEF P, G, D, S, J
<1>2. P \cup G \cup D \cup S \cup J # {}
  BY DEF P, G, D, S, J
<1>3. \A X : IsFiniteSet(X) => Cardinality(X) \in Nat /\ (Cardinality(X) = 0 <=> X = {})
  BY FS_EmptySet, FS_CardinalityType
<1> QED
  BY <1>1, <1>2, <1>3

\* What is named is made.
LEMMA NamedIsMade ==
  ASSUME RefsInv, NEW o \in Objects, o \notin made
  PROVE  /\ \A p \in Pointers : ptr[p] # o
         /\ \A t \in Threads : \A k \in DOMAIN group[t] : group[t][k] # o
         /\ \A t \in Threads : \A d \in Items(t) : ~Names(Item(t, d), o)
BY DEF RefsInv, UnmadeInv, KnownTo

\* Nobody replaces the pointers of a thread that does nothing.
LEMMA OwnCounts ==
  ASSUME PointersAssumption, RefsInv, NEW t \in Threads, NEW j \in Slots[t] \cup {"ko"}, ~StoresTo(t, <<t, j>>),
         j = "ko" => ~LateHandle(t)
  PROVE  /\ Counts(<<t, j>>)
         /\ \A o : ptr[<<t, j>>] = o => <<t, j>> \in Pointing(o)
<1>1. <<t, j>> \in Pointers
  BY PointersAre
<1>2. ASSUME NEW u \in Threads, StoresTo(u, <<t, j>>) PROVE FALSE
  <2>1. PICK d \in Items(u) : Item(u, d).op = "store" /\ Item(u, d).p = <<t, j>>
    BY <1>2 DEF StoresTo
  <2>2. StoreOf(u)
    BY DEF RefsInv, CallInv
  <2>3. t \notin Datas
    BY DEF PointersAssumption, Objects
  <2>4. u = t
    BY <2>1, <2>2, <2>3 DEF StoreOf
  <2> QED
    BY <1>2, <2>4
<1>3. Live(<<t, j>>)
  BY DEF Live
<1>4. Counts(<<t, j>>)
  BY <1>2, <1>3 DEF Counts
<1> QED
  BY <1>1, <1>4 DEF Pointing

\* A thread without a call has nothing to do.
LEMMA IdleDoes ==
  ASSUME NEW t, Left(t) = 0
  PROVE  /\ Items(t) = {} /\ Adding(t) = {} /\ ~Becoming(t) /\ ~LateHandle(t) /\ ~LateMember(t)
         /\ \A p : ~StoresTo(t, p)
BY DEF Items, Adding, Becoming, LateHandle, LateMember, StoresTo

\* The places of groups count as before when the calls write the same groups.
LEMMA GroupedSame ==
  ASSUME group' = group, \A u \in Threads : (Becoming(u)' <=> Becoming(u)) /\ (LateMember(u)' <=> LateMember(u)), NEW o
  PROVE  Grouped(o)' = Grouped(o)
BY DEF Grouped

\* A call that makes no group leaves those to come as they are.
LEMMA JoiningSame ==
  ASSUME NEW t \in Threads, \A u \in Threads \ {t} : todo'[u] = todo[u], NEW o,
         ~Becoming(t), ~Becoming(t)'
  PROVE  Joining(o)' = Joining(o)
<1>1. \A u \in Threads \ {t} : Left(u)' = Left(u) /\ Items(u)' = Items(u) /\ \A d : Item(u, d)' = Item(u, d)
  BY SameCall
<1>2. \A d \in Items(t) : Item(t, d).op # "become"
  BY DEF Becoming
<1>3. \A d \in Items(t)' : Item(t, d)'.op # "become"
  BY DEF Becoming
<1>4. ASSUME NEW x \in Threads \X Nat PROVE x \in Joining(o)' <=> x \in Joining(o)
  <2>1. CASE x[1] = t
    BY <1>2, <1>3, <2>1 DEF Joining
  <2>2. CASE x[1] # t
    <3>1. x[1] \in Threads \ {t}
      BY <2>2
    <3> QED
      BY <1>1, <3>1 DEF Joining
  <2> QED
    BY <2>1, <2>2
<1>5. Joining(o) \subseteq Threads \X Nat /\ Joining(o)' \subseteq Threads \X Nat
  BY DEF Joining
<1> QED
  BY <1>4, <1>5

\* Only the thread that moves may have another pointer to store.
LEMMA StoringSame ==
  ASSUME NEW t \in Threads, \A u \in Threads \ {t} : todo'[u] = todo[u], NEW o,
         t \in Storing(o)' <=> t \in Storing(o)
  PROVE  Storing(o)' = Storing(o)
<1>1. ASSUME NEW u \in Threads \ {t} PROVE u \in Storing(o)' <=> u \in Storing(o)
  <2>1. Items(u)' = Items(u) /\ Adding(u)' = Adding(u) /\ \A d : Item(u, d)' = Item(u, d)
    BY SameCall
  <2> QED
    BY <2>1 DEF Storing
<1>2. Storing(o) \subseteq Threads /\ Storing(o)' \subseteq Threads
  BY DEF Storing
<1> QED
  BY <1>1, <1>2

\* What the others are to drop.
LEMMA DroppingOthers ==
  ASSUME NEW t \in Threads, \A u \in Threads \ {t} : todo'[u] = todo[u], NEW o, NEW x, x[1] # t
  PROVE  x \in Dropping(o)' <=> x \in Dropping(o)
<1>1. \A u \in Threads \ {t} : Items(u)' = Items(u) /\ \A d : Item(u, d)' = Item(u, d)
  BY SameCall
<1>2. CASE x \in Threads \X Nat
  <2>1. x[1] \in Threads \ {t}
    BY <1>2
  <2> QED
    BY <1>1, <1>2, <2>1 DEF Dropping
<1>3. CASE x \notin Threads \X Nat
  BY <1>3 DEF Dropping
<1> QED
  BY <1>2, <1>3

-----------------------------------------------------------------------------
(* Pointers: a call on a pointer begins *)

\* A count is the number of things in the five sets.
Counted(n, P, G, D, S, J) ==
  /\ IsFiniteSet(P) /\ IsFiniteSet(G) /\ IsFiniteSet(D) /\ IsFiniteSet(S) /\ IsFiniteSet(J)
  /\ n = Cardinality(P) + Cardinality(G) + Cardinality(D) + Cardinality(S) + Cardinality(J)

\* A call of t begins that counts o, drops what p points to and stores o there, in any order;
\* the nth item from its end drops, and r is whose pointers it reads.
CallBegins(t, p, o, r, n) ==
  /\ \A u \in Threads \ {t} : todo'[u] = todo[u]
  /\ todo' \in [Threads -> Seq(CallItems)] /\ reads' = [reads EXCEPT ![t] = r]
  /\ UNCHANGED <<counts, gone, ptr, group>>
  /\ made' = made \/ (o \in Objects \ made /\ made' = made \cup {o})
  /\ r \in Threads \ {t} => Left(r) = 0
  /\ r = Null => \A u \in Threads \ {t} : reads[u] # Null
  /\ \/ p \in {t} \X (Slots[t] \cup {"ko"})
     \/ r = Null /\ p[1] \in Datas /\ p[2] = "link" /\ \E j \in Slots[t] : ptr[<<t, j>>] = p[1]
  /\ o # Null => \/ o \notin made /\ made' = made \cup {o} /\ \E d \in Adding(t)' : Item(t, d)'.o = o
                 \/ o \in made /\ \E q \in Pointers : ptr[q] = o
  /\ Left(t)' # 0
  /\ \A d \in Items(t)' : \/ o # Null /\ Item(t, d)' = AddItem(o)
                          \/ ptr[p] # Null /\ d = n /\ Item(t, d)' = DropItem(ptr[p])
                          \/ Item(t, d)' = StoreItem(p, o)
  /\ ptr[p] # Null => n \in Items(t)' /\ Item(t, n)' = DropItem(ptr[p])
  /\ Adding(t)' = {} => o = Null
  /\ \A q : StoresTo(t, q)' <=> q = p
  /\ ~Becoming(t)' /\ ~LateHandle(t)' /\ ~LateMember(t)'
  /\ ShapeOf(t)' /\ StoreOf(t)' /\ OldOf(t)' /\ SourceOf(t)'

\* A call on a pointer that begins keeps the invariant.
LEMMA Begun ==
  ASSUME PointersAssumption, RefsInv, NEW t \in Threads, Left(t) = 0, \A u \in Threads \ {t} : reads[u] # t,
         NEW p \in Pointers, NEW o \in Objects \cup {Null}, NEW r \in Threads \cup {Null}, NEW n \in Nat,
         CallBegins(t, p, o, r, n)
  PROVE  RefsInv'
<1> DEFINE old == ptr[p]
<1> USE DEF CallBegins
<1>1. /\ \A d \in Items(t)' : \/ o # Null /\ Item(t, d)' = AddItem(o)
                              \/ old # Null /\ d = n /\ Item(t, d)' = DropItem(old)
                              \/ Item(t, d)' = StoreItem(p, o)
      /\ old # Null => n \in Items(t)' /\ Item(t, n)' = DropItem(old)
      /\ Adding(t)' = {} => o = Null
      /\ \A q : StoresTo(t, q)' <=> q = p
      /\ ~Becoming(t)' /\ ~LateHandle(t)' /\ ~LateMember(t)'
  OBVIOUS
<1>2. (\A u \in Threads \ {t} : todo'[u] = todo[u]) /\ todo' \in [Threads -> Seq(CallItems)]
  OBVIOUS
<1>3. \A x : /\ AddItem(x).op = "inc" /\ AddItem(x).o = x /\ DropItem(x).op = "dec" /\ DropItem(x).o = x
             /\ \A q : StoreItem(q, x).op = "store" /\ StoreItem(q, x).p = q /\ StoreItem(q, x).o = x
  BY ItemsTyped
<1>4. /\ Items(t) = {} /\ Adding(t) = {} /\ ~Becoming(t) /\ ~LateHandle(t) /\ ~LateMember(t)
      /\ \A q : ~StoresTo(t, q)
  BY IdleDoes
<1>5. PointersTyped /\ CallInv /\ ReaderInv /\ CountInv /\ UnmadeInv /\ MadeInv
  BY DEF RefsInv
<1>6. old \in Objects \cup {Null} /\ Null \notin Objects /\ Threads \cap Datas = {}
  BY <1>5 DEF PointersTyped, PointersAssumption, Objects
<1>7. PointersTyped'
  <2>1. made' \subseteq Objects /\ gone' \subseteq made' /\ reads' \in [Threads -> Threads \cup {Null}]
    BY <1>5 DEF PointersTyped
  <2>2. /\ counts' \in [Objects -> Nat] /\ ptr' \in [Pointers -> Objects \cup {Null}]
        /\ \A q \in Pointers : ptr'[q] # Null => (ptr'[q] \in Kernels <=> q[1] \in Threads /\ q[2] = "ko")
        /\ group' \in [Threads -> Seq(Datas)]
    BY <1>5 DEF PointersTyped
  <2> QED
    BY <1>2, <2>1, <2>2 DEF PointersTyped
\* What is known.
<1>8. o # Null => o \in made' \ made \/ \E q \in Pointers : ptr[q] = o
  OBVIOUS
<1>9. ASSUME NEW z \in Objects, NEW T \in SUBSET Threads, t \notin T, KnownTo(z, T), z \in made \/ z \notin made'
      PROVE  KnownTo(z, T)'
  <2>1. z # o
    BY <1>6, <1>8, <1>9 DEF KnownTo
  <2>2. z # old
    BY <1>9 DEF KnownTo
  <2>3. \A d \in Items(t)' : ~Names(Item(t, d)', z)
    <3> SUFFICES ASSUME NEW d \in Items(t)' PROVE ~Names(Item(t, d)', z)
      OBVIOUS
    <3> QED
      BY <1>1, <1>3, <2>1, <2>2 DEF Names
  <2>4. \A u \in Threads \ {t} : Items(u)' = Items(u) /\ \A d : Item(u, d)' = Item(u, d)
    BY <1>2, SameCall
  <2> QED
    BY <1>9, <2>3, <2>4 DEF KnownTo, Names
<1>10. ASSUME NEW z \in Objects, NEW u \in Threads \ {t}, New(z, u) PROVE New(z, u)'
  <2>1. z \in made /\ KnownTo(z, {u}) /\ z \notin gone'
    BY <1>10 DEF New
  <2>2. KnownTo(z, {u})'
    BY <1>9, <2>1
  <2> QED
    BY <1>2, <1>10, <2>1, <2>2, NewKept
\* The calls.
<1>11. ASSUME NEW u \in Threads \ {t} PROVE ShapeOf(u)' /\ StoreOf(u)' /\ OldOf(u)' /\ SourceOf(u)'
  <2>1. todo'[u] = todo[u] /\ reads'[u] = reads[u] /\ reads[u] # t
    BY <1>2, <1>5 DEF PointersTyped
  <2> QED
    BY <1>5, <1>10, <2>1, OthersKept
<1>13. ReaderInv'
  <2>1. \A u \in Threads \ {t} : Left(u)' = Left(u) /\ reads'[u] = reads[u]
    BY <1>2, <1>5, SameCall DEF PointersTyped
  <2>2. reads'[t] = r /\ Left(t)' # 0
    BY <1>5 DEF PointersTyped
  <2> QED
    BY <1>5, <1>6, <2>1, <2>2 DEF ReaderInv, PointersAssumption
\* The counts.
<1>14. old # Null => p \in Pointing(old)
  <2>1. CASE p \in {t} \X (Slots[t] \cup {"ko"})
    <3>1. PICK j \in Slots[t] \cup {"ko"} : p = <<t, j>>
      BY <2>1
    <3> QED
      BY <1>4, <3>1, OwnCounts
  <2>2. CASE r = Null /\ p[1] \in Datas /\ p[2] = "link" /\ \E j \in Slots[t] : ptr[<<t, j>>] = p[1]
    <3>1. PICK j \in Slots[t] : ptr[<<t, j>>] = p[1]
      BY <2>2
    <3>2. p[1] \in Objects
      BY <2>2 DEF Objects
    <3>3. <<t, j>> \in Pointing(p[1])
      BY <1>4, <3>1, OwnCounts DEF PointersAssumption
    <3>4. p[1] \notin gone
      BY <3>2, <3>3, CountedIsThere
    <3>5. p[1] \in made
      BY <3>1, <3>2, NamedIsMade, PointersAre
    <3>6. ASSUME NEW u \in Threads, StoresTo(u, p) PROVE FALSE
      <4>1. PICK d \in Items(u) : Item(u, d).op = "store" /\ Item(u, d).p = p
        BY <3>6 DEF StoresTo
      <4>2. StoreOf(u) /\ u # t
        BY <1>4, <1>5, <3>6 DEF CallInv
      <4>3. p[1] # u
        BY <1>6, <2>2
      <4> QED
        BY <2>2, <4>1, <4>2, <4>3 DEF StoreOf
    <3> QED
      BY <1>6, <2>2, <3>4, <3>5, <3>6 DEF Pointing, Counts, Live
  <2> QED
    BY <2>1, <2>2
<1>15. ASSUME NEW y \in Objects
       PROVE  /\ Pointing(y)' = Pointing(y) \ {p}
              /\ Grouped(y)' = Grouped(y)
              /\ Dropping(y)' = IF y = old THEN Dropping(y) \cup {<<t, n>>} ELSE Dropping(y)
              /\ Storing(y)' = Storing(y)
              /\ Joining(y)' = Joining(y)
  <2>1. \A u \in Threads \ {t} : /\ Becoming(u)' <=> Becoming(u)
                                 /\ LateMember(u)' <=> LateMember(u)
                                 /\ LateHandle(u)' <=> LateHandle(u)
                                 /\ \A q : StoresTo(u, q)' <=> StoresTo(u, q)
    BY <1>2, SameCall
  <2>2. Grouped(y)' = Grouped(y)
    BY <1>1, <1>4, <2>1, GroupedSame
  <2>3. Joining(y)' = Joining(y)
    BY <1>1, <1>2, <1>4, JoiningSame
  <2>4. Storing(y)' = Storing(y)
    <3>1. t \notin Storing(y)
      BY <1>4 DEF Storing
    <3>2. t \notin Storing(y)'
      <4> SUFFICES ASSUME Adding(t)' = {}, NEW d \in Items(t)', Item(t, d)'.op = "store", Item(t, d)'.o = y PROVE FALSE
        BY DEF Storing
      <4>1. o = Null
        BY <1>1
      <4> QED
        BY <1>1, <1>3, <1>6, <4>1
    <3> QED
      BY <1>2, <3>1, <3>2, StoringSame
  <2>5. Dropping(y)' = IF y = old THEN Dropping(y) \cup {<<t, n>>} ELSE Dropping(y)
    <3>1. ASSUME NEW d PROVE <<t, d>> \in Dropping(y)' <=> y = old /\ d = n
      <4>1. <<t, d>> \in Dropping(y)' <=> d \in Items(t)' /\ Item(t, d)'.op = "dec" /\ Item(t, d)'.o = y
        BY DEF Dropping, Items
      <4>2. d \in Items(t)' /\ Item(t, d)'.op = "dec" => d = n /\ old # Null
        BY <1>1, <1>3
      <4> QED
        BY <1>1, <1>3, <1>6, <4>1, <4>2
    <3>2. \A d : <<t, d>> \notin Dropping(y)
      BY <1>4 DEF Dropping
    <3>3. \A x : x[1] # t => (x \in Dropping(y)' <=> x \in Dropping(y))
      BY <1>2, DroppingOthers
    <3>4. \A x \in Dropping(y) \cup Dropping(y)' : x = <<x[1], x[2]>>
      BY DEF Dropping
    <3>5. ASSUME NEW x
          PROVE x \in Dropping(y)' <=> x \in (IF y = old THEN Dropping(y) \cup {<<t, n>>} ELSE Dropping(y))
      <4>1. CASE x[1] = t /\ x = <<x[1], x[2]>>
        <5>1. x = <<t, x[2]>>
          BY <4>1
        <5>2. x = <<t, n>> <=> x[2] = n
          BY <5>1
        <5> QED
          BY <3>1, <3>2, <5>1, <5>2
      <4>2. CASE x[1] # t
        <5>1. x # <<t, n>>
          BY <4>2
        <5> QED
          BY <3>3, <4>2, <5>1
      <4>3. CASE x # <<x[1], x[2]>>
        BY <3>4, <4>3
      <4> QED
        BY <4>1, <4>2, <4>3
    <3> QED
      BY <3>5
  <2>6. Pointing(y)' = Pointing(y) \ {p}
    <3>1. ASSUME NEW q \in Pointers PROVE q \in Pointing(y)' <=> q \in Pointing(y) /\ q # p
      <4>1. CASE ptr[q] # y
        BY <4>1 DEF Pointing
      <4>2. CASE ptr[q] = y
        <5>1. Live(q)' <=> Live(q)
          <6>1. q[1] \in Threads \/ (q[1] \in Datas /\ q = <<q[1], "link">>)
            <7>1. CASE \E v \in Threads : \E j \in Slots[v] \cup {"ko"} : q = <<v, j>>
              <8>1. PICK v \in Threads : \E j \in Slots[v] \cup {"ko"} : q = <<v, j>>
                BY <7>1
              <8>2. q[1] = v
                BY <8>1
              <8> QED
                BY <8>2
            <7>2. CASE \E x \in Datas : q = <<x, "link">>
              BY <7>2
            <7> QED
              BY <7>1, <7>2, PointersAre
          <6>2. q[1] \in made' \ gone' /\ q[1] \notin Threads => q[1] \in made \ gone
            BY <1>5, <1>6, <4>2, <6>1 DEF UnmadeInv
          <6> QED
            BY <6>2 DEF Live
        <5>2. (\A u \in Threads : ~StoresTo(u, q)') <=> (\A u \in Threads : ~StoresTo(u, q)) /\ q # p
          BY <1>1, <1>4, <2>1
        <5>3. q[1] \in Threads => (LateHandle(q[1])' <=> LateHandle(q[1]))
          BY <1>1, <1>4, <2>1
        <5> QED
          BY <5>1, <5>2, <5>3, <4>2 DEF Pointing, Counts
      <4> QED
        BY <4>1, <4>2
    <3> QED
      BY <3>1 DEF Pointing
  <2> QED
    BY <2>2, <2>3, <2>4, <2>5, <2>6
<1>16. CountInv'
  <2> SUFFICES ASSUME NEW y \in Objects
      PROVE  /\ Counted(counts[y], Pointing(y)', Grouped(y)', Dropping(y)', Storing(y)', Joining(y)')
             /\ y \in gone => counts[y] = 0
    BY DEF CountInv, Counted
  <2>1. /\ IsFiniteSet(Pointing(y)) /\ IsFiniteSet(Grouped(y)) /\ IsFiniteSet(Dropping(y))
        /\ IsFiniteSet(Storing(y)) /\ IsFiniteSet(Joining(y))
        /\ counts[y] = Cardinality(Pointing(y)) + Cardinality(Grouped(y)) + Cardinality(Dropping(y))
                     + Cardinality(Storing(y)) + Cardinality(Joining(y))
        /\ y \in gone => counts[y] = 0
    BY <1>5 DEF CountInv
  <2>2. <<t, n>> \notin Dropping(y)
    BY <1>4 DEF Dropping
  <2>3. y # old => p \notin Pointing(y)
    BY DEF Pointing
  <2>4. /\ IsFiniteSet(Pointing(y) \ {p})
        /\ Cardinality(Pointing(y) \ {p}) = IF p \in Pointing(y) THEN Cardinality(Pointing(y)) - 1
                                            ELSE Cardinality(Pointing(y))
    BY <2>1, FS_RemoveElement
  <2>5. /\ IsFiniteSet(Dropping(y) \cup {<<t, n>>})
        /\ Cardinality(Dropping(y) \cup {<<t, n>>}) = Cardinality(Dropping(y)) + 1
    BY <2>1, <2>2, FS_AddElement
  <2>6. /\ Cardinality(Pointing(y)) \in Nat /\ Cardinality(Grouped(y)) \in Nat /\ Cardinality(Dropping(y)) \in Nat
        /\ Cardinality(Storing(y)) \in Nat /\ Cardinality(Joining(y)) \in Nat
    BY <2>1, FS_CardinalityType
  <2>7. CASE y = old
    <3>1. /\ Pointing(y)' = Pointing(y) \ {p} /\ Dropping(y)' = Dropping(y) \cup {<<t, n>>}
          /\ Grouped(y)' = Grouped(y) /\ Storing(y)' = Storing(y) /\ Joining(y)' = Joining(y)
      BY <1>15, <2>7
    <3>2. p \in Pointing(y)
      BY <1>6, <1>14, <2>7
    <3>3. Cardinality(Pointing(y) \ {p}) = Cardinality(Pointing(y)) - 1
      BY <2>4, <3>2
    <3> QED
      BY <2>1, <2>4, <2>5, <2>6, <3>1, <3>3 DEF Counted
  <2>8. CASE y # old
    BY <1>15, <2>1, <2>3, <2>4, <2>6, <2>8 DEF Counted
  <2> QED
    BY <2>7, <2>8
<1>17. UnmadeInv'
  <2> SUFFICES ASSUME NEW z \in Objects \ made'
      PROVE  KnownTo(z, {})' /\ (z \in Datas => ptr'[<<z, "link">>] = Null)
    BY Zenon DEF UnmadeInv
  <2>1. z \notin made
    OBVIOUS
  <2> QED
    BY <1>5, <1>9, <2>1 DEF UnmadeInv
<1>18. MadeInv'
  <2> SUFFICES ASSUME NEW z \in made' \ gone', counts[z] = 0 PROVE \E u \in Threads : New(z, u)'
    BY DEF MadeInv
  <2>1. CASE z \in made
    <3>1. PICK u \in Threads : New(z, u)
      BY <1>5, <2>1 DEF MadeInv
    <3>2. u # t
      BY <1>4, <3>1 DEF New
    <3>3. z \in Objects
      BY <1>5, <2>1 DEF PointersTyped
    <3> QED
      BY <1>10, <3>1, <3>2, <3>3
  <2>2. CASE z \notin made
    <3>1. z = o /\ o \notin made /\ made' = made \cup {o} /\ o # Null
      BY <1>6, <2>2
    <3>2. KnownTo(o, {}) /\ z \in Objects
      BY <1>5, <3>1, <1>7 DEF UnmadeInv, PointersTyped
    <3>3. KnownTo(z, {t})'
      <4>1. \A u \in Threads \ {t} : Items(u)' = Items(u) /\ \A d : Item(u, d)' = Item(u, d)
        BY <1>2, SameCall
      <4> QED
        BY <3>1, <3>2, <4>1 DEF KnownTo, Names
    <3>4. \E d \in Adding(t)' : Item(t, d)'.o = z
      BY <3>1
    <3> QED
      BY <3>3, <3>4 DEF New
  <2> QED
    BY <2>1, <2>2
<1> QED
  BY <1>7, <1>11, <1>13, <1>16, <1>17, <1>18 DEF RefsInv, CallInv

\* A call that replaces a pointer begins.
LEMMA Replacing ==
  ASSUME PointersAssumption, RefsInv, NEW t \in Threads, Left(t) = 0, \A u \in Threads \ {t} : reads[u] # t,
         NEW p \in Pointers, NEW o \in Objects \cup {Null}, NEW r \in Threads \cup {Null},
         todo' = [todo EXCEPT ![t] = Replaced(p, o)], reads' = [reads EXCEPT ![t] = r],
         UNCHANGED <<counts, gone, ptr, group>>,
         made' = made \/ (o \in Objects \ made /\ made' = made \cup {o}),
         r \in Threads \ {t} => Left(r) = 0,
         r = Null => \A u \in Threads \ {t} : reads[u] # Null,
         \/ p \in {t} \X (Slots[t] \cup {"ko"})
         \/ r = Null /\ p[1] \in Datas /\ p[2] = "link" /\ \E j \in Slots[t] : ptr[<<t, j>>] = p[1],
         o # Null => (o \in Kernels <=> p[1] \in Threads /\ p[2] = "ko"),
         o # Null => \/ o \notin made /\ made' = made \cup {o}
                     \/ r \in Threads /\ \E j \in Slots[r] \cup {"ko"} : <<r, j>> # p /\ ptr[<<r, j>>] = o
                     \/ r = Null /\ \E j \in Slots[t] : <<t, j>> # p /\ ptr[<<t, j>>] = o
                     \/ r = Null /\ p[1] = t /\ \E x \in Datas : ptr[<<x, "link">>] = o
                                                             /\ \E j \in Slots[t] : ptr[<<t, j>>] = x
  PROVE  RefsInv'
<1> DEFINE old == ptr[p]
<1>1. /\ Left(t)' \in 1..3 /\ 0 \in Items(t)' /\ Items(t)' = 0..Left(t)' - 1
      /\ Replaces(t)' /\ Adding(t)' = IF o = Null THEN {} ELSE {Left(t)' - 1}
      /\ \A q : StoresTo(t, q)' <=> q = p
      /\ ~Becoming(t)' /\ ~LateHandle(t)' /\ ~LateMember(t)'
      /\ \A d \in Items(t)' :
           /\ d = 0 => Item(t, d)' = StoreItem(p, o)
           /\ d > 0 => \/ o # Null /\ d = Left(t)' - 1 /\ Item(t, d)' = AddItem(o)
                       \/ old # Null /\ d = 1 /\ Item(t, d)' = DropItem(old)
      /\ old # Null => 1 \in Items(t)' /\ Item(t, 1)' = DropItem(old)
      /\ (o # Null => IF old = Null THEN Left(t)' = 2 ELSE Left(t)' = 3)
  BY ReplacedCall DEF RefsInv
<1>2. (\A u \in Threads \ {t} : todo'[u] = todo[u]) /\ todo' \in [Threads -> Seq(CallItems)]
  BY BeginsReplaced DEF RefsInv
<1>3. \A x : /\ AddItem(x).op = "inc" /\ AddItem(x).o = x /\ DropItem(x).op = "dec" /\ DropItem(x).o = x
             /\ \A q : StoreItem(q, x).op = "store" /\ StoreItem(q, x).p = q /\ StoreItem(q, x).o = x
  BY ItemsTyped
<1>4. /\ Items(t) = {} /\ Adding(t) = {} /\ ~Becoming(t) /\ ~LateHandle(t) /\ ~LateMember(t)
      /\ \A q : ~StoresTo(t, q)
  BY IdleDoes
<1>5. PointersTyped /\ CallInv /\ ReaderInv /\ CountInv /\ UnmadeInv /\ MadeInv
  BY DEF RefsInv
<1>6. old \in Objects \cup {Null} /\ Null \notin Objects /\ Threads \cap Datas = {}
  BY <1>5 DEF PointersTyped, PointersAssumption, Objects
<1>7. ShapeOf(t)' /\ StoreOf(t)' /\ OldOf(t)' /\ SourceOf(t)'
  <2>1. ShapeOf(t)'
    BY <1>1 DEF ShapeOf
  <2>2. reads'[t] = r
    BY <1>5 DEF PointersTyped
  <2>3. \A d \in Items(t)' : Item(t, d)'.op = "store" => d = 0
    <3> SUFFICES ASSUME NEW d \in Items(t)', d > 0 PROVE Item(t, d)'.op # "store"
      BY <1>1
    <3> QED
      BY <1>1, <1>3
  <2>4. Item(t, 0)' = StoreItem(p, o) /\ Item(t, 0)'.p = p /\ Item(t, 0)'.o = o /\ Item(t, 0)'.op = "store"
    BY <1>1, <1>3
  <2>5. StoreOf(t)'
    BY <2>2, <2>3, <2>4 DEF StoreOf
  <2>6. OldOf(t)'
    <3> SUFFICES ASSUME Adding(t)' # {}
        PROVE  IF old = Null THEN Left(t)' = 2 ELSE Left(t)' = 3 /\ Item(t, 1)'.o = old
      BY <2>4 DEF OldOf
    <3> QED
      BY <1>1, <1>3
  <2>7. SourceOf(t)'
    <3>1. Adding(t)' # {} => New(o, t)' \/ Comes(t, o, p)'
      <4> SUFFICES ASSUME o # Null PROVE New(o, t)' \/ Comes(t, o, p)'
        BY <1>1
      <4>1. CASE o \notin made /\ made' = made \cup {o}
        <5>1. KnownTo(o, {})
          BY <1>5, <4>1 DEF UnmadeInv
        <5>2. KnownTo(o, {t})'
          <6>1. \A u \in Threads \ {t} : Items(u)' = Items(u) /\ \A d : Item(u, d)' = Item(u, d)
            BY <1>2, SameCall
          <6> QED
            BY <5>1, <6>1 DEF KnownTo, Names
        <5>3. o \in made' \ gone'
          BY <1>5, <4>1 DEF PointersTyped
        <5>4. PICK d \in Adding(t)' : d = Left(t)' - 1
          BY <1>1
        <5>5. Item(t, d)'.o = o
          BY <1>1, <1>3, <5>4
        <5> QED
          BY <5>2, <5>3, <5>5 DEF New
      <4>2. CASE ~(o \notin made /\ made' = made \cup {o})
        BY <2>2, <4>2 DEF Comes
      <4> QED
        BY <4>1, <4>2
    <3>2. ~Reopens(t)' /\ ~Appends(t)'
      BY <2>4 DEF Reopens, Appends
    <3>3. \A b : ~Becomes(t, b)'
      BY <1>1 DEF Becoming, Becomes
    <3>4. Adding(t)' # {} => New(Item(t, 0).o, t)' \/ Comes(t, Item(t, 0).o, Item(t, 0).p)'
      BY <2>4, <3>1 DEF New, KnownTo, Comes
    <3> QED
      BY <3>2, <3>3, <3>4 DEF SourceOf
  <2> QED
    BY <2>1, <2>5, <2>6, <2>7
<1>8. o # Null => \/ o \notin made /\ made' = made \cup {o} /\ \E d \in Adding(t)' : Item(t, d)'.o = o
                  \/ o \in made /\ \E q \in Pointers : ptr[q] = o
  <2> SUFFICES ASSUME o # Null
      PROVE  \/ o \notin made /\ made' = made \cup {o} /\ \E d \in Adding(t)' : Item(t, d)'.o = o
             \/ o \in made /\ \E q \in Pointers : ptr[q] = o
    OBVIOUS
  <2>1. CASE o \notin made /\ made' = made \cup {o}
    <3>1. PICK d \in Adding(t)' : d = Left(t)' - 1
      BY <1>1
    <3>2. d \in Items(t)' /\ Item(t, d)'.op = "inc"
      BY DEF Adding
    <3>3. Item(t, d)'.o = o
      BY <1>1, <1>3, <3>2
    <3> QED
      BY <2>1, <3>3
  <2>2. CASE ~(o \notin made /\ made' = made \cup {o})
    <3>1. \E q \in Pointers : ptr[q] = o
      BY <2>2, PointersAre
    <3>2. o \in made
      BY <1>6, <3>1, NamedIsMade
    <3> QED
      BY <3>1, <3>2
  <2> QED
    BY <2>1, <2>2
<1>9. /\ \A d \in Items(t)' : \/ o # Null /\ Item(t, d)' = AddItem(o)
                              \/ old # Null /\ d = 1 /\ Item(t, d)' = DropItem(old)
                              \/ Item(t, d)' = StoreItem(p, o)
      /\ Left(t)' # 0 /\ (Adding(t)' = {} => o = Null)
  <2> SUFFICES ASSUME NEW d \in Items(t)'
      PROVE  \/ o # Null /\ Item(t, d)' = AddItem(o)
             \/ old # Null /\ d = 1 /\ Item(t, d)' = DropItem(old)
             \/ Item(t, d)' = StoreItem(p, o)
    BY <1>1
  <2>1. d = 0 \/ d > 0
    BY <1>1
  <2> QED
    BY <1>1, <2>1
<1>10. CallBegins(t, p, o, r, 1)
  BY <1>1, <1>2, <1>7, <1>8, <1>9 DEF CallBegins
<1>11. 1 \in Nat
  OBVIOUS
<1> QED
  BY <1>10, <1>11, Begun

\* Nobody reads what a thread has that may begin.
LEMMA Unread ==
  ASSUME RefsInv, NEW t \in Threads, Free(t)
  PROVE  /\ Left(t) = 0 /\ todo[t] = <<>>
         /\ \A u \in Threads \ {t} : reads[u] # t
<1>1. \A u \in Threads : Idle(u) => Left(u) = 0
  BY DEF Idle, Left
<1>2. \A u \in Threads \ {t} : Left(u) = 0 => reads[u] # t
  BY DEF RefsInv, ReaderInv
<1> QED
  BY <1>1, <1>2 DEF Free, Idle

\* Nobody else reads the pointers of objects.
LEMMA Unlinking ==
  ASSUME PointersAssumption, RefsInv, ~Linking
  PROVE  \A u \in Threads : reads[u] # Null
<1>1. \A u \in Threads : Idle(u) => Left(u) = 0
  BY DEF Idle, Left
<1> QED
  BY <1>1 DEF RefsInv, ReaderInv, Linking, PointersAssumption

\* A thread without a call has nothing left of one.
LEMMA IdleReads ==
  ASSUME NEW u \in Threads, Idle(u)
  PROVE  Left(u) = 0
BY DEF Idle, Left

\* The pointers of slots point to objects.
LEMMA SlotPoints ==
  ASSUME PointersAssumption, RefsInv, NEW t \in Threads, NEW i \in Slots[t]
  PROVE  <<t, i>> \in Pointers /\ i # "ko" /\ ptr[<<t, i>>] \in Datas \cup {Null}
<1>1. <<t, i>> \in Pointers
  BY PointersAre
<1>2. i # "ko"
  BY DEF PointersAssumption
<1> QED
  BY <1>1, <1>2 DEF RefsInv, PointersTyped, Objects

\* p = new T keeps it.
LEMMA create_keeps ==
  ASSUME PointersAssumption, RefsInv, NEW t \in Threads, NEW i \in Slots[t], NEW o \in Datas, create(t, i, o)
  PROVE  RefsInv'
<1> DEFINE p == <<t, i>>
<1>1. p \in Pointers /\ i # "ko" /\ o \in Objects \cup {Null} /\ o \notin Kernels /\ t \in Threads \cup {Null}
  BY SlotPoints DEF PointersAssumption, Objects
<1>2. Left(t) = 0 /\ \A u \in Threads \ {t} : reads[u] # t
  BY Unread DEF create
<1>3. t # Null
  BY DEF PointersAssumption
<1>4. /\ todo' = [todo EXCEPT ![t] = Replaced(p, o)] /\ reads' = [reads EXCEPT ![t] = t]
      /\ UNCHANGED <<counts, gone, ptr, group>> /\ o \notin made /\ made' = made \cup {o}
  BY DEF create
<1>5. /\ p \in {t} \X (Slots[t] \cup {"ko"}) /\ ~(p[1] \in Threads /\ p[2] = "ko")
  BY <1>1
<1>6. made' = made \/ (o \in Objects \ made /\ made' = made \cup {o})
  BY <1>1, <1>4 DEF Objects
<1>7. o # Null => (o \in Kernels <=> p[1] \in Threads /\ p[2] = "ko")
  BY <1>1, <1>5
<1> HIDE DEF p
<1> QED
  BY <1>1, <1>2, <1>3, <1>4, <1>5, <1>6, <1>7, Replacing

\* p = q keeps it.
LEMMA equal_keeps ==
  ASSUME PointersAssumption, RefsInv, NEW t \in Threads, NEW i \in Slots[t], NEW u \in Threads, NEW j \in Slots[u],
         equal(t, i, u, j)
  PROVE  RefsInv'
<1> DEFINE p == <<t, i>>
           o == ptr[<<u, j>>]
<1>1. p \in Pointers /\ i # "ko" /\ o \in Objects \cup {Null} /\ o \notin Kernels /\ u \in Threads \cup {Null}
  BY SlotPoints DEF PointersAssumption, Objects
<1>2. Left(t) = 0 /\ \A v \in Threads \ {t} : reads[v] # t
  BY Unread DEF equal
<1>3. u # Null /\ Left(u) = 0
  BY IdleReads DEF PointersAssumption, equal
<1>4. /\ todo' = [todo EXCEPT ![t] = Replaced(p, o)] /\ reads' = [reads EXCEPT ![t] = u]
      /\ UNCHANGED <<counts, gone, ptr, group>> /\ made' = made /\ ptr[p] # o
  BY DEF equal, Calls
<1>5. /\ p \in {t} \X (Slots[t] \cup {"ko"}) /\ ~(p[1] \in Threads /\ p[2] = "ko")
  BY <1>1
<1>6. \E k \in Slots[u] \cup {"ko"} : <<u, k>> # p /\ ptr[<<u, k>>] = o
  BY <1>4
<1> HIDE DEF p, o
<1> QED
  BY <1>1, <1>2, <1>3, <1>4, <1>5, <1>6, Replacing

\* reset(Null) and the destructor keep it.
LEMMA drop_keeps ==
  ASSUME PointersAssumption, RefsInv, NEW t \in Threads, NEW i \in Slots[t], drop(t, i)
  PROVE  RefsInv'
<1> DEFINE p == <<t, i>>
<1>1. p \in Pointers /\ Null \in Objects \cup {Null} /\ t \in Threads \cup {Null}
  BY SlotPoints
<1>2. Left(t) = 0 /\ \A v \in Threads \ {t} : reads[v] # t
  BY Unread DEF drop
<1>3. t # Null
  BY DEF PointersAssumption
<1>4. /\ todo' = [todo EXCEPT ![t] = Replaced(p, Null)] /\ reads' = [reads EXCEPT ![t] = t]
      /\ UNCHANGED <<counts, gone, ptr, group>> /\ made' = made
  BY DEF drop, Calls
<1>5. p \in {t} \X (Slots[t] \cup {"ko"})
  OBVIOUS
<1> HIDE DEF p
<1> QED
  BY <1>1, <1>2, <1>3, <1>4, <1>5, Replacing

\* q->next = p keeps it.
LEMMA link_keeps ==
  ASSUME PointersAssumption, RefsInv, NEW t \in Threads, NEW i \in Slots[t], NEW j \in Slots[t], link(t, i, j)
  PROVE  RefsInv'
<1> DEFINE x == ptr[<<t, j>>]
           p == <<x, "link">>
           o == ptr[<<t, i>>]
<1>1. x \in Datas /\ o \in Objects \cup {Null} /\ o \notin Kernels /\ Null \in Threads \cup {Null}
  BY SlotPoints DEF PointersAssumption, Objects, link
<1>2. Left(t) = 0 /\ \A v \in Threads \ {t} : reads[v] # t
  BY Unread DEF link
<1>3. p \in Pointers /\ x \notin Threads /\ Null \notin Threads /\ \A u \in Threads : reads[u] # Null
  BY <1>1, PointersAre, Unlinking DEF PointersAssumption, Objects, link
<1>4. /\ todo' = [todo EXCEPT ![t] = Replaced(p, o)] /\ reads' = [reads EXCEPT ![t] = Null]
      /\ UNCHANGED <<counts, gone, ptr, group>> /\ made' = made
  BY DEF link, Calls
<1>5. p[1] = x /\ p[2] = "link" /\ ~(p[1] \in Threads /\ p[2] = "ko")
  BY <1>3
<1>6. \E k \in Slots[t] : <<t, k>> # p /\ ptr[<<t, k>>] = o
  BY <1>3
<1>7. \E k \in Slots[t] : ptr[<<t, k>>] = x
  OBVIOUS
<1> HIDE DEF p, o, x
<1> QED
  BY <1>1, <1>2, <1>3, <1>4, <1>5, <1>6, <1>7, Replacing

\* p = q->next keeps it.
LEMMA follow_keeps ==
  ASSUME PointersAssumption, RefsInv, NEW t \in Threads, NEW i \in Slots[t], NEW j \in Slots[t], follow(t, i, j)
  PROVE  RefsInv'
<1> DEFINE x == ptr[<<t, j>>]
           p == <<t, i>>
           o == ptr[<<x, "link">>]
<1>1. x \in Datas /\ Null \in Threads \cup {Null} /\ p \in Pointers /\ i # "ko"
  BY SlotPoints DEF PointersAssumption, Objects, follow
<1>2. Left(t) = 0 /\ \A v \in Threads \ {t} : reads[v] # t
  BY Unread DEF follow
<1>3. <<x, "link">> \in Pointers /\ x \notin Threads /\ Null \notin Threads /\ \A u \in Threads : reads[u] # Null
  BY <1>1, PointersAre, Unlinking DEF PointersAssumption, Objects, follow
<1>4. /\ todo' = [todo EXCEPT ![t] = Replaced(p, o)] /\ reads' = [reads EXCEPT ![t] = Null]
      /\ UNCHANGED <<counts, gone, ptr, group>> /\ made' = made
  BY DEF follow, Calls
<1>5. o \in Objects \cup {Null} /\ (o # Null => o \notin Kernels)
  <2>1. <<x, "link">>[1] \notin Threads
    BY <1>3
  <2> QED
    BY <1>3, <2>1 DEF RefsInv, PointersTyped
<1>6. p \in {t} \X (Slots[t] \cup {"ko"}) /\ ~(p[1] \in Threads /\ p[2] = "ko") /\ p[1] = t
  BY <1>1
<1>7. \E y \in Datas : ptr[<<y, "link">>] = o /\ \E k \in Slots[t] : ptr[<<t, k>>] = y
  BY <1>1
<1> HIDE DEF p, o, x
<1> QED
  BY <1>1, <1>2, <1>3, <1>4, <1>5, <1>6, <1>7, Replacing

\* The handle of a thread.
LEMMA HandlePoints ==
  ASSUME PointersAssumption, RefsInv, NEW t \in Threads
  PROVE  /\ <<t, "ko">> \in Pointers /\ <<t, "ko">> \in {t} \X (Slots[t] \cup {"ko"})
         /\ ptr[<<t, "ko">>] \in Kernels \cup {Null}
         /\ <<t, "ko">>[1] \in Threads /\ <<t, "ko">>[2] = "ko"
<1>1. <<t, "ko">> \in Pointers
  BY PointersAre
<1> QED
  BY <1>1 DEF RefsInv, PointersTyped

\* Opening a KO_Handle keeps it.
LEMMA open_keeps ==
  ASSUME PointersAssumption, RefsInv, NEW t \in Threads, NEW o \in Kernels, open(t, o)
  PROVE  RefsInv'
<1> DEFINE p == <<t, "ko">>
<1>1. /\ p \in Pointers /\ p \in {t} \X (Slots[t] \cup {"ko"}) /\ p[1] \in Threads /\ p[2] = "ko"
      /\ o \in Objects \cup {Null} /\ t \in Threads \cup {Null}
  BY HandlePoints DEF Objects
<1>2. Left(t) = 0 /\ \A v \in Threads \ {t} : reads[v] # t
  BY Unread DEF open
<1>3. t # Null /\ o # Null
  BY DEF PointersAssumption, Objects
<1>4. Inc(o) \o Store(p, o) = Replaced(p, o)
  <2>1. ptr[p] = Null
    BY DEF open
  <2>2. Replaced(p, o) = <<AddItem(o)>> \o <<>> \o <<StoreItem(p, o)>>
    BY <1>3, <2>1 DEF Replaced, Inc, Dec, Store, AddItem, StoreItem
  <2>3. Replaced(p, o) = <<AddItem(o)>> \o <<StoreItem(p, o)>>
    BY <2>2, Joined
  <2> QED
    BY <1>3, <2>3 DEF Inc, Store, AddItem, StoreItem
<1>5. /\ todo' = [todo EXCEPT ![t] = Replaced(p, o)] /\ reads' = [reads EXCEPT ![t] = t]
      /\ UNCHANGED <<counts, gone, ptr, group>> /\ o \notin made /\ made' = made \cup {o}
  BY <1>4 DEF open
<1> HIDE DEF p
<1> QED
  BY <1>1, <1>2, <1>3, <1>5, Replacing

\* Closing a KO_Handle keeps it.
LEMMA close_keeps ==
  ASSUME PointersAssumption, RefsInv, NEW t \in Threads, close(t)
  PROVE  RefsInv'
<1> DEFINE p == <<t, "ko">>
<1>1. /\ p \in Pointers /\ p \in {t} \X (Slots[t] \cup {"ko"}) /\ Null \in Objects \cup {Null} /\ t \in Threads \cup {Null}
  BY HandlePoints
<1>2. Left(t) = 0 /\ \A v \in Threads \ {t} : reads[v] # t
  BY Unread DEF close
<1>3. t # Null
  BY DEF PointersAssumption
<1>4. Dec(ptr[p]) \o Store(p, Null) = Replaced(p, Null)
  <2>1. ptr[p] # Null
    BY DEF close
  <2>2. Replaced(p, Null) = <<>> \o <<DropItem(ptr[p])>> \o <<StoreItem(p, Null)>>
    BY <2>1 DEF Replaced, Inc, Dec, Store, DropItem, StoreItem
  <2>3. Replaced(p, Null) = <<DropItem(ptr[p])>> \o <<StoreItem(p, Null)>>
    BY <2>2, Joined
  <2> QED
    BY <2>1, <2>3 DEF Dec, Store, DropItem, StoreItem
<1>5. /\ todo' = [todo EXCEPT ![t] = Replaced(p, Null)] /\ reads' = [reads EXCEPT ![t] = t]
      /\ UNCHANGED <<counts, gone, ptr, group>> /\ made' = made
  BY <1>4 DEF close, Calls
<1> HIDE DEF p
<1> QED
  BY <1>1, <1>2, <1>3, <1>5, Replacing

\* KO_Handle::operator= keeps it, its close() before the new handle is counted.
LEMMA share_keeps ==
  ASSUME PointersAssumption, RefsInv, NEW t \in Threads, NEW u \in Threads, share(t, u)
  PROVE  RefsInv'
<1> DEFINE p == <<t, "ko">>
           old == ptr[p]
           o == ptr[<<u, "ko">>]
<1>1. /\ p \in Pointers /\ p \in {t} \X (Slots[t] \cup {"ko"}) /\ p[1] \in Threads /\ p[2] = "ko"
      /\ o \in Kernels \cup {Null} /\ old \in Kernels \cup {Null} /\ o \in Objects \cup {Null} /\ u \in Threads \cup {Null}
      /\ <<u, "ko">> \in Pointers
  BY HandlePoints DEF Objects
<1>2. Left(t) = 0 /\ \A v \in Threads \ {t} : reads[v] # t
  BY Unread DEF share
<1>3. u # Null /\ Left(u) = 0 /\ Null \notin Objects
  BY IdleReads DEF PointersAssumption, share
<1>4. /\ todo' = [todo EXCEPT ![t] = Reopened(p, o)] /\ reads' = [reads EXCEPT ![t] = u]
      /\ UNCHANGED <<counts, made, gone, ptr, group>> /\ old # o /\ t # u
  BY DEF share, Calls
<1>5. PointersTyped
  BY DEF RefsInv
<1> DEFINE a == AddItem(o)
           b == DropItem(old)
           c == StoreItem(p, o)
<1>6. /\ o # Null => a \in CallItems
      /\ old # Null => b \in CallItems
      /\ c \in CallItems
      /\ a.op = "inc" /\ a.o = o /\ b.op = "dec" /\ b.o = old /\ c.op = "store" /\ c.p = p /\ c.o = o
      /\ c = [op |-> "store", p |-> p, o |-> o]
  BY <1>1, ItemsTyped DEF Objects, StoreItem
<1>7. Reopened(p, o) = (IF old = Null THEN <<>> ELSE <<b>>) \o <<c>> \o (IF o = Null THEN <<>> ELSE <<a>>)
  BY DEF Reopened, Inc, Dec, Store, AddItem, DropItem, StoreItem
<1>8. CASE o = Null
  <2>1. Reopened(p, o) = <<b>> \o <<c>> \o <<>>
    BY <1>4, <1>7, <1>8
  <2>2. Reopened(p, o) = <<b, c>>
    <3> HIDE DEF b, c
    <3>1. Reopened(p, o) = <<b, c>> \o <<>>
      BY <2>1, Joined
    <3>2. <<b, c>> \in Seq({b, c})
      OBVIOUS
    <3> QED
      BY <3>1, <3>2, ConcatEmptySeq
  <2>3. Reopened(p, o) = Replaced(p, o)
    BY <1>1, <1>4, <1>5, <1>8, <2>2, ReplacedIs
  <2>4. todo' = [todo EXCEPT ![t] = Replaced(p, o)]
    BY <1>4, <2>3
  <2> HIDE DEF p, o, old
  <2> QED
    BY <1>1, <1>2, <1>3, <1>4, <1>8, <2>4, Replacing
<1>9. CASE o # Null
  <2> HIDE DEF a, b, c
  <2>1. Reopened(p, o) = IF old = Null THEN <<c, a>> ELSE <<b, c, a>>
    <3>1. CASE old = Null
      <4>1. Reopened(p, o) = <<>> \o <<c>> \o <<a>>
        BY <1>7, <1>9, <3>1
      <4> QED
        BY <3>1, <4>1, Joined
    <3>2. CASE old # Null
      <4>1. Reopened(p, o) = <<b>> \o <<c>> \o <<a>>
        BY <1>7, <1>9, <3>2
      <4> QED
        BY <3>2, <4>1, Joined
    <3> QED
      BY <3>1, <3>2
  <2> DEFINE s == Reopened(p, o)
  <2>2. s \in Seq(CallItems)
    <3>1. old = Null => <<c, a>> \in Seq(CallItems)
      BY <1>6, <1>9
    <3>2. old # Null => <<b, c, a>> \in Seq(CallItems)
      BY <1>6, <1>9
    <3> QED
      BY <2>1, <3>1, <3>2
  <2>3. todo' = [todo EXCEPT ![t] = s]
    BY <1>4
  <2> HIDE DEF s
  <2>4. /\ Left(t)' = Len(s) /\ Items(t)' = 0..Len(s) - 1
        /\ \A d \in 0..Len(s) - 1 : Item(t, d)' = s[Len(s) - d]
        /\ \A v \in Threads \ {t} : todo'[v] = todo[v]
        /\ todo' \in [Threads -> Seq(CallItems)]
    BY <1>5, <2>2, <2>3, Begins
  <2>5. /\ Left(t)' = IF old = Null THEN 2 ELSE 3
        /\ Items(t)' = 0..Left(t)' - 1
        /\ Item(t, 0)' = a /\ Item(t, 1)' = c /\ (old # Null => Item(t, 2)' = b)
    <3>1. s = IF old = Null THEN <<c, a>> ELSE <<b, c, a>>
      BY <2>1 DEF s
    <3>2. CASE old = Null
      BY <2>4, <3>1, <3>2
    <3>3. CASE old # Null
      BY <2>4, <3>1, <3>3
    <3> QED
      BY <3>2, <3>3
  <2>6. \A d \in Items(t)' : \/ d = 0 /\ Item(t, d)' = a
                             \/ d = 1 /\ Item(t, d)' = c
                             \/ d = 2 /\ old # Null /\ Item(t, d)' = b
    BY <2>5
  <2>7. Left(t)' # 0 /\ 0 \in Items(t)' /\ 1 \in Items(t)' /\ (old # Null => 2 \in Items(t)')
    BY <2>5
  <2>8. Adding(t)' = {0}
    BY <1>6, <2>5, <2>6, <2>7 DEF Adding
  <2>9. \A q : StoresTo(t, q)' <=> q = p
    BY <1>6, <2>5, <2>6, <2>7 DEF StoresTo
  <2>10. ~Becoming(t)'
    BY <1>6, <2>6 DEF Becoming
  <2>11. ~LateHandle(t)' /\ ~LateMember(t)'
    BY <2>5 DEF LateHandle, LateMember
  <2>12. Reopens(t)'
    BY <1>1, <1>6, <1>9, <2>5 DEF Reopens
  <2>13. ShapeOf(t)'
    BY <2>12 DEF ShapeOf
  <2>14. reads'[t] = u
    BY <1>4, <1>5 DEF PointersTyped
  <2>15. StoreOf(t)'
    <3>1. \A d \in Items(t)' : Item(t, d)'.op = "store" => Item(t, d)'.p = p /\ Item(t, d)'.o = o
      BY <1>6, <2>6
    <3>2. o \in Kernels
      BY <1>1, <1>9
    <3> QED
      BY <1>1, <3>1, <3>2 DEF StoreOf
  <2>16. ~Replaces(t)' /\ ~Appends(t)' /\ \A d : ~Becomes(t, d)'
    <3>1. Item(t, 0)'.op = "inc"
      BY <1>6, <2>5
    <3> QED
      BY <2>5, <2>10, <3>1 DEF Replaces, Appends, Becomes, Becoming
  <2>17. OldOf(t)' /\ SourceOf(t)'
    <3>1. Item(t, 0)'.o = o
      BY <1>6, <2>5
    <3> QED
      BY <1>4, <2>14, <2>16, <3>1 DEF OldOf, SourceOf
  <2>18. o \in made /\ \E q \in Pointers : ptr[q] = o
    BY <1>1, <1>9, NamedIsMade
  <2>19. \A d \in Items(t)' : \/ o # Null /\ Item(t, d)' = AddItem(o)
                              \/ old # Null /\ d = 2 /\ Item(t, d)' = DropItem(old)
                              \/ Item(t, d)' = StoreItem(p, o)
    BY <1>9, <2>6 DEF a, b, c
  <2>20. old # Null => 2 \in Items(t)' /\ Item(t, 2)' = DropItem(old)
    BY <2>5, <2>7 DEF b
  <2> HIDE DEF p, o
  <2>21. CallBegins(t, p, o, u, 2)
    BY <1>1, <1>3, <1>4, <2>4, <2>7, <2>8, <2>9, <2>10, <2>11, <2>13, <2>15, <2>17, <2>18, <2>19, <2>20
    DEF CallBegins
  <2>22. 2 \in Nat
    OBVIOUS
  <2> QED
    BY <1>1, <1>2, <2>21, <2>22, Begun
<1> QED
  BY <1>8, <1>9

\* swap keeps it: as many pointers point to each object.
LEMMA swap_keeps ==
  ASSUME PointersAssumption, RefsInv, NEW t \in Threads, NEW i \in Slots[t], NEW j \in Slots[t], swap(t, i, j)
  PROVE  RefsInv'
<1> DEFINE p == <<t, i>>
           q == <<t, j>>
<1>1. /\ p \in Pointers /\ q \in Pointers /\ i # "ko" /\ j # "ko"
      /\ ptr[p] \in Datas \cup {Null} /\ ptr[q] \in Datas \cup {Null}
  BY SlotPoints
<1>2. Left(t) = 0 /\ \A v \in Threads \ {t} : reads[v] # t
  BY Unread DEF swap
<1>3. UNCHANGED <<counts, made, gone, group, todo, reads>> /\ ptr' = [ptr EXCEPT ![p] = ptr[q], ![q] = ptr[p]]
  BY DEF swap
<1>4. PointersTyped /\ CallInv /\ ReaderInv /\ CountInv /\ UnmadeInv /\ MadeInv
  BY DEF RefsInv
<1>5. \A x \in Pointers : ptr'[x] = IF x = q THEN ptr[p] ELSE IF x = p THEN ptr[q] ELSE ptr[x]
  BY <1>1, <1>3, <1>4 DEF PointersTyped
<1>6. /\ \A y : (\E x \in Pointers : ptr'[x] = y) <=> (\E x \in Pointers : ptr[x] = y)
      /\ \A y : (\A x \in Pointers : ptr'[x] # y) <=> (\A x \in Pointers : ptr[x] # y)
  <2>1. ASSUME NEW y PROVE (\E x \in Pointers : ptr'[x] = y) <=> (\E x \in Pointers : ptr[x] = y)
    <3>1. ASSUME NEW x \in Pointers, ptr'[x] = y PROVE \E z \in Pointers : ptr[z] = y
      BY <1>1, <1>5, <3>1
    <3>2. ASSUME NEW x \in Pointers, ptr[x] = y PROVE \E z \in Pointers : ptr'[z] = y
      <4> HIDE DEF p, q
      <4>1. CASE x = p
        BY <1>1, <1>5, <3>2, <4>1
      <4>2. CASE x = q
        BY <1>1, <1>5, <3>2, <4>2
      <4>3. CASE x # p /\ x # q
        BY <1>5, <3>2, <4>3
      <4> QED
        BY <4>1, <4>2, <4>3
    <3> QED
      BY <3>1, <3>2
  <2> QED
    BY <2>1
<1>7. PointersTyped'
  <2>1. ptr' \in [Pointers -> Objects \cup {Null}]
    <3>1. ptr \in [Pointers -> Objects \cup {Null}]
      BY <1>4 DEF PointersTyped
    <3>2. ptr[p] \in Objects \cup {Null} /\ ptr[q] \in Objects \cup {Null}
      BY <1>1 DEF Objects
    <3> HIDE DEF p, q
    <3> QED
      BY <1>3, <3>1, <3>2
  <2>2. \A x \in Pointers : ptr'[x] # Null => (ptr'[x] \in Kernels <=> x[1] \in Threads /\ x[2] = "ko")
    <3> SUFFICES ASSUME NEW x \in Pointers, ptr'[x] # Null
        PROVE  ptr'[x] \in Kernels <=> x[1] \in Threads /\ x[2] = "ko"
      OBVIOUS
    <3>1. CASE x \in {p, q}
      <4>1. x[2] # "ko"
        BY <1>1, <3>1
      <4>2. ptr'[x] \in Datas
        BY <1>1, <1>5, <3>1
      <4> QED
        BY <4>1, <4>2 DEF PointersAssumption
    <3>2. CASE x \notin {p, q}
      BY <1>4, <1>5, <3>2 DEF PointersTyped
    <3> QED
      BY <3>1, <3>2
  <2> QED
    BY <1>3, <1>4, <2>1, <2>2 DEF PointersTyped
<1>8. /\ \A x \in Threads : /\ Left(x)' = Left(x) /\ Items(x)' = Items(x) /\ Adding(x)' = Adding(x)
                            /\ \A d : Item(x, d)' = Item(x, d)
                            /\ \A y : StoresTo(x, y)' <=> StoresTo(x, y)
                            /\ Becoming(x)' <=> Becoming(x)
                            /\ LateHandle(x)' <=> LateHandle(x)
                            /\ LateMember(x)' <=> LateMember(x)
  BY <1>3, SameCall
<1>9. ASSUME NEW z, NEW T PROVE KnownTo(z, T)' <=> KnownTo(z, T)
  <2>1. \A u \in Threads : \A d : Names(Item(u, d), z)' <=> Names(Item(u, d), z)
    BY <1>8 DEF Names
  <2>2. (\A u \in Threads \ T : \A d \in Items(u) : ~Names(Item(u, d), z))'
          <=> (\A u \in Threads \ T : \A d \in Items(u) : ~Names(Item(u, d), z))
    BY <1>8, <2>1
  <2>3. (\A x \in Pointers : ptr[x] # z)' <=> (\A x \in Pointers : ptr[x] # z)
    BY <1>6
  <2> QED
    BY <1>3, <2>2, <2>3 DEF KnownTo
<1>10. ASSUME NEW z, NEW u \in Threads PROVE New(z, u)' <=> New(z, u)
  BY <1>3, <1>8, <1>9 DEF New
<1>11. ASSUME NEW u \in Threads \ {t} PROVE ShapeOf(u)' /\ StoreOf(u)' /\ OldOf(u)' /\ SourceOf(u)'
  <2>1. todo'[u] = todo[u] /\ reads'[u] = reads[u] /\ reads[u] # t
    BY <1>2, <1>3
  <2>2. \A v \in Threads \ {t} : group'[v] = group[v] /\ \A k \in Slots[v] \cup {"ko"} : ptr'[<<v, k>>] = ptr[<<v, k>>]
    <3> SUFFICES ASSUME NEW v \in Threads \ {t}, NEW k \in Slots[v] \cup {"ko"} PROVE ptr'[<<v, k>>] = ptr[<<v, k>>]
      BY <1>3
    <3>1. <<v, k>> \in Pointers /\ <<v, k>> # p /\ <<v, k>> # q
      BY PointersAre
    <3> QED
      BY <1>5, <3>1
  <2>3. \A x \in Datas : ptr'[<<x, "link">>] = ptr[<<x, "link">>]
    <3> SUFFICES ASSUME NEW x \in Datas PROVE ptr'[<<x, "link">>] = ptr[<<x, "link">>]
      OBVIOUS
    <3>1. x # t
      BY DEF PointersAssumption, Objects
    <3>2. <<x, "link">> \in Pointers /\ <<x, "link">> # p /\ <<x, "link">> # q
      BY <3>1, PointersAre
    <3> QED
      BY <1>5, <3>2
  <2> QED
    BY <1>4, <1>10, <2>1, <2>2, <2>3, OthersKept
<1>12. ShapeOf(t)' /\ StoreOf(t)' /\ OldOf(t)' /\ SourceOf(t)'
  <2>1. Left(t)' = 0 /\ Items(t)' = {} /\ Adding(t)' = {}
    BY <1>2, <1>8, IdleDoes
  <2> QED
    BY <2>1 DEF ShapeOf, OnlyDrops, StoreOf, OldOf, SourceOf, Replaces, Reopens, Appends
<1>13. ReaderInv'
  BY <1>3, <1>4, <1>8 DEF ReaderInv
<1>14. p \in Pointing(ptr[p]) /\ q \in Pointing(ptr[q]) /\ Counts(p) /\ Counts(q)
  BY <1>1, <1>2, IdleDoes, OwnCounts
<1>15. ASSUME NEW y \in Objects
       PROVE  /\ Grouped(y)' = Grouped(y) /\ Dropping(y)' = Dropping(y)
              /\ Storing(y)' = Storing(y) /\ Joining(y)' = Joining(y)
              /\ Pointing(y)' = IF ptr[p] = y /\ ptr[q] # y THEN (Pointing(y) \ {p}) \cup {q}
                                ELSE IF ptr[p] # y /\ ptr[q] = y THEN (Pointing(y) \ {q}) \cup {p}
                                ELSE Pointing(y)
  <2>1. Grouped(y)' = Grouped(y)
    BY <1>3, <1>8, GroupedSame
  <2>2. Dropping(y)' = Dropping(y)
    <3>1. \A x \in Threads \X Nat : x \in Dropping(y)' <=> x \in Dropping(y)
      BY <1>8 DEF Dropping
    <3> QED
      BY <3>1 DEF Dropping
  <2>3. Storing(y)' = Storing(y)
    BY <1>8 DEF Storing
  <2>4. Joining(y)' = Joining(y)
    BY <1>2, <1>3, <1>8, IdleDoes, JoiningSame
  <2>5. \A x \in Pointers : Counts(x)' <=> Counts(x)
    BY <1>3, <1>8 DEF Counts, Live
  <2>6. \A x \in Pointers : x \in Pointing(y)' <=> ptr'[x] = y /\ Counts(x)
    BY <2>5 DEF Pointing
  <2>7. \A x \in Pointers : x \in Pointing(y) <=> ptr[x] = y /\ Counts(x)
    BY DEF Pointing
  <2>8. Pointing(y) \subseteq Pointers /\ Pointing(y)' \subseteq Pointers
    BY DEF Pointing
  <2>9. Pointing(y)' = IF ptr[p] = y /\ ptr[q] # y THEN (Pointing(y) \ {p}) \cup {q}
                       ELSE IF ptr[p] # y /\ ptr[q] = y THEN (Pointing(y) \ {q}) \cup {p}
                       ELSE Pointing(y)
    <3> HIDE DEF p, q
    <3>1. CASE ptr[p] = y /\ ptr[q] # y
      BY <1>1, <1>5, <1>14, <2>6, <2>7, <2>8, <3>1
    <3>2. CASE ptr[p] # y /\ ptr[q] = y
      BY <1>1, <1>5, <1>14, <2>6, <2>7, <2>8, <3>2
    <3>3. CASE (ptr[p] = y) <=> (ptr[q] = y)
      BY <1>1, <1>5, <1>14, <2>6, <2>7, <2>8, <3>3
    <3> QED
      BY <3>1, <3>2, <3>3
  <2> QED
    BY <2>1, <2>2, <2>3, <2>4, <2>9
<1>16. CountInv'
  <2> SUFFICES ASSUME NEW y \in Objects
      PROVE  /\ Counted(counts[y], Pointing(y)', Grouped(y)', Dropping(y)', Storing(y)', Joining(y)')
             /\ y \in gone => counts[y] = 0
    BY <1>3 DEF CountInv, Counted
  <2>1. /\ IsFiniteSet(Pointing(y)) /\ IsFiniteSet(Grouped(y)) /\ IsFiniteSet(Dropping(y))
        /\ IsFiniteSet(Storing(y)) /\ IsFiniteSet(Joining(y))
        /\ counts[y] = Cardinality(Pointing(y)) + Cardinality(Grouped(y)) + Cardinality(Dropping(y))
                     + Cardinality(Storing(y)) + Cardinality(Joining(y))
        /\ y \in gone => counts[y] = 0
    BY <1>4 DEF CountInv
  <2>2. ASSUME NEW S, IsFiniteSet(S), NEW x \in S, NEW z, z \notin S
        PROVE  IsFiniteSet((S \ {x}) \cup {z}) /\ Cardinality((S \ {x}) \cup {z}) = Cardinality(S)
    <3>1. IsFiniteSet(S \ {x}) /\ Cardinality(S \ {x}) = Cardinality(S) - 1
      BY <2>2, FS_RemoveElement
    <3>2. IsFiniteSet((S \ {x}) \cup {z}) /\ Cardinality((S \ {x}) \cup {z}) = Cardinality(S \ {x}) + 1
      BY <2>2, <3>1, FS_AddElement
    <3>3. Cardinality(S) \in Nat
      BY <2>2, FS_CardinalityType
    <3> QED
      BY <3>1, <3>2, <3>3
  <2>3. /\ ptr[p] = y => p \in Pointing(y)
        /\ ptr[p] # y => p \notin Pointing(y)
        /\ ptr[q] = y => q \in Pointing(y)
        /\ ptr[q] # y => q \notin Pointing(y)
    BY <1>14 DEF Pointing
  <2> HIDE DEF p, q
  <2>4. IsFiniteSet(Pointing(y)') /\ Cardinality(Pointing(y)') = Cardinality(Pointing(y))
    <3>1. CASE ptr[p] = y /\ ptr[q] # y
      BY <1>15, <2>1, <2>2, <2>3, <3>1
    <3>2. CASE ptr[p] # y /\ ptr[q] = y
      BY <1>15, <2>1, <2>2, <2>3, <3>2
    <3>3. CASE (ptr[p] = y) <=> (ptr[q] = y)
      BY <1>15, <2>1, <3>3
    <3> QED
      BY <3>1, <3>2, <3>3
  <2> QED
    BY <1>15, <2>1, <2>4 DEF Counted
<1>17. UnmadeInv'
  <2> SUFFICES ASSUME NEW z \in Objects \ made
      PROVE  KnownTo(z, {})' /\ (z \in Datas => ptr'[<<z, "link">>] = Null)
    BY <1>3 DEF UnmadeInv
  <2>1. KnownTo(z, {})'
    BY <1>4, <1>9 DEF UnmadeInv
  <2>2. ASSUME z \in Datas PROVE ptr'[<<z, "link">>] = Null
    <3>1. z # t
      BY <2>2 DEF PointersAssumption, Objects
    <3>2. <<z, "link">> \in Pointers /\ <<z, "link">> # p /\ <<z, "link">> # q
      BY <2>2, <3>1, PointersAre
    <3> QED
      BY <1>4, <1>5, <2>2, <3>2 DEF UnmadeInv
  <2> QED
    BY <2>1, <2>2
<1>18. MadeInv'
  BY <1>3, <1>4, <1>10 DEF MadeInv
<1> QED
  BY <1>7, <1>11, <1>12, <1>13, <1>16, <1>17, <1>18 DEF RefsInv, CallInv

-----------------------------------------------------------------------------
(* Pointers: a call on a group begins *)

\* Somebody holds z.
Held(z) ==
  \/ \E q \in Pointers : ptr[q] = z
  \/ \E v \in Threads : \E k \in DOMAIN group[v] : group[v][k] = z

\* A call of t begins that is about groups only; r is whose group it reads.
GroupCallBegins(t, r) ==
  /\ \A u \in Threads \ {t} : todo'[u] = todo[u] /\ group'[u] = group[u]
  /\ todo' \in [Threads -> Seq(CallItems)] /\ group' \in [Threads -> Seq(Datas)]
  /\ reads' = [reads EXCEPT ![t] = r]
  /\ UNCHANGED <<counts, made, gone, ptr>>
  /\ Left(t)' # 0
  /\ \A k \in DOMAIN group'[t] : Held(group'[t][k])
  /\ \A z \in Objects, d \in Items(t)' : Names(Item(t, d)', z) => Held(z)
  /\ ShapeOf(t)' /\ StoreOf(t)' /\ OldOf(t)' /\ SourceOf(t)'
  /\ \A d \in Items(t)' : Item(t, d)'.op # "store"
  /\ ~LateHandle(t)'
  /\ \A y \in Objects :
       /\ IsFiniteSet(Grouped(y)') /\ IsFiniteSet(Dropping(y)')
       /\ Cardinality(Grouped(y)') + Cardinality(Dropping(y)') = Cardinality(Grouped(y)) + Cardinality(Dropping(y))
       /\ Joining(y)' = Joining(y)

\* A call on a group that begins keeps it.
LEMMA GroupBegun ==
  ASSUME PointersAssumption, RefsInv, NEW t \in Threads, Left(t) = 0, \A u \in Threads \ {t} : reads[u] # t,
         NEW r \in Threads, r # t => Left(r) = 0, GroupCallBegins(t, r)
  PROVE  RefsInv'
<1>1. /\ \A u \in Threads \ {t} : todo'[u] = todo[u] /\ group'[u] = group[u]
      /\ todo' \in [Threads -> Seq(CallItems)] /\ group' \in [Threads -> Seq(Datas)]
      /\ reads' = [reads EXCEPT ![t] = r]
      /\ UNCHANGED <<counts, made, gone, ptr>>
      /\ Left(t)' # 0
      /\ \A k \in DOMAIN group'[t] : Held(group'[t][k])
      /\ \A z \in Objects, d \in Items(t)' : Names(Item(t, d)', z) => Held(z)
      /\ ShapeOf(t)' /\ StoreOf(t)' /\ OldOf(t)' /\ SourceOf(t)'
      /\ \A d \in Items(t)' : Item(t, d)'.op # "store"
      /\ ~LateHandle(t)'
      /\ \A y \in Objects :
           /\ IsFiniteSet(Grouped(y)') /\ IsFiniteSet(Dropping(y)')
           /\ Cardinality(Grouped(y)') + Cardinality(Dropping(y)') = Cardinality(Grouped(y)) + Cardinality(Dropping(y))
           /\ Joining(y)' = Joining(y)
  BY DEF GroupCallBegins
<1>2. /\ Items(t) = {} /\ Adding(t) = {} /\ ~Becoming(t) /\ ~LateHandle(t) /\ ~LateMember(t)
      /\ \A q : ~StoresTo(t, q)
  BY IdleDoes
<1>3. PointersTyped /\ CallInv /\ ReaderInv /\ CountInv /\ UnmadeInv /\ MadeInv
  BY DEF RefsInv
<1>4. PointersTyped'
  BY <1>1, <1>3 DEF PointersTyped
<1>5. \A u \in Threads \ {t} : /\ Left(u)' = Left(u) /\ Items(u)' = Items(u)
                               /\ \A d : Item(u, d)' = Item(u, d)
                               /\ \A q : StoresTo(u, q)' <=> StoresTo(u, q)
                               /\ LateHandle(u)' <=> LateHandle(u)
  BY <1>1, SameCall
<1>6. ASSUME NEW z \in Objects, NEW T \in SUBSET Threads, t \notin T, KnownTo(z, T) PROVE KnownTo(z, T)'
  <2>1. ~Held(z)
    BY <1>6 DEF Held, KnownTo
  <2>2. \A u \in Threads : \A k \in DOMAIN group'[u] : group'[u][k] # z
    BY <1>1, <1>6, <2>1 DEF KnownTo
  <2>3. ASSUME NEW u \in Threads \ T, NEW d \in Items(u)' PROVE ~Names(Item(u, d)', z)
    <3>1. CASE u = t
      BY <1>1, <2>1, <2>3, <3>1
    <3>2. CASE u # t
      BY <1>5, <1>6, <2>3, <3>2 DEF KnownTo
    <3> QED
      BY <3>1, <3>2
  <2> QED
    BY <1>1, <1>6, <2>2, <2>3 DEF KnownTo, Names
<1>7. ASSUME NEW z \in Objects, NEW u \in Threads \ {t}, New(z, u) PROVE New(z, u)'
  <2>1. KnownTo(z, {u})'
    BY <1>6, <1>7 DEF New
  <2> QED
    BY <1>1, <1>7, <2>1, NewKept DEF New
<1>8. ASSUME NEW u \in Threads \ {t} PROVE ShapeOf(u)' /\ StoreOf(u)' /\ OldOf(u)' /\ SourceOf(u)'
  <2>1. todo'[u] = todo[u] /\ reads'[u] = reads[u] /\ reads[u] # t
    BY <1>1, <1>3 DEF PointersTyped
  <2> QED
    BY <1>1, <1>3, <1>7, <2>1, OthersKept
<1>9. ReaderInv'
  <2>1. \A u \in Threads \ {t} : Left(u)' = Left(u) /\ reads'[u] = reads[u]
    BY <1>1, <1>3, <1>5 DEF PointersTyped
  <2>2. reads'[t] = r /\ r # Null
    BY <1>1, <1>3 DEF PointersTyped, PointersAssumption
  <2> QED
    BY <1>1, <1>3, <2>1, <2>2 DEF ReaderInv
<1>10. ASSUME NEW y \in Objects PROVE Pointing(y)' = Pointing(y) /\ Storing(y)' = Storing(y)
  <2>1. \A u \in Threads : \A q : StoresTo(u, q)' <=> StoresTo(u, q)
    BY <1>1, <1>2, <1>5 DEF StoresTo
  <2>2. \A u \in Threads : LateHandle(u)' <=> LateHandle(u)
    BY <1>1, <1>2, <1>5
  <2>3. \A q \in Pointers : Counts(q)' <=> Counts(q)
    BY <1>1, <2>1, <2>2 DEF Counts, Live
  <2>4. t \notin Storing(y) /\ t \notin Storing(y)'
    BY <1>1, <1>2 DEF Storing
  <2> QED
    BY <1>1, <2>3, <2>4, StoringSame DEF Pointing
<1>11. CountInv'
  <2> SUFFICES ASSUME NEW y \in Objects
      PROVE  /\ Counted(counts[y], Pointing(y)', Grouped(y)', Dropping(y)', Storing(y)', Joining(y)')
             /\ y \in gone => counts[y] = 0
    BY <1>1 DEF CountInv, Counted
  <2>1. /\ IsFiniteSet(Pointing(y)) /\ IsFiniteSet(Grouped(y)) /\ IsFiniteSet(Dropping(y))
        /\ IsFiniteSet(Storing(y)) /\ IsFiniteSet(Joining(y))
        /\ counts[y] = Cardinality(Pointing(y)) + Cardinality(Grouped(y)) + Cardinality(Dropping(y))
                     + Cardinality(Storing(y)) + Cardinality(Joining(y))
        /\ y \in gone => counts[y] = 0
    BY <1>3 DEF CountInv
  <2>2. /\ Cardinality(Pointing(y)) \in Nat /\ Cardinality(Grouped(y)) \in Nat /\ Cardinality(Dropping(y)) \in Nat
        /\ Cardinality(Storing(y)) \in Nat /\ Cardinality(Joining(y)) \in Nat
        /\ Cardinality(Grouped(y)') \in Nat /\ Cardinality(Dropping(y)') \in Nat
    BY <1>1, <2>1, FS_CardinalityType
  <2>3. /\ Pointing(y)' = Pointing(y) /\ Storing(y)' = Storing(y) /\ Joining(y)' = Joining(y)
        /\ IsFiniteSet(Grouped(y)') /\ IsFiniteSet(Dropping(y)')
        /\ Cardinality(Grouped(y)') + Cardinality(Dropping(y)') = Cardinality(Grouped(y)) + Cardinality(Dropping(y))
    BY <1>1, <1>10
  <2> QED
    BY <2>1, <2>2, <2>3 DEF Counted
<1>12. UnmadeInv'
  <2> SUFFICES ASSUME NEW z \in Objects \ made
      PROVE  KnownTo(z, {})' /\ (z \in Datas => ptr'[<<z, "link">>] = Null)
    BY <1>1 DEF UnmadeInv
  <2> QED
    BY <1>1, <1>3, <1>6 DEF UnmadeInv
<1>13. MadeInv'
  <2> SUFFICES ASSUME NEW z \in made \ gone, counts[z] = 0 PROVE \E u \in Threads : New(z, u)'
    BY <1>1 DEF MadeInv
  <2>1. PICK u \in Threads : New(z, u)
    BY <1>3 DEF MadeInv
  <2>2. u # t
    BY <1>2, <2>1 DEF New
  <2>3. z \in Objects
    BY <1>3 DEF PointersTyped
  <2> QED
    BY <1>7, <2>1, <2>2, <2>3
<1> QED
  BY <1>1, <1>4, <1>8, <1>9, <1>11, <1>12, <1>13 DEF RefsInv, CallInv

\* The places of the others in their groups are what they were.
LEMMA GroupedOthers ==
  ASSUME NEW t \in Threads, \A u \in Threads \ {t} : todo'[u] = todo[u] /\ group'[u] = group[u],
         NEW o, NEW x, x[1] # t
  PROVE  x \in Grouped(o)' <=> x \in Grouped(o)
<1>1. \A u \in Threads \ {t} : (Becoming(u)' <=> Becoming(u)) /\ (LateMember(u)' <=> LateMember(u))
  BY SameCall
<1>2. CASE x \in Threads \X Nat
  <2>1. x[1] \in Threads \ {t}
    BY <1>2
  <2>2. PICK u \in Threads \ {t} : u = x[1]
    BY <2>1
  <2>3. /\ group'[u] = group[u] /\ (Becoming(u)' <=> Becoming(u)) /\ (LateMember(u)' <=> LateMember(u))
    BY <1>1
  <2> QED
    BY <1>2, <2>2, <2>3 DEF Grouped
<1>3. CASE x \notin Threads \X Nat
  BY <1>3 DEF Grouped
<1> QED
  BY <1>2, <1>3

\* A call of one item.
LEMMA OneItem ==
  ASSUME PointersTyped, NEW t \in Threads, NEW a \in CallItems, todo' = [todo EXCEPT ![t] = <<a>>]
  PROVE  /\ Left(t)' = 1 /\ Items(t)' = {0} /\ Item(t, 0)' = a
         /\ \A u \in Threads \ {t} : todo'[u] = todo[u]
         /\ todo' \in [Threads -> Seq(CallItems)]
<1>1. <<a>> \in Seq(CallItems) /\ Len(<<a>>) = 1 /\ <<a>>[1] = a
  OBVIOUS
<1>2. todo'[t] = <<a>>
  BY DEF PointersTyped
<1>3. Left(t)' = 1
  BY <1>1, <1>2 DEF Left
<1>4. Items(t)' = {0}
  <2>1. Items(t)' = 0..Left(t)' - 1
    BY DEF Items
  <2>2. 0..1 - 1 = {0}
    OBVIOUS
  <2> QED
    BY <1>3, <2>1, <2>2
<1>5. Item(t, 0)' = a
  <2>1. Item(t, 0)' = <<a>>[1 - 0]
    BY <1>1, <1>2 DEF Item
  <2> QED
    BY <1>1, <2>1
<1> QED
  BY <1>1, <1>3, <1>4, <1>5 DEF PointersTyped

\* ObjectGroup::append keeps it: the object is in the group and not yet counted for it.
LEMMA append_keeps ==
  ASSUME PointersAssumption, RefsInv, NEW t \in Threads, NEW i \in Slots[t], append(t, i)
  PROVE  RefsInv'
<1> DEFINE x == ptr[<<t, i>>]
           g == group[t]
<1>1. x \in Datas /\ x \in Objects /\ x # Null /\ x \notin Kernels /\ <<t, i>> \in Pointers
  BY SlotPoints DEF PointersAssumption, Objects, append
<1>2. Left(t) = 0 /\ \A v \in Threads \ {t} : reads[v] # t
  BY Unread DEF append
<1>3. /\ UNCHANGED <<counts, made, gone, ptr>> /\ reads' = [reads EXCEPT ![t] = t]
      /\ group' = [group EXCEPT ![t] = Append(g, x)] /\ todo' = [todo EXCEPT ![t] = <<AddItem(x)>>]
  BY <1>1 DEF append, Inc, AddItem
<1>4. PointersTyped
  BY DEF RefsInv
<1>5. AddItem(x) \in CallItems /\ AddItem(x).op = "inc" /\ AddItem(x).o = x
  BY <1>1, ItemsTyped
<1>6. /\ Left(t)' = 1 /\ Items(t)' = {0} /\ Item(t, 0)' = AddItem(x)
      /\ \A u \in Threads \ {t} : todo'[u] = todo[u]
      /\ todo' \in [Threads -> Seq(CallItems)]
  BY <1>3, <1>4, <1>5, OneItem
<1>7. g \in Seq(Datas) /\ Len(g) \in Nat
  BY <1>4 DEF PointersTyped
<1>8. /\ Append(g, x) \in Seq(Datas) /\ Len(Append(g, x)) = Len(g) + 1 /\ Append(g, x)[Len(g) + 1] = x
      /\ \A k \in 1..Len(g) : Append(g, x)[k] = g[k]
      /\ DOMAIN Append(g, x) = 1..Len(g) + 1 /\ DOMAIN g = 1..Len(g)
  BY <1>1, <1>7
<1>9. group'[t] = Append(g, x) /\ (\A u \in Threads \ {t} : group'[u] = group[u]) /\ group' \in [Threads -> Seq(Datas)]
  BY <1>3, <1>4, <1>8 DEF PointersTyped
<1>10. /\ Items(t) = {} /\ ~Becoming(t) /\ ~LateMember(t)
  BY <1>2, IdleDoes
<1> HIDE DEF x, g
<1>11. Held(x)
  BY <1>1 DEF Held, x
<1>12. \A k \in DOMAIN group'[t] : Held(group'[t][k])
  <2> SUFFICES ASSUME NEW k \in 1..Len(g) + 1 PROVE Held(Append(g, x)[k])
    BY <1>8, <1>9
  <2>1. CASE k = Len(g) + 1
    BY <1>8, <1>11, <2>1
  <2>2. CASE k # Len(g) + 1
    <3>1. k \in 1..Len(g)
      BY <1>7, <2>2
    <3>2. Append(g, x)[k] = group[t][k] /\ k \in DOMAIN group[t]
      BY <1>8, <3>1 DEF g
    <3> QED
      BY <3>2 DEF Held
  <2> QED
    BY <2>1, <2>2
<1>13. \A z \in Objects, d \in Items(t)' : Names(Item(t, d)', z) => Held(z)
  BY <1>5, <1>6, <1>11 DEF Names
<1>14. /\ \A d \in Items(t)' : Item(t, d)'.op # "store"
       /\ ~LateHandle(t)' /\ LateMember(t)' /\ ~Becoming(t)' /\ Left(t)' # 0
  BY <1>1, <1>5, <1>6 DEF LateHandle, LateMember, Becoming
<1>15. Appends(t)' /\ ~Replaces(t)' /\ ~Reopens(t)' /\ \A b : ~Becomes(t, b)'
  <2>1. Appends(t)'
    <3>1. group'[t] # <<>> /\ group'[t][Len(group'[t])] = x
      BY <1>7, <1>8, <1>9
    <3> QED
      BY <1>1, <1>5, <1>6, <3>1 DEF Appends
  <2>2. ~Replaces(t)' /\ ~Reopens(t)'
    BY <1>1, <1>5, <1>6 DEF Replaces, Reopens
  <2>3. \A b : ~Becomes(t, b)'
    BY <1>14 DEF Becomes, Becoming
  <2> QED
    BY <2>1, <2>2, <2>3
<1>16. ShapeOf(t)' /\ StoreOf(t)' /\ OldOf(t)' /\ SourceOf(t)'
  <2>1. ShapeOf(t)'
    BY <1>15 DEF ShapeOf
  <2>2. StoreOf(t)' /\ OldOf(t)'
    BY <1>14, <1>15 DEF StoreOf, OldOf
  <2>3. \E k \in Slots[t] : ptr'[<<t, k>>] = Item(t, 0)'.o
    BY <1>3, <1>5, <1>6 DEF x
  <2>4. SourceOf(t)'
    BY <1>15, <2>3 DEF SourceOf
  <2> QED
    BY <2>1, <2>2, <2>4
<1>17. ASSUME NEW y \in Objects
       PROVE  Grouped(y)' = Grouped(y) /\ Dropping(y)' = Dropping(y) /\ Joining(y)' = Joining(y)
  <2>1. Joining(y)' = Joining(y)
    BY <1>6, <1>10, <1>14, JoiningSame
  <2>2. ASSUME NEW q \in Threads \X Nat PROVE q \in Dropping(y)' <=> q \in Dropping(y)
    <3>1. CASE q[1] = t
      BY <1>5, <1>6, <1>10, <3>1 DEF Dropping
    <3>2. CASE q[1] # t
      BY <1>6, <3>2, DroppingOthers
    <3> QED
      BY <3>1, <3>2
  <2>3. ASSUME NEW q \in Threads \X Nat PROVE q \in Grouped(y)' <=> q \in Grouped(y)
    <3>1. CASE q[1] = t
      <4>1. q \in Grouped(y) <=> q[2] \in 1..Len(g) /\ g[q[2]] = y
        BY <1>8, <1>10, <3>1 DEF Grouped, g
      <4>2. q \in Grouped(y)' <=> q[2] \in 1..Len(g) + 1 /\ Append(g, x)[q[2]] = y /\ q[2] # Len(g) + 1
        BY <1>8, <1>9, <1>14, <3>1 DEF Grouped
      <4>3. q[2] \in 1..Len(g) <=> q[2] \in 1..Len(g) + 1 /\ q[2] # Len(g) + 1
        BY <1>7
      <4> QED
        BY <1>8, <4>1, <4>2, <4>3
    <3>2. CASE q[1] # t
      BY <1>6, <1>9, <3>2, GroupedOthers
    <3> QED
      BY <3>1, <3>2
  <2>4. Dropping(y) \subseteq Threads \X Nat /\ Dropping(y)' \subseteq Threads \X Nat
    BY DEF Dropping
  <2>5. Grouped(y) \subseteq Threads \X Nat /\ Grouped(y)' \subseteq Threads \X Nat
    BY DEF Grouped
  <2> QED
    BY <2>1, <2>2, <2>3, <2>4, <2>5
<1>18. \A y \in Objects : IsFiniteSet(Grouped(y)) /\ IsFiniteSet(Dropping(y))
  BY DEF RefsInv, CountInv
<1>19. GroupCallBegins(t, t)
  BY <1>3, <1>6, <1>9, <1>12, <1>13, <1>14, <1>16, <1>17, <1>18 DEF GroupCallBegins
<1> QED
  BY <1>2, <1>19, GroupBegun

\* ObjectGroup::remove keeps it: a place goes, and a decrement is to come.
LEMMA remove_keeps ==
  ASSUME PointersAssumption, RefsInv, NEW t \in Threads, NEW i \in Slots[t], remove(t, i)
  PROVE  RefsInv'
<1> DEFINE x == ptr[<<t, i>>]
           g == group[t]
           m == Len(g)
<1>1. PICK n \in DOMAIN g : /\ Free(t) /\ g[n] = x
                            /\ group' = [group EXCEPT ![t] = Front([g EXCEPT ![n] = Last(g)])]
                            /\ todo' = [todo EXCEPT ![t] = Dec(x)] /\ reads' = [reads EXCEPT ![t] = t]
                            /\ UNCHANGED <<counts, made, gone, ptr>>
  BY DEF remove, PointersTyped, RefsInv
<1>2. Left(t) = 0 /\ \A v \in Threads \ {t} : reads[v] # t
  BY <1>1, Unread
<1>3. PointersTyped
  BY DEF RefsInv
<1>4. g \in Seq(Datas) /\ m \in Nat /\ DOMAIN g = 1..m /\ n \in 1..m /\ m # 0
  <2>1. g \in Seq(Datas)
    BY <1>3 DEF PointersTyped
  <2> QED
    BY <1>1, <2>1
<1>5. x \in Datas /\ x \in Objects /\ x # Null
  <2>1. x \in Datas
    BY <1>1, <1>4
  <2> QED
    BY <2>1 DEF PointersAssumption, Objects
<1> DEFINE h == [g EXCEPT ![n] = Last(g)]
           f == Front(h)
<1>6. /\ f \in Seq(Datas) /\ Len(f) = m - 1 /\ DOMAIN f = 1..m - 1
      /\ \A k \in 1..m - 1 : f[k] = IF k = n THEN g[m] ELSE g[k]
  <2>1. h \in Seq(Datas) /\ Len(h) = m /\ \A k \in 1..m : h[k] = IF k = n THEN g[m] ELSE g[k]
    BY <1>4 DEF Last
  <2> HIDE DEF h
  <2>2. f = SubSeq(h, 1, m - 1)
    BY <2>1 DEF Front
  <2> QED
    BY <1>4, <2>1, <2>2
<1> HIDE DEF f, h
<1>7. group'[t] = f /\ (\A u \in Threads \ {t} : group'[u] = group[u]) /\ group' \in [Threads -> Seq(Datas)]
  <2>1. group' = [group EXCEPT ![t] = f]
    BY <1>1 DEF f, h
  <2> QED
    BY <1>3, <1>6, <2>1 DEF PointersTyped
<1>8. DropItem(x) \in CallItems /\ DropItem(x).op = "dec" /\ DropItem(x).o = x
  BY <1>5, ItemsTyped
<1>9. /\ Left(t)' = 1 /\ Items(t)' = {0} /\ Item(t, 0)' = DropItem(x)
      /\ \A u \in Threads \ {t} : todo'[u] = todo[u]
      /\ todo' \in [Threads -> Seq(CallItems)]
  <2>1. todo' = [todo EXCEPT ![t] = <<DropItem(x)>>]
    BY <1>1, <1>5 DEF Dec, DropItem
  <2> QED
    BY <1>3, <1>8, <2>1, OneItem
<1>10. /\ Items(t) = {} /\ ~Becoming(t) /\ ~LateMember(t)
  BY <1>2, IdleDoes
<1>11. \A k \in 1..m : Held(g[k])
  BY <1>4 DEF Held
<1>12. Held(x)
  BY <1>1, <1>4, <1>11
<1> HIDE DEF x, m
<1>13. \A k \in DOMAIN group'[t] : Held(group'[t][k])
  <2> SUFFICES ASSUME NEW k \in DOMAIN f
      PROVE  Held(f[k])
    BY <1>7
  <2>1. k \in 1..m /\ m \in 1..m
    BY <1>4, <1>6
  <2>2. f[k] = g[m] \/ f[k] = g[k]
    BY <1>6
  <2>3. Held(g[m]) /\ Held(g[k])
    BY <1>11, <2>1
  <2> QED
    BY <2>2, <2>3
<1>14. \A z \in Objects, d \in Items(t)' : Names(Item(t, d)', z) => Held(z)
  BY <1>8, <1>9, <1>12 DEF Names
<1>15. /\ \A d \in Items(t)' : Item(t, d)'.op # "store"
       /\ ~LateHandle(t)' /\ ~LateMember(t)' /\ ~Becoming(t)' /\ Left(t)' # 0
  BY <1>8, <1>9 DEF LateHandle, LateMember, Becoming
<1>16. ShapeOf(t)' /\ StoreOf(t)' /\ OldOf(t)' /\ SourceOf(t)'
  <2>1. OnlyDrops(t)'
    BY <1>8, <1>9 DEF OnlyDrops
  <2>2. ~Replaces(t)' /\ ~Reopens(t)' /\ ~Appends(t)' /\ \A b : ~Becomes(t, b)'
    BY <1>8, <1>9, <1>15 DEF Replaces, Reopens, Appends, Becomes, Becoming
  <2> QED
    BY <1>15, <2>1, <2>2 DEF ShapeOf, StoreOf, OldOf, SourceOf
<1>17. ASSUME NEW y \in Objects
       PROVE  /\ Joining(y)' = Joining(y)
              /\ Dropping(y)' = IF y = x THEN Dropping(y) \cup {<<t, 0>>} ELSE Dropping(y)
              /\ Grouped(y)' = IF g[m] = y THEN IF g[n] = y THEN Grouped(y) \ {<<t, m>>}
                                                ELSE (Grouped(y) \ {<<t, m>>}) \cup {<<t, n>>}
                               ELSE IF g[n] = y THEN Grouped(y) \ {<<t, n>>} ELSE Grouped(y)
              /\ <<t, 0>> \notin Dropping(y)
              /\ \A k \in 1..m : <<t, k>> \in Grouped(y) <=> g[k] = y
  <2>1. Joining(y)' = Joining(y)
    BY <1>9, <1>10, <1>15, JoiningSame
  <2>2. /\ Dropping(y) \subseteq Threads \X Nat /\ Dropping(y)' \subseteq Threads \X Nat
        /\ Grouped(y) \subseteq Threads \X Nat /\ Grouped(y)' \subseteq Threads \X Nat
    BY DEF Dropping, Grouped
  <2>3. ASSUME NEW d \in Nat
        PROVE  /\ <<t, d>> \notin Dropping(y)
               /\ <<t, d>> \in Dropping(y)' <=> y = x /\ d = 0
    BY <1>8, <1>9, <1>10 DEF Dropping
  <2>4. ASSUME NEW k \in Nat
        PROVE  /\ <<t, k>> \in Grouped(y) <=> k \in 1..m /\ g[k] = y
               /\ <<t, k>> \in Grouped(y)' <=> k \in 1..m - 1 /\ f[k] = y
    <3>1. <<t, k>> \in Grouped(y) <=> k \in 1..m /\ g[k] = y
      BY <1>4, <1>10 DEF Grouped
    <3>2. <<t, k>> \in Grouped(y)' <=> k \in 1..m - 1 /\ f[k] = y
      BY <1>6, <1>7, <1>15 DEF Grouped
    <3> QED
      BY <3>1, <3>2
  <2>5. Dropping(y)' = IF y = x THEN Dropping(y) \cup {<<t, 0>>} ELSE Dropping(y)
    <3>1. ASSUME NEW v \in Threads, NEW d \in Nat
          PROVE <<v, d>> \in Dropping(y)' <=> <<v, d>> \in IF y = x THEN Dropping(y) \cup {<<t, 0>>} ELSE Dropping(y)
      <4>1. CASE v = t
        BY <2>3, <4>1
      <4>2. CASE v # t
        <5>1. <<v, d>>[1] # t /\ <<v, d>> # <<t, 0>>
          BY <4>2
        <5> QED
          BY <1>9, <5>1, DroppingOthers
      <4> QED
        BY <4>1, <4>2
    <3> QED
      BY <2>2, <3>1
  <2>6. Grouped(y)' = IF g[m] = y THEN IF g[n] = y THEN Grouped(y) \ {<<t, m>>}
                                       ELSE (Grouped(y) \ {<<t, m>>}) \cup {<<t, n>>}
                      ELSE IF g[n] = y THEN Grouped(y) \ {<<t, n>>} ELSE Grouped(y)
    <3> DEFINE G == IF g[m] = y THEN IF g[n] = y THEN Grouped(y) \ {<<t, m>>}
                                     ELSE (Grouped(y) \ {<<t, m>>}) \cup {<<t, n>>}
                    ELSE IF g[n] = y THEN Grouped(y) \ {<<t, n>>} ELSE Grouped(y)
    <3>1. ASSUME NEW v \in Threads, NEW k \in Nat PROVE <<v, k>> \in Grouped(y)' <=> <<v, k>> \in G
      <4>1. CASE v = t
        <5>1. \A d : <<t, k>> = <<t, d>> <=> k = d
          OBVIOUS
        <5>2. <<t, k>> \in G <=> k \in 1..m - 1 /\ (IF k = n THEN g[m] ELSE g[k]) = y
          <6>1. CASE k = n
            BY <1>4, <2>4, <5>1, <6>1
          <6>2. CASE k # n /\ k = m
            BY <1>4, <2>4, <5>1, <6>2
          <6>3. CASE k # n /\ k # m
            BY <1>4, <2>4, <5>1, <6>3
          <6> QED
            BY <6>1, <6>2, <6>3
        <5> QED
          BY <1>6, <2>4, <4>1, <5>2
      <4>2. CASE v # t
        <5>1. <<v, k>>[1] # t /\ \A d : <<v, k>> # <<t, d>>
          BY <4>2
        <5>2. <<v, k>> \in Grouped(y)' <=> <<v, k>> \in Grouped(y)
          BY <1>7, <1>9, <5>1, GroupedOthers
        <5> QED
          BY <5>1, <5>2
      <4> QED
        BY <4>1, <4>2
    <3>2. G \subseteq Threads \X Nat
      BY <1>4, <2>2
    <3> HIDE DEF G
    <3>3. Grouped(y)' = G
      <4>1. ASSUME NEW q \in Threads \X Nat PROVE q \in Grouped(y)' <=> q \in G
        <5>1. q[1] \in Threads /\ q[2] \in Nat /\ q = <<q[1], q[2]>>
          OBVIOUS
        <5>2. <<q[1], q[2]>> \in Grouped(y)' <=> <<q[1], q[2]>> \in G
          BY <3>1, <5>1
        <5> QED
          BY <5>1, <5>2
      <4> QED
        BY <2>2, <3>2, <4>1
    <3> QED
      BY <3>3 DEF G
  <2> QED
    BY <1>4, <2>1, <2>3, <2>4, <2>5, <2>6
<1>18. ASSUME NEW y \in Objects
       PROVE  /\ IsFiniteSet(Grouped(y)') /\ IsFiniteSet(Dropping(y)')
              /\ Cardinality(Grouped(y)') + Cardinality(Dropping(y)') = Cardinality(Grouped(y)) + Cardinality(Dropping(y))
              /\ Joining(y)' = Joining(y)
  <2> DEFINE G == Grouped(y)
             D == Dropping(y)
  <2>1. IsFiniteSet(G) /\ IsFiniteSet(D) /\ Cardinality(G) \in Nat /\ Cardinality(D) \in Nat
    BY FS_CardinalityType DEF RefsInv, CountInv
  <2>2. /\ Joining(y)' = Joining(y)
        /\ Dropping(y)' = IF y = x THEN D \cup {<<t, 0>>} ELSE D
        /\ Grouped(y)' = IF g[m] = y THEN IF g[n] = y THEN G \ {<<t, m>>} ELSE (G \ {<<t, m>>}) \cup {<<t, n>>}
                         ELSE IF g[n] = y THEN G \ {<<t, n>>} ELSE G
        /\ <<t, 0>> \notin D
        /\ <<t, m>> \in G <=> g[m] = y
        /\ <<t, n>> \in G <=> g[n] = y
    BY <1>4, <1>17
  <2> HIDE DEF G, D
  <2>3. g[n] = y <=> y = x
    BY <1>1
  <2>4. CASE y = x
    <3>1. IsFiniteSet(D \cup {<<t, 0>>}) /\ Cardinality(D \cup {<<t, 0>>}) = Cardinality(D) + 1
      BY <2>1, <2>2, FS_AddElement
    <3>2. \A q \in G : IsFiniteSet(G \ {q}) /\ Cardinality(G \ {q}) = Cardinality(G) - 1
      BY <2>1, FS_RemoveElement
    <3>3. Dropping(y)' = D \cup {<<t, 0>>} /\ \E q \in G : Grouped(y)' = G \ {q}
      BY <2>2, <2>3, <2>4
    <3>4. /\ IsFiniteSet(Grouped(y)') /\ Cardinality(Grouped(y)') = Cardinality(G) - 1
          /\ IsFiniteSet(Dropping(y)') /\ Cardinality(Dropping(y)') = Cardinality(D) + 1
      BY <3>1, <3>2, <3>3
    <3>5. Cardinality(Grouped(y)') + Cardinality(Dropping(y)') = Cardinality(G) + Cardinality(D)
      BY <2>1, <3>4
    <3> QED
      BY <2>2, <3>4, <3>5 DEF G, D
  <2>5. CASE y # x /\ g[m] = y
    <3>1. IsFiniteSet(G \ {<<t, m>>}) /\ Cardinality(G \ {<<t, m>>}) = Cardinality(G) - 1
      BY <2>1, <2>2, <2>5, FS_RemoveElement
    <3>2. <<t, n>> \notin G \ {<<t, m>>}
      BY <2>2, <2>3, <2>5
    <3>3. /\ IsFiniteSet((G \ {<<t, m>>}) \cup {<<t, n>>})
          /\ Cardinality((G \ {<<t, m>>}) \cup {<<t, n>>}) = Cardinality(G \ {<<t, m>>}) + 1
      BY <3>1, <3>2, FS_AddElement
    <3>4. Dropping(y)' = D /\ Grouped(y)' = (G \ {<<t, m>>}) \cup {<<t, n>>}
      BY <2>2, <2>3, <2>5
    <3>5. /\ IsFiniteSet(Grouped(y)') /\ Cardinality(Grouped(y)') = Cardinality(G)
          /\ IsFiniteSet(Dropping(y)') /\ Cardinality(Dropping(y)') = Cardinality(D)
      BY <2>1, <3>1, <3>3, <3>4
    <3>6. Cardinality(Grouped(y)') + Cardinality(Dropping(y)') = Cardinality(G) + Cardinality(D)
      BY <2>1, <3>5
    <3> QED
      BY <2>2, <3>5, <3>6 DEF G, D
  <2>6. CASE y # x /\ g[m] # y
    <3>1. Dropping(y)' = D /\ Grouped(y)' = G
      BY <2>2, <2>3, <2>6
    <3> QED
      BY <2>1, <2>2, <3>1 DEF G, D
  <2> QED
    BY <2>4, <2>5, <2>6
<1>19. GroupCallBegins(t, t)
  BY <1>1, <1>7, <1>9, <1>13, <1>14, <1>15, <1>16, <1>18 DEF GroupCallBegins
<1> QED
  BY <1>2, <1>19, GroupBegun

\* The places of a group, and the items that drop what is there, are as many.
Mirrors(t, m, S, T) == \A x \in S : x[2] \in Nat /\ x = <<t, x[2]>> /\ <<t, m - x[2]>> \in T

\* They are as many.
LEMMA Mirrored ==
  ASSUME NEW t, NEW m \in Int, NEW S, IsFiniteSet(S), NEW T, Mirrors(t, m, S, T), Mirrors(t, m, T, S)
  PROVE  IsFiniteSet(T) /\ Cardinality(T) = Cardinality(S)
<1> USE DEF Mirrors
<1> DEFINE F == [x \in S |-> <<t, m - x[2]>>]
<1>1. F \in [S -> T]
  OBVIOUS
<1>2. ASSUME NEW a \in S, NEW b \in S, F[a] = F[b] PROVE a = b
  <2>1. m - a[2] = m - b[2] /\ a[2] \in Int /\ b[2] \in Int
    BY <1>2
  <2>2. a[2] = b[2]
    BY <2>1
  <2>3. a = <<t, a[2]>> /\ b = <<t, b[2]>>
    OBVIOUS
  <2> QED
    BY <2>2, <2>3
<1>3. ASSUME NEW x \in T PROVE \E s \in S : F[s] = x
  <2>1. x[2] \in Nat /\ x = <<t, x[2]>> /\ <<t, m - x[2]>> \in S
    OBVIOUS
  <2>2. m - (m - x[2]) = x[2]
    BY <2>1
  <2>3. F[<<t, m - x[2]>>] = <<t, m - (m - x[2])>>
    BY <2>1
  <2> QED
    BY <2>1, <2>2, <2>3
<1> HIDE DEF F
<1>4. F \in Bijection(S, T)
  BY <1>1, <1>2, <1>3 DEF Bijection, Injection, Surjection, IsInjective
<1>5. ExistsBijection(S, T)
  BY <1>4 DEF ExistsBijection
<1> QED
  BY <1>5, FS_Bijection

\* A group is about to become another one: the call drops what is in it, each item m less its place
\* from the end.
LEMMA GroupDrops ==
  ASSUME RefsInv, NEW t \in Threads, Left(t) = 0, NEW m \in Nat,
         \A u \in Threads \ {t} : todo'[u] = todo[u], group' = group, Becoming(t)', Items(t)' \subseteq Nat,
         \A d \in Items(t)' : Item(t, d)'.op = "dec" => m - d \in DOMAIN group[t] /\ Item(t, d)'.o = group[t][m - d],
         \A k \in DOMAIN group[t] :
           m - k \in Items(t)' /\ Item(t, m - k)'.op = "dec" /\ Item(t, m - k)'.o = group[t][k],
         NEW y \in Objects
  PROVE  /\ IsFiniteSet(Grouped(y)') /\ IsFiniteSet(Dropping(y)')
         /\ Cardinality(Grouped(y)') + Cardinality(Dropping(y)') = Cardinality(Grouped(y)) + Cardinality(Dropping(y))
<1> DEFINE g == group[t]
           G == Grouped(y)
           D == Dropping(y)
           S == {x \in G : x[1] = t}
           T == Dropping(y)' \ D
<1>1. IsFiniteSet(G) /\ IsFiniteSet(D) /\ Cardinality(G) \in Nat /\ Cardinality(D) \in Nat
  BY FS_CardinalityType DEF RefsInv, CountInv
<1>2. g \in Seq(Datas)
  BY DEF RefsInv, PointersTyped
<1>3. DOMAIN g = 1..Len(g) /\ Len(g) \in Nat
  BY <1>2
<1>4. ~Becoming(t) /\ ~LateMember(t) /\ Items(t) = {}
  BY IdleDoes
<1>5. ASSUME NEW d \in Nat
      PROVE  /\ <<t, d>> \notin D
             /\ <<t, d>> \in Dropping(y)' <=> d \in Items(t)' /\ Item(t, d)'.op = "dec" /\ Item(t, d)'.o = y
             /\ <<t, d>> \notin Grouped(y)'
             /\ <<t, d>> \in G <=> d \in DOMAIN g /\ g[d] = y
  <2>1. <<t, d>> \notin D
    BY <1>4 DEF Dropping
  <2>2. <<t, d>> \in Dropping(y)' <=> d \in Items(t)' /\ Item(t, d)'.op = "dec" /\ Item(t, d)'.o = y
    BY DEF Dropping
  <2>3. <<t, d>> \notin Grouped(y)'
    BY DEF Grouped
  <2>4. <<t, d>> \in G <=> d \in DOMAIN g /\ g[d] = y
    BY <1>4 DEF Grouped
  <2> QED
    BY <2>1, <2>2, <2>3, <2>4
<1>6. /\ G \subseteq Threads \X Nat /\ D \subseteq Threads \X Nat
      /\ Grouped(y)' \subseteq Threads \X Nat /\ Dropping(y)' \subseteq Threads \X Nat
  BY DEF Grouped, Dropping
<1>7. \A x : x[1] # t => (x \in Dropping(y)' <=> x \in D) /\ (x \in Grouped(y)' <=> x \in G)
  BY DroppingOthers, GroupedOthers
<1> HIDE DEF G, D
<1>8. Grouped(y)' = G \ S
  <2>1. ASSUME NEW x \in Threads \X Nat PROVE x \in Grouped(y)' <=> x \in G \ S
    <3>1. CASE x[1] = t
      <4>1. x = <<t, x[2]>> /\ x[2] \in Nat
        BY <3>1
      <4> QED
        BY <1>5, <3>1, <4>1
    <3>2. CASE x[1] # t
      BY <1>7, <3>2
    <3> QED
      BY <3>1, <3>2
  <2> QED
    BY <1>6, <2>1
<1>9. D \subseteq Dropping(y)'
  <2>1. ASSUME NEW x \in D PROVE x[1] # t
    <3>1. x \in Threads \X Nat
      BY <1>6
    <3>2. x = <<x[1], x[2]>> /\ x[2] \in Nat
      BY <3>1
    <3> QED
      BY <1>5, <3>2
  <2> QED
    BY <1>7, <2>1
<1>10. \A x \in S : x[2] \in Nat /\ x = <<t, x[2]>> /\ <<t, m - x[2]>> \in T
  <2> SUFFICES ASSUME NEW x \in S PROVE x[2] \in Nat /\ x = <<t, x[2]>> /\ <<t, m - x[2]>> \in T
    OBVIOUS
  <2>1. x \in Threads \X Nat /\ x[1] = t
    BY <1>6
  <2>2. x = <<t, x[2]>> /\ x[2] \in Nat
    BY <2>1
  <2>3. x[2] \in DOMAIN g /\ g[x[2]] = y
    BY <1>5, <2>2
  <2>4. m - x[2] \in Items(t)' /\ m - x[2] \in Nat
    BY <2>3
  <2> QED
    BY <1>5, <2>2, <2>3, <2>4
<1>11. \A x \in T : x[2] \in Nat /\ x = <<t, x[2]>> /\ <<t, m - x[2]>> \in S
  <2> SUFFICES ASSUME NEW x \in T PROVE x[2] \in Nat /\ x = <<t, x[2]>> /\ <<t, m - x[2]>> \in S
    OBVIOUS
  <2>1. x \in Threads \X Nat /\ x[1] = t
    BY <1>6, <1>7
  <2>2. x = <<t, x[2]>> /\ x[2] \in Nat
    BY <2>1
  <2>3. x[2] \in Items(t)' /\ Item(t, x[2])'.op = "dec" /\ Item(t, x[2])'.o = y
    BY <1>5, <2>2
  <2>4. m - x[2] \in DOMAIN g /\ g[m - x[2]] = y
    BY <2>3
  <2>5. m - x[2] \in Nat
    BY <1>3, <2>4
  <2> QED
    BY <1>5, <2>2, <2>4, <2>5
<1> HIDE DEF T
<1>12. IsFiniteSet(S) /\ Cardinality(S) \in Nat /\ IsFiniteSet(G \ S) /\ Cardinality(G \ S) = Cardinality(G) - Cardinality(S)
  <2>1. S \in SUBSET G /\ G \cap S = S
    OBVIOUS
  <2> HIDE DEF S
  <2>2. IsFiniteSet(S)
    BY <1>1, <2>1, FS_Subset
  <2>3. IsFiniteSet(G \ S) /\ Cardinality(G \ S) = Cardinality(G) - Cardinality(G \cap S)
    BY <1>1, <2>2, FS_Difference
  <2> QED
    BY <2>1, <2>2, <2>3, FS_CardinalityType
<1> HIDE DEF S
<1>13. IsFiniteSet(T) /\ Cardinality(T) = Cardinality(S)
  <2>1. m \in Int /\ Mirrors(t, m, S, T) /\ Mirrors(t, m, T, S)
    BY <1>10, <1>11 DEF Mirrors
  <2> QED
    BY <1>12, <2>1, Mirrored
<1>14. IsFiniteSet(Dropping(y)') /\ Cardinality(Dropping(y)') = Cardinality(D) + Cardinality(T)
  <2>1. D \cup T = Dropping(y)' /\ D \cap T = {}
    BY <1>9 DEF T
  <2>2. IsFiniteSet(D \cup T) /\ Cardinality(D \cup T) = Cardinality(D) + Cardinality(T) - Cardinality(D \cap T)
    BY <1>1, <1>13, FS_Union
  <2>3. Cardinality(D \cap T) = 0 /\ Cardinality(T) \in Nat
    BY <1>13, <2>1, FS_EmptySet, FS_CardinalityType
  <2>4. Cardinality(D \cup T) = Cardinality(D) + Cardinality(T)
    BY <1>1, <2>2, <2>3
  <2> QED
    BY <2>1, <2>2, <2>4
<1> QED
  BY <1>1, <1>8, <1>12, <1>13, <1>14 DEF G, D

\* What the groups of the others are to become.
LEMMA JoiningOthers ==
  ASSUME NEW t \in Threads, \A u \in Threads \ {t} : todo'[u] = todo[u], NEW o, NEW x, x[1] # t
  PROVE  x \in Joining(o)' <=> x \in Joining(o)
<1>1. \A u \in Threads \ {t} : Left(u)' = Left(u) /\ Items(u)' = Items(u) /\ \A d : Item(u, d)' = Item(u, d)
  BY SameCall
<1>2. CASE x \in Threads \X Nat
  <2>1. PICK u \in Threads \ {t} : u = x[1]
    BY <1>2
  <2>2. Left(u)' = Left(u) /\ Items(u)' = Items(u) /\ \A d : Item(u, d)' = Item(u, d)
    BY <1>1
  <2> QED
    BY <1>2, <2>1, <2>2 DEF Joining
<1>3. CASE x \notin Threads \X Nat
  BY <1>3 DEF Joining
<1> QED
  BY <1>2, <1>3

\* A call that is to put o into no group, before and after, leaves the rest as it is.
LEMMA JoiningNone ==
  ASSUME NEW t \in Threads, \A u \in Threads \ {t} : todo'[u] = todo[u], NEW o,
         \A k \in Nat : <<t, k>> \notin Joining(o) /\ <<t, k>> \notin Joining(o)'
  PROVE  Joining(o)' = Joining(o)
<1>1. ASSUME NEW x \in Threads \X Nat PROVE x \in Joining(o)' <=> x \in Joining(o)
  <2>1. CASE x[1] = t
    <3>1. x = <<t, x[2]>> /\ x[2] \in Nat
      BY <2>1
    <3> QED
      BY <3>1
  <2>2. CASE x[1] # t
    BY <2>2, JoiningOthers
  <2> QED
    BY <2>1, <2>2
<1>2. Joining(o) \subseteq Threads \X Nat /\ Joining(o)' \subseteq Threads \X Nat
  BY DEF Joining
<1> QED
  BY <1>1, <1>2

\* Counting all in a group up or down.
LEMMA Batches ==
  ASSUME NEW s \in Seq(Datas)
  PROVE  /\ Incs(s) \in Seq(CallItems) /\ Len(Incs(s)) = Len(s) /\ \A k \in 1..Len(s) : Incs(s)[k] = AddItem(s[k])
         /\ Decs(s) \in Seq(CallItems) /\ Len(Decs(s)) = Len(s) /\ \A k \in 1..Len(s) : Decs(s)[k] = DropItem(s[k])
<1>1. DOMAIN s = 1..Len(s) /\ Len(s) \in Nat /\ \A k \in 1..Len(s) : s[k] \in Objects
  BY DEF Objects
<1>2. \A k \in 1..Len(s) : AddItem(s[k]) \in CallItems /\ DropItem(s[k]) \in CallItems
  BY <1>1, ItemsTyped
<1>3. Incs(s) = [k \in 1..Len(s) |-> AddItem(s[k])] /\ Decs(s) = [k \in 1..Len(s) |-> DropItem(s[k])]
  BY <1>1 DEF Incs, Decs, AddItem, DropItem
<1> QED
  BY <1>1, <1>2, <1>3

\* ObjectGroup::clear keeps it: for each place there is a decrement to come.
LEMMA clear_keeps ==
  ASSUME PointersAssumption, RefsInv, NEW t \in Threads, clear(t)
  PROVE  RefsInv'
<1> DEFINE g == group[t]
           n == Len(g)
           c == BecomeItem(<<>>)
           r == Decs(g) \o <<c>>
<1>1. Left(t) = 0 /\ \A v \in Threads \ {t} : reads[v] # t
  BY Unread DEF clear
<1>2. PointersTyped
  BY DEF RefsInv
<1>0. g \in Seq(Datas) /\ n \in Nat /\ DOMAIN g = 1..n
  BY <1>2 DEF PointersTyped
<1> PICK m \in Nat : m = n + 1
  BY <1>0
<1>3. g \in Seq(Datas) /\ n \in Nat /\ DOMAIN g = 1..n /\ m = n + 1
  BY <1>0
<1>4. /\ UNCHANGED <<counts, made, gone, ptr, group>> /\ reads' = [reads EXCEPT ![t] = t]
      /\ todo' = [todo EXCEPT ![t] = r]
  BY DEF clear, Calls, Become, BecomeItem
<1>5. c \in CallItems /\ c.op = "become" /\ c.s = <<>>
  <2>1. <<>> \in Seq(Datas)
    OBVIOUS
  <2> QED
    BY <2>1, ItemsTyped
<1>6. \A k \in 1..n : DropItem(g[k]).op = "dec" /\ DropItem(g[k]).o = g[k]
  BY ItemsTyped
<1>7. /\ r \in Seq(CallItems) /\ Len(r) = m /\ r[m] = c
      /\ \A k \in 1..n : r[k] = DropItem(g[k])
  <2>1. /\ Decs(g) \in Seq(CallItems) /\ Len(Decs(g)) = n /\ \A k \in 1..n : Decs(g)[k] = DropItem(g[k])
    BY <1>3, Batches
  <2> HIDE DEF c
  <2>2. <<c>> \in Seq(CallItems) /\ Len(<<c>>) = 1 /\ <<c>>[1] = c
    BY <1>5
  <2>3. /\ r \in Seq(CallItems) /\ Len(r) = m
        /\ \A i \in 1..m : r[i] = IF i <= n THEN Decs(g)[i] ELSE <<c>>[i - n]
    BY <2>1, <2>2, ConcatProperties
  <2> HIDE DEF r
  <2>4. r[m] = <<c>>[m - n] /\ m - n = 1
    BY <1>3, <2>3
  <2> QED
    BY <1>3, <2>1, <2>2, <2>3, <2>4
<1> HIDE DEF r, c
<1>8. /\ Left(t)' = m /\ Items(t)' = 0..n
      /\ \A d \in 0..n : Item(t, d)' = r[m - d]
      /\ \A u \in Threads \ {t} : todo'[u] = todo[u]
      /\ todo' \in [Threads -> Seq(CallItems)]
  <2>1. m - 1 = n
    BY <1>3
  <2>2. /\ Left(t)' = Len(r) /\ Items(t)' = 0..Len(r) - 1
        /\ \A d \in 0..Len(r) - 1 : Item(t, d)' = r[Len(r) - d]
        /\ \A u \in Threads \ {t} : todo'[u] = todo[u]
        /\ todo' \in [Threads -> Seq(CallItems)]
    BY <1>2, <1>4, <1>7, Begins
  <2> QED
    BY <1>7, <2>1, <2>2
<1>9. /\ Item(t, 0)' = c
      /\ \A d \in Items(t)' : d # 0 => m - d \in 1..n /\ Item(t, d)' = DropItem(g[m - d])
      /\ \A k \in 1..n : m - k \in Items(t)' /\ Item(t, m - k)' = DropItem(g[k])
  <2>1. Item(t, 0)' = c
    BY <1>3, <1>7, <1>8
  <2>2. ASSUME NEW d \in Items(t)', d # 0 PROVE m - d \in 1..n /\ Item(t, d)' = DropItem(g[m - d])
    BY <1>3, <1>7, <1>8, <2>2
  <2>3. ASSUME NEW k \in 1..n PROVE m - k \in Items(t)' /\ Item(t, m - k)' = DropItem(g[k])
    <3>0. m - k \in 0..n
      BY <1>3
    <3>1. PICK d \in 0..n : d = m - k
      BY <3>0
    <3>2. m - d = k
      BY <1>3, <3>1
    <3>3. d \in Items(t)' /\ Item(t, d)' = DropItem(g[k])
      BY <1>7, <1>8, <3>1, <3>2
    <3> HIDE DEF g
    <3> QED
      BY <3>1, <3>3
  <2> QED
    BY <2>1, <2>2, <2>3
<1>10. /\ \A d \in Items(t)' : \/ d = 0 /\ Item(t, d)' = c
                               \/ d # 0 /\ Item(t, d)'.op = "dec"
       /\ 0 \in Items(t)' /\ Left(t)' # 0 /\ Items(t)' \subseteq Nat
  BY <1>3, <1>6, <1>8, <1>9
<1>11. Becoming(t)' /\ ~LateHandle(t)' /\ Adding(t)' = {} /\ \A d \in Items(t)' : Item(t, d)'.op # "store"
  BY <1>5, <1>9, <1>10 DEF Becoming, LateHandle, Adding
<1>12. ShapeOf(t)' /\ StoreOf(t)' /\ OldOf(t)' /\ SourceOf(t)'
  <2>1. Becomes(t, 0)'
    <3>1. \A d \in 0 + 1..Left(t)' - 1 : d \in Items(t)' /\ d # 0
      BY <1>3, <1>8
    <3>2. \A d \in 0..0 - 1 : FALSE
      OBVIOUS
    <3> QED
      BY <1>5, <1>9, <1>10, <3>1, <3>2 DEF Becomes
  <2>2. ~Replaces(t)' /\ ~Reopens(t)' /\ ~Appends(t)'
    BY <1>5, <1>9 DEF Replaces, Reopens, Appends
  <2>3. ShapeOf(t)'
    BY <1>10, <2>1 DEF ShapeOf
  <2> QED
    BY <1>11, <2>2, <2>3 DEF StoreOf, OldOf, SourceOf
<1>13. \A k \in 1..n : Held(g[k])
  BY <1>3 DEF Held
<1>14. \A k \in DOMAIN group'[t] : Held(group'[t][k])
  BY <1>3, <1>4, <1>13
<1>15. ASSUME NEW z \in Objects, NEW d \in Items(t)', Names(Item(t, d)', z) PROVE Held(z)
  <2>1. CASE d = 0
    <3>1. \A k \in DOMAIN <<>> : FALSE
      OBVIOUS
    <3> QED
      BY <1>5, <1>9, <1>15, <2>1, <3>1 DEF Names
  <2>2. CASE d # 0
    <3>1. m - d \in 1..n /\ Item(t, d)' = DropItem(g[m - d])
      BY <1>9, <2>2
    <3>2. z = g[m - d]
      BY <1>6, <1>15, <3>1 DEF Names
    <3> QED
      BY <1>13, <3>1, <3>2
  <2> QED
    BY <2>1, <2>2
<1>16. ASSUME NEW y \in Objects
       PROVE  /\ IsFiniteSet(Grouped(y)') /\ IsFiniteSet(Dropping(y)')
              /\ Cardinality(Grouped(y)') + Cardinality(Dropping(y)') = Cardinality(Grouped(y)) + Cardinality(Dropping(y))
              /\ Joining(y)' = Joining(y)
  <2>1. group' = group
    BY <1>3, <1>4
  <2>2. \A d \in Items(t)' : Item(t, d)'.op = "dec" => m - d \in DOMAIN group[t] /\ Item(t, d)'.o = group[t][m - d]
    <3> SUFFICES ASSUME NEW d \in Items(t)', Item(t, d)'.op = "dec"
        PROVE  m - d \in DOMAIN group[t] /\ Item(t, d)'.o = group[t][m - d]
      OBVIOUS
    <3>1. d # 0
      BY <1>5, <1>9
    <3> QED
      BY <1>3, <1>6, <1>9, <3>1
  <2>3. \A k \in DOMAIN group[t] :
          m - k \in Items(t)' /\ Item(t, m - k)'.op = "dec" /\ Item(t, m - k)'.o = group[t][k]
    BY <1>3, <1>6, <1>9
  <2> HIDE DEF n
  <2>4. /\ IsFiniteSet(Grouped(y)') /\ IsFiniteSet(Dropping(y)')
        /\ Cardinality(Grouped(y)') + Cardinality(Dropping(y)') = Cardinality(Grouped(y)) + Cardinality(Dropping(y))
    BY <1>1, <1>8, <1>10, <1>11, <2>1, <2>2, <2>3, GroupDrops
  <2>5. Joining(y)' = Joining(y)
    <3>1. Items(t) = {}
      BY <1>1, IdleDoes
    <3>2. ASSUME NEW k \in Nat PROVE <<t, k>> \notin Joining(y) /\ <<t, k>> \notin Joining(y)'
      <4>1. \A b \in Items(t)' : Item(t, b)'.op = "become" => \A i : i \notin DOMAIN Item(t, b)'.s
        BY <1>5, <1>10
      <4> QED
        BY <3>1, <4>1 DEF Joining
    <3> QED
      BY <1>8, <3>2, JoiningNone
  <2> QED
    BY <2>4, <2>5
<1>17. GroupCallBegins(t, t)
  <2>1. (\A u \in Threads \ {t} : todo'[u] = todo[u] /\ group'[u] = group[u]) /\ group' \in [Threads -> Seq(Datas)]
    BY <1>2, <1>4, <1>8 DEF PointersTyped
  <2> QED
    BY <1>4, <1>8, <1>10, <1>11, <1>12, <1>14, <1>15, <1>16, <2>1 DEF GroupCallBegins
<1> QED
  BY <1>1, <1>17, GroupBegun

\* ObjectGroup::operator= keeps it: nothing is counted for the new group before its increments.
LEMMA assign_keeps ==
  ASSUME PointersAssumption, RefsInv, NEW t \in Threads, NEW u \in Threads, assign(t, u)
  PROVE  RefsInv'
<1> DEFINE s == group[u]
           g == group[t]
           a == Incs(s)
           c == BecomeItem(s)
           e == Decs(g)
           r == a \o <<c>> \o e
<1>1. Left(t) = 0 /\ (\A v \in Threads \ {t} : reads[v] # t) /\ Left(u) = 0 /\ t # u
  BY Unread, IdleReads DEF assign
<1>2. PointersTyped
  BY DEF RefsInv
<1>0. /\ g \in Seq(Datas) /\ Len(g) \in Nat /\ DOMAIN g = 1..Len(g)
      /\ s \in Seq(Datas) /\ Len(s) \in Nat /\ DOMAIN s = 1..Len(s)
  BY <1>2 DEF PointersTyped
<1>21. PICK n \in Nat : n = Len(g)
  BY <1>0
<1>22. PICK m \in Nat : m = Len(s)
  BY <1>0
<1>23. PICK l \in Nat : l = m + 1 + n
  OBVIOUS
<1> USE <1>23
<1>3. /\ g \in Seq(Datas) /\ Len(g) = n /\ DOMAIN g = 1..n
      /\ s \in Seq(Datas) /\ Len(s) = m /\ DOMAIN s = 1..m
  BY <1>0, <1>21, <1>22
<1>4. /\ UNCHANGED <<counts, made, gone, ptr, group>> /\ reads' = [reads EXCEPT ![t] = u]
      /\ todo' = [todo EXCEPT ![t] = r]
  BY DEF assign, Calls, Become, BecomeItem
<1>5. c \in CallItems /\ c.op = "become" /\ c.s = s
  BY <1>3, ItemsTyped
<1>6. /\ \A k : DropItem(g[k]).op = "dec" /\ DropItem(g[k]).o = g[k]
      /\ \A k : AddItem(s[k]).op = "inc" /\ AddItem(s[k]).o = s[k]
  BY ItemsTyped
<1>7. /\ a \in Seq(CallItems) /\ Len(a) = m /\ \A k \in 1..m : a[k] = AddItem(s[k])
      /\ e \in Seq(CallItems) /\ Len(e) = n /\ \A k \in 1..n : e[k] = DropItem(g[k])
  BY <1>3, Batches
<1> HIDE DEF a, c, e
<1>8. /\ r \in Seq(CallItems) /\ Len(r) = l
      /\ \A i \in 1..l : r[i] = IF i <= m THEN a[i] ELSE IF i = m + 1 THEN c ELSE e[i - (m + 1)]
  <2> DEFINE b == a \o <<c>>
  <2>1. <<c>> \in Seq(CallItems) /\ Len(<<c>>) = 1 /\ <<c>>[1] = c
    BY <1>5
  <2>2. /\ b \in Seq(CallItems) /\ Len(b) = m + 1
        /\ \A i \in 1..m + 1 : b[i] = IF i <= m THEN a[i] ELSE <<c>>[i - m]
    BY <1>7, <2>1, ConcatProperties
  <2> HIDE DEF b
  <2>3. /\ b \o e \in Seq(CallItems) /\ Len(b \o e) = m + 1 + n
        /\ \A i \in 1..m + 1 + n : (b \o e)[i] = IF i <= m + 1 THEN b[i] ELSE e[i - (m + 1)]
    <3>1. /\ b \o e \in Seq(CallItems) /\ Len(b \o e) = Len(b) + Len(e)
          /\ \A i \in 1..Len(b) + Len(e) : (b \o e)[i] = IF i <= Len(b) THEN b[i] ELSE e[i - Len(b)]
      BY <1>7, <2>2, ConcatProperties
    <3> QED
      BY <1>7, <2>2, <3>1
  <2>4. r = b \o e
    BY DEF b
  <2>5. b[m + 1] = c
    <3>1. b[m + 1] = <<c>>[(m + 1) - m] /\ (m + 1) - m = 1
      BY <2>2
    <3> QED
      BY <2>1, <3>1
  <2> HIDE DEF r
  <2>6. ASSUME NEW i \in 1..l PROVE r[i] = IF i <= m THEN a[i] ELSE IF i = m + 1 THEN c ELSE e[i - (m + 1)]
    <3>1. CASE i <= m
      BY <2>2, <2>3, <2>4, <3>1
    <3>2. CASE i = m + 1
      BY <2>3, <2>4, <2>5, <3>2
    <3>3. CASE ~(i <= m + 1)
      BY <2>3, <2>4, <3>3
    <3> QED
      BY <3>1, <3>2, <3>3
  <2> QED
    BY <2>3, <2>4, <2>6
<1> HIDE DEF r
<1>9. /\ Left(t)' = l /\ Items(t)' = 0..m + n
      /\ \A d \in 0..m + n : Item(t, d)' = r[l - d]
      /\ \A v \in Threads \ {t} : todo'[v] = todo[v]
      /\ todo' \in [Threads -> Seq(CallItems)]
  <2>1. l - 1 = m + n
    OBVIOUS
  <2>2. /\ Left(t)' = Len(r) /\ Items(t)' = 0..Len(r) - 1
        /\ \A d \in 0..Len(r) - 1 : Item(t, d)' = r[Len(r) - d]
        /\ \A v \in Threads \ {t} : todo'[v] = todo[v]
        /\ todo' \in [Threads -> Seq(CallItems)]
    BY <1>2, <1>4, <1>8, Begins
  <2> QED
    BY <1>8, <2>1, <2>2
<1>10. ASSUME NEW d \in Items(t)'
       PROVE  /\ d \in Nat /\ d <= m + n
              /\ d < n => n - d \in 1..n /\ Item(t, d)' = DropItem(g[n - d])
              /\ d = n => Item(t, d)' = c
              /\ d > n => l - d \in 1..m /\ Item(t, d)' = AddItem(s[l - d])
  <2>1. d \in 0..m + n /\ Item(t, d)' = r[l - d]
    BY <1>9
  <2>2. PICK i \in 1..l : i = l - d
    <3>1. l - d \in 1..l
      BY <2>1
    <3> QED
      BY <3>1
  <2>3. d < n => i > m + 1 /\ i - (m + 1) = n - d /\ n - d \in 1..n
    BY <2>1, <2>2
  <2>4. d = n => i = m + 1
    BY <2>1, <2>2
  <2>5. d > n => i <= m /\ i \in 1..m
    BY <2>1, <2>2
  <2>6. Item(t, d)' = IF i <= m THEN a[i] ELSE IF i = m + 1 THEN c ELSE e[i - (m + 1)]
    BY <1>8, <2>1, <2>2
  <2>7. d < n => Item(t, d)' = e[n - d]
    BY <2>3, <2>6
  <2>8. d > n => Item(t, d)' = a[i]
    BY <2>5, <2>6
  <2> QED
    BY <1>7, <2>1, <2>2, <2>3, <2>4, <2>5, <2>6, <2>7, <2>8
<1>11. \A d \in Items(t)' : /\ Item(t, d)'.op = "dec" <=> d < n
                            /\ Item(t, d)'.op = "become" <=> d = n
                            /\ Item(t, d)'.op = "inc" <=> d > n
                            /\ Item(t, d)'.op # "store"
  <2> SUFFICES ASSUME NEW d \in Items(t)'
      PROVE  /\ Item(t, d)'.op = "dec" <=> d < n
             /\ Item(t, d)'.op = "become" <=> d = n
             /\ Item(t, d)'.op = "inc" <=> d > n
             /\ Item(t, d)'.op # "store"
    OBVIOUS
  <2>1. CASE d < n
    BY <1>6, <1>10, <2>1
  <2>2. CASE d = n
    BY <1>5, <1>10, <2>2
  <2>3. CASE d > n
    BY <1>6, <1>10, <2>3
  <2> QED
    BY <1>10, <2>1, <2>2, <2>3
<1>12. 0 \in Items(t)' /\ n \in Items(t)' /\ Left(t)' # 0 /\ Items(t)' \subseteq Nat
  BY <1>9
<1>13. /\ Becoming(t)' /\ ~LateHandle(t)' /\ Item(t, 0)'.op # "inc"
       /\ \A d \in Items(t)' : Item(t, d)'.op # "store"
  <2>1. Item(t, 0)'.op # "inc"
    BY <1>11, <1>12
  <2> QED
    BY <1>11, <1>12, <2>1 DEF Becoming, LateHandle
<1>14. Item(t, n)' = c
  BY <1>10, <1>12
<1>15. ShapeOf(t)' /\ StoreOf(t)' /\ OldOf(t)' /\ SourceOf(t)'
  <2>1. Becomes(t, n)'
    <3>1. ASSUME NEW d \in 0..n - 1 PROVE Item(t, d)'.op = "dec"
      <4>1. d \in 0..m + n /\ d < n
        OBVIOUS
      <4> QED
        BY <1>9, <1>11, <4>1
    <3>2. Left(t)' - 1 - n <= Len(s)
      BY <1>3, <1>9
    <3>3. ASSUME NEW d \in n + 1..Left(t)' - 1
          PROVE  Item(t, d)' = [op |-> "inc", o |-> s[Len(s) + 1 + n - d]]
      <4>1. d \in Items(t)' /\ d > n
        BY <1>9
      <4>2. Len(s) + 1 + n - d = l - d
        BY <1>3, <4>1
      <4>3. Item(t, d)' = AddItem(s[l - d])
        BY <1>10, <4>1
      <4> QED
        BY <4>2, <4>3 DEF AddItem
    <3>4. Item(t, n)'.s = s /\ Item(t, n)'.op = "become"
      BY <1>5, <1>14
    <3> QED
      BY <1>12, <3>1, <3>2, <3>3, <3>4 DEF Becomes
  <2>2. ~Replaces(t)' /\ ~Reopens(t)' /\ ~Appends(t)'
    BY <1>11, <1>12, <1>13 DEF Replaces, Reopens, Appends
  <2>3. ShapeOf(t)'
    BY <1>12, <2>1 DEF ShapeOf
  <2>4. reads'[t] = u
    BY <1>2, <1>4 DEF PointersTyped
  <2>5. ASSUME NEW b \in Items(t)', Becomes(t, b)' PROVE Item(t, b)'.s = s
    <3>1. b = n
      BY <1>11, <2>5 DEF Becomes
    <3> QED
      BY <1>5, <1>14, <3>1
  <2>6. SourceOf(t)'
    <3>1. u \in Threads \ {t} /\ group'[u] = s
      BY <1>1, <1>4
    <3> HIDE DEF s
    <3> QED
      BY <2>2, <2>4, <2>5, <3>1 DEF SourceOf
  <2> QED
    BY <1>13, <2>2, <2>3, <2>6 DEF StoreOf, OldOf
<1>16. (\A k \in 1..n : Held(g[k])) /\ (\A k \in 1..m : Held(s[k]))
  BY <1>3 DEF Held
<1>17. \A k \in DOMAIN group'[t] : Held(group'[t][k])
  BY <1>3, <1>4, <1>16
<1>18. ASSUME NEW z \in Objects, NEW d \in Items(t)', Names(Item(t, d)', z) PROVE Held(z)
  <2>1. CASE d < n
    BY <1>6, <1>10, <1>16, <1>18, <2>1 DEF Names
  <2>2. CASE d = n
    <3>1. \E k \in DOMAIN s : s[k] = z
      BY <1>5, <1>14, <1>18, <2>2 DEF Names
    <3> QED
      BY <1>3, <1>16, <3>1
  <2>3. CASE d > n
    BY <1>6, <1>10, <1>16, <1>18, <2>3 DEF Names
  <2> QED
    BY <1>10, <2>1, <2>2, <2>3
<1>19. ASSUME NEW y \in Objects
       PROVE  /\ IsFiniteSet(Grouped(y)') /\ IsFiniteSet(Dropping(y)')
              /\ Cardinality(Grouped(y)') + Cardinality(Dropping(y)') = Cardinality(Grouped(y)) + Cardinality(Dropping(y))
              /\ Joining(y)' = Joining(y)
  <2>1. group' = group
    BY <1>4
  <2>2. \A d \in Items(t)' : Item(t, d)'.op = "dec" => n - d \in DOMAIN group[t] /\ Item(t, d)'.o = group[t][n - d]
    BY <1>3, <1>6, <1>10, <1>11
  <2>3. \A k \in DOMAIN group[t] : n - k \in Items(t)' /\ Item(t, n - k)'.op = "dec" /\ Item(t, n - k)'.o = group[t][k]
    <3> SUFFICES ASSUME NEW k \in 1..n
        PROVE  n - k \in Items(t)' /\ Item(t, n - k)'.op = "dec" /\ Item(t, n - k)'.o = g[k]
      BY <1>3
    <3>0. n - k \in 0..m + n
      OBVIOUS
    <3>1. PICK d \in 0..m + n : d = n - k
      BY <3>0
    <3>2. d \in Items(t)' /\ d < n /\ n - d = k
      BY <1>9, <3>1
    <3>3. Item(t, d)' = DropItem(g[k])
      BY <1>10, <3>2
    <3> HIDE DEF g
    <3> QED
      BY <1>6, <3>1, <3>2, <3>3
  <2>4. /\ IsFiniteSet(Grouped(y)') /\ IsFiniteSet(Dropping(y)')
        /\ Cardinality(Grouped(y)') + Cardinality(Dropping(y)') = Cardinality(Grouped(y)) + Cardinality(Dropping(y))
    BY <1>1, <1>9, <1>12, <1>13, <2>1, <2>2, <2>3, GroupDrops
  <2>5. Joining(y)' = Joining(y)
    <3>1. Items(t) = {}
      BY <1>1, IdleDoes
    <3>2. ASSUME NEW k \in Nat PROVE <<t, k>> \notin Joining(y) /\ <<t, k>> \notin Joining(y)'
      <4>1. <<t, k>> \notin Joining(y)
        BY <3>1 DEF Joining
      <4>2. ASSUME NEW b \in Items(t)', Item(t, b)'.op = "become", k \in DOMAIN Item(t, b)'.s,
                   Len(Item(t, b)'.s) + 1 + b - k >= Left(t)'
            PROVE  FALSE
        <5>1. b = n
          BY <1>11, <4>2
        <5>2. Item(t, b)'.s = s
          BY <1>5, <1>14, <5>1
        <5>3. k \in 1..m /\ m + 1 + n - k >= l
          BY <1>3, <1>9, <4>2, <5>1, <5>2
        <5> QED
          BY <5>3
      <4> QED
        BY <4>1, <4>2 DEF Joining
    <3> QED
      BY <1>9, <3>2, JoiningNone
  <2> QED
    BY <2>4, <2>5
<1>20. GroupCallBegins(t, u)
  <2>1. (\A v \in Threads \ {t} : todo'[v] = todo[v] /\ group'[v] = group[v]) /\ group' \in [Threads -> Seq(Datas)]
    BY <1>2, <1>4, <1>9 DEF PointersTyped
  <2> HIDE DEF s, g
  <2> QED
    BY <1>4, <1>9, <1>12, <1>13, <1>15, <1>17, <1>18, <1>19, <2>1 DEF GroupCallBegins
<1> QED
  BY <1>1, <1>20, GroupBegun

-----------------------------------------------------------------------------
(* Pointers: the steps of a call *)

\* Nobody reads what a thread has whose call is not over.
LEMMA Busy ==
  ASSUME RefsInv, NEW t \in Threads, NEW op, Doing(t, op)
  PROVE  /\ todo[t] # <<>> /\ Left(t) \in Nat \ {0} /\ \A u \in Threads \ {t} : reads[u] # t
         /\ Left(t) - 1 \in Items(t) /\ Item(t, Left(t) - 1).op = op /\ Head(todo[t]) = Item(t, Left(t) - 1)
<1>1. todo[t] # <<>> /\ Head(todo[t]).op = op
  BY DEF Doing, Idle
<1>2. todo[t] \in Seq(CallItems)
  BY DEF RefsInv, PointersTyped
<1>3. Len(todo[t]) \in Nat \ {0} /\ Head(todo[t]) = todo[t][1]
  BY <1>1, <1>2
<1>4. \A u \in Threads \ {t} : reads[u] # t
  BY <1>3 DEF RefsInv, ReaderInv, Left
<1>5. Len(todo[t]) - (Len(todo[t]) - 1) = 1
  BY <1>3
<1> QED
  BY <1>1, <1>3, <1>4, <1>5 DEF Left, Items, Item

\* The first item is done.
LEMMA Popped ==
  ASSUME PointersAssumption, RefsInv, NEW t \in Threads, todo[t] # <<>>, Rest(t, <<>>)
  PROVE  /\ Left(t) \in Nat \ {0} /\ Left(t)' = Left(t) - 1
         /\ Items(t)' = Items(t) \ {Left(t) - 1} /\ Left(t) - 1 \in Items(t)
         /\ \A d \in Items(t)' : Item(t, d)' = Item(t, d)
         /\ \A u \in Threads \ {t} : todo'[u] = todo[u] /\ reads'[u] = reads[u]
         /\ todo' \in [Threads -> Seq(CallItems)] /\ reads' \in [Threads -> Threads \cup {Null}]
         /\ (Left(t)' # 0 => reads'[t] = reads[t])
         /\ ReaderInv'
<1> DEFINE left == <<>> \o Tail(todo[t])
<1>1. PointersTyped /\ ReaderInv
  BY DEF RefsInv
<1>2. /\ todo' = [todo EXCEPT ![t] = left]
      /\ reads' = [reads EXCEPT ![t] = IF left = <<>> THEN t ELSE reads[t]]
  BY DEF Rest
<1>3. /\ Left(t) \in Nat \ {0} /\ Left(t)' = Left(t) - 1
      /\ Items(t)' = Items(t) \ {Left(t) - 1} /\ Left(t) - 1 \in Items(t)
      /\ \A d \in Items(t)' : Item(t, d)' = Item(t, d)
      /\ \A u \in Threads \ {t} : todo'[u] = todo[u]
      /\ todo' \in [Threads -> Seq(CallItems)]
  BY <1>1, <1>2, Pops
<1>4. Left(t)' = 0 <=> left = <<>>
  <2>1. todo'[t] = left /\ todo'[t] \in Seq(CallItems)
    BY <1>1, <1>2, <1>3 DEF PointersTyped
  <2> HIDE DEF left
  <2>2. left \in Seq(CallItems)
    BY <2>1
  <2> QED
    BY <2>1, <2>2 DEF Left
<1> HIDE DEF left
<1>5. /\ \A u \in Threads \ {t} : reads'[u] = reads[u]
      /\ reads'[t] = IF left = <<>> THEN t ELSE reads[t]
      /\ reads' \in [Threads -> Threads \cup {Null}]
  BY <1>1, <1>2 DEF PointersTyped
<1>6. ReaderInv'
  <2>1. \A u \in Threads \ {t} : Left(u)' = Left(u)
    BY <1>3, SameCall
  <2>2. t # Null
    BY DEF PointersAssumption
  <2>3. \A u \in Threads : Left(u)' = 0 => reads'[u] = u
    BY <1>1, <1>4, <1>5, <2>1 DEF ReaderInv
  <2>4. \A u \in Threads : reads'[u] = u \/ reads'[u] = reads[u]
    BY <1>5
  <2>5. ASSUME NEW u \in Threads, NEW v \in Threads \ {u}, reads'[u] = v PROVE Left(v)' = 0
    <3>1. reads[u] = v
      BY <2>4, <2>5
    <3>2. Left(v) = 0 /\ v # t
      BY <1>1, <1>3, <3>1 DEF ReaderInv
    <3> QED
      BY <2>1, <3>2
  <2>6. \A u, v \in Threads : reads'[u] = Null /\ reads'[v] = Null => u = v
    <3>1. \A u \in Threads : u # Null
      BY DEF PointersAssumption
    <3> QED
      BY <1>1, <2>4, <3>1 DEF ReaderInv
  <2> QED
    BY <2>3, <2>5, <2>6 DEF ReaderInv, Left
<1> QED
  BY <1>3, <1>4, <1>5, <1>6

\* A call stores one pointer at most.
LEMMA StoresOnce ==
  ASSUME RefsInv, NEW t \in Threads, NEW d \in Items(t), NEW e \in Items(t),
         Item(t, d).op = "store", Item(t, e).op = "store"
  PROVE  d = e
<1>1. ShapeOf(t)
  BY DEF RefsInv, CallInv
<1>2. \A x \in Items(t) : x \in 0..Left(t) - 1
  BY DEF Items
<1>3. Left(t) \in Nat
  BY ItemTypes DEF RefsInv
<1>4. ~OnlyDrops(t)
  BY DEF OnlyDrops
<1>5. CASE Replaces(t)
  <2>1. ASSUME NEW x \in Items(t), Item(t, x).op = "store" PROVE x = 0
    <3>1. x \in 1..Left(t) - 1 => Item(t, x).op # "store"
      BY <1>5 DEF Replaces
    <3> QED
      BY <1>2, <1>3, <2>1, <3>1
  <2> QED
    BY <2>1
<1>6. CASE Reopens(t)
  <2>1. ASSUME NEW x \in Items(t), Item(t, x).op = "store" PROVE x = 1
    <3>1. x = 0 \/ x = 1 \/ (x = 2 /\ Left(t) = 3)
      BY <1>2, <1>3, <1>6 DEF Reopens
    <3> QED
      BY <1>6, <2>1, <3>1 DEF Reopens
  <2> QED
    BY <2>1
<1>7. CASE Appends(t)
  <2>1. d = 0
    BY <1>2, <1>7 DEF Appends
  <2> QED
    BY <1>7, <2>1 DEF Appends
<1>8. ASSUME NEW b \in Items(t), Becomes(t, b) PROVE FALSE
  <2>1. d \in 0..b - 1 => Item(t, d).op # "store"
    BY <1>8 DEF Becomes
  <2>2. d \in b + 1..Left(t) - 1 => Item(t, d).op # "store"
    BY <1>8 DEF Becomes
  <2>3. d # b
    BY <1>8 DEF Becomes
  <2>4. b \in 0..Left(t) - 1 /\ d \in 0..Left(t) - 1
    BY <1>2
  <2> QED
    BY <1>3, <2>1, <2>2, <2>3, <2>4
<1> QED
  BY <1>1, <1>4, <1>5, <1>6, <1>7, <1>8 DEF ShapeOf

\* A call that begins by counting up.
AddsFirst(t, h) ==
  \/ Replaces(t) /\ h \in 1..2 /\ Adding(t) = {h} /\ Item(t, h).o = Item(t, 0).o /\ Item(t, 0).op = "store"
     /\ \A d \in Items(t) : d # h /\ d # 0 => Item(t, d).op = "dec"
  \/ Reopens(t) /\ Left(t) = 1 /\ h = 0
  \/ Appends(t) /\ Left(t) = 1 /\ h = 0
  \/ \E b \in Items(t) :
       /\ Becomes(t, b) /\ h > b /\ b \in Nat
       /\ Left(t) - 1 - b <= Len(Item(t, b).s)
       /\ \A d \in b + 1..Left(t) - 1 : Item(t, d) = [op |-> "inc", o |-> Item(t, b).s[Len(Item(t, b).s) + 1 + b - d]]

\* A call that counts up next has one of these shapes.
LEMMA AddingFirst ==
  ASSUME RefsInv, NEW t \in Threads, NEW h, h = Left(t) - 1, h \in Items(t), Item(t, h).op = "inc"
  PROVE  AddsFirst(t, h)
<1>1. ShapeOf(t)
  BY DEF RefsInv, CallInv
<1>2. Left(t) \in Nat /\ Items(t) = 0..Left(t) - 1
  BY ItemTypes DEF RefsInv, Items
<1>3. ~OnlyDrops(t)
  BY DEF OnlyDrops
<1>4. CASE Replaces(t)
  <2>1. h # 0 /\ h \in 1..2
    BY <1>2, <1>4 DEF Replaces
  <2>2. ASSUME NEW d \in Items(t), d # 0
        PROVE  \/ Item(t, d).op = "dec"
               \/ Item(t, d).op = "inc" /\ d = h /\ Item(t, d).o = Item(t, 0).o
    <3>1. d \in 1..Left(t) - 1
      BY <1>2, <2>2
    <3> QED
      BY <1>4, <3>1 DEF Replaces
  <2>3. Item(t, h).o = Item(t, 0).o /\ Item(t, 0).op = "store"
    BY <1>4, <2>1, <2>2 DEF Replaces
  <2>4. Adding(t) = {h}
    BY <2>2, <2>3 DEF Adding
  <2>5. \A d \in Items(t) : d # h /\ d # 0 => Item(t, d).op = "dec"
    BY <2>2
  <2> QED
    BY <1>4, <2>1, <2>3, <2>4, <2>5 DEF AddsFirst
<1>5. CASE Reopens(t)
  <2>1. Left(t) # 3 /\ Left(t) # 2
    BY <1>5 DEF Reopens
  <2> QED
    BY <1>2, <1>5, <2>1 DEF Reopens, AddsFirst
<1>6. CASE Appends(t)
  BY <1>6 DEF Appends, AddsFirst
<1>7. ASSUME NEW b \in Items(t), Becomes(t, b)
      PROVE  /\ h > b /\ b \in Nat
             /\ LET s == Item(t, b).s IN
                /\ Left(t) - 1 - b <= Len(s)
                /\ \A d \in b + 1..Left(t) - 1 : Item(t, d) = [op |-> "inc", o |-> s[Len(s) + 1 + b - d]]
  <2>1. h # b /\ ~(h \in 0..b - 1)
    BY <1>7 DEF Becomes
  <2>2. h > b /\ b \in Nat /\ h \in b + 1..Left(t) - 1
    BY <1>2, <2>1
  <2>3. ~(Item(t, b).s = <<>> /\ \A d \in b + 1..Left(t) - 1 : Item(t, d).op = "dec")
    BY <2>2
  <2> QED
    BY <1>7, <2>2, <2>3 DEF Becomes
<1> QED
  BY <1>1, <1>3, <1>4, <1>5, <1>6, <1>7 DEF ShapeOf, AddsFirst

\* What is counted somewhere is there.
LEMMA PointedIsThere ==
  ASSUME RefsInv, NEW o, o # Null, NEW p \in Pointers, p \in Pointing(o)
  PROVE  o \in made \ gone
<1>1. ptr[p] = o
  BY DEF Pointing
<1>2. o \in Objects
  BY <1>1 DEF RefsInv, PointersTyped
<1>3. o \notin gone
  BY <1>2, CountedIsThere
<1>4. o \in made
  BY <1>1, <1>2, NamedIsMade
<1> QED
  BY <1>3, <1>4

\* Nobody stores to the pointer of an object when a thread that reads those does not, and the
\* object is there.
LEMMA LinkCounts ==
  ASSUME PointersAssumption, RefsInv, NEW t \in Threads, reads[t] = Null, NEW x \in Datas, x \in made \ gone,
         ~StoresTo(t, <<x, "link">>)
  PROVE  <<x, "link">> \in Pointing(ptr[<<x, "link">>])
<1> DEFINE p == <<x, "link">>
<1>1. p \in Pointers /\ p[1] = x /\ p[2] = "link" /\ x \notin Threads
  BY PointersAre DEF PointersAssumption, Objects
<1>2. ASSUME NEW u \in Threads, StoresTo(u, p) PROVE FALSE
  <2>1. PICK d \in Items(u) : Item(u, d).op = "store" /\ Item(u, d).p = p
    BY <1>2 DEF StoresTo
  <2>2. StoreOf(u)
    BY DEF RefsInv, CallInv
  <2>3. p \notin {u} \X (Slots[u] \cup {"ko"})
    BY <1>1
  <2>4. reads[u] = Null
    BY <2>1, <2>2, <2>3 DEF StoreOf
  <2>5. u = t
    BY <2>4 DEF RefsInv, ReaderInv
  <2> QED
    BY <1>2, <2>5
<1> QED
  BY <1>1, <1>2 DEF Pointing, Counts, Live

\* An object that is to be counted next is there.
LEMMA AddedIsThere ==
  ASSUME PointersAssumption, RefsInv, NEW t \in Threads, NEW h, h = Left(t) - 1, h \in Items(t), Item(t, h).op = "inc"
  PROVE  Item(t, h).o \in made \ gone /\ Item(t, h).o \in Objects
<1> DEFINE o == Item(t, h).o
<1>1. o \in Objects /\ o # Null
  BY ItemTypes, ItemKinds DEF RefsInv, PointersAssumption
<1>2. SourceOf(t) /\ OldOf(t) /\ StoreOf(t)
  BY DEF RefsInv, CallInv
<1>3. h \in Adding(t)
  BY DEF Adding
<1>4. ASSUME NEW v \in Threads, Left(v) = 0, NEW j \in Slots[v] \cup {"ko"}, ptr[<<v, j>>] = o PROVE o \in made \ gone
  <2>1. <<v, j>> \in Pointing(o)
    BY <1>4, IdleDoes, OwnCounts
  <2>2. <<v, j>> \in Pointers
    BY PointersAre
  <2> QED
    BY <1>1, <2>1, <2>2, PointedIsThere
<1>5. CASE Replaces(t) /\ Adding(t) = {h} /\ o = Item(t, 0).o /\ Item(t, 0).op = "store"
  <2> DEFINE p == Item(t, 0).p
  <2>1. 0 \in Items(t)
    BY <1>5, ItemTypes DEF Replaces, Items, RefsInv
  <2>2. \A q : StoresTo(t, q) => q = p
    BY <1>5, <2>1, StoresOnce DEF StoresTo
  <2>3. ~LateHandle(t)
    BY <1>5 DEF LateHandle
  <2>4. New(o, t) \/ Comes(t, o, p)
    BY <1>2, <1>3, <1>5 DEF SourceOf
  <2>5. ASSUME NEW j \in Slots[t] \cup {"ko"}, <<t, j>> # p, NEW x, ptr[<<t, j>>] = x, x # Null PROVE x \in made \ gone
    <3>1. ~StoresTo(t, <<t, j>>)
      BY <2>2, <2>5
    <3>2. <<t, j>> \in Pointing(x) /\ <<t, j>> \in Pointers
      BY <2>3, <2>5, <3>1, OwnCounts, PointersAre
    <3> QED
      BY <2>5, <3>2, PointedIsThere
  <2>6. CASE New(o, t)
    BY <1>1, <2>6 DEF New
  <2>7. CASE reads[t] \in Threads /\ \E j \in Slots[reads[t]] \cup {"ko"} : <<reads[t], j>> # p /\ ptr[<<reads[t], j>>] = o
    <3>1. CASE reads[t] = t
      <4>1. PICK j \in Slots[t] \cup {"ko"} : <<t, j>> # p /\ ptr[<<t, j>>] = o
        BY <2>7, <3>1
      <4> HIDE DEF p
      <4> QED
        BY <1>1, <2>5, <4>1
    <3>2. CASE reads[t] # t
      <4>1. PICK v \in Threads : v = reads[t] /\ Left(v) = 0
        BY <2>7, <3>2 DEF RefsInv, ReaderInv
      <4> QED
        BY <1>1, <1>4, <2>7, <4>1
    <3> QED
      BY <3>1, <3>2
  <2>8. CASE \E j \in Slots[t] : <<t, j>> # p /\ ptr[<<t, j>>] = o
    <3>1. PICK j \in Slots[t] \cup {"ko"} : <<t, j>> # p /\ ptr[<<t, j>>] = o
      BY <2>8
    <3> HIDE DEF p
    <3> QED
      BY <1>1, <2>5, <3>1
  <2>9. CASE reads[t] = Null /\ p[1] = t /\ \E x \in Datas : ptr[<<x, "link">>] = o /\ \E j \in Slots[t] : ptr[<<t, j>>] = x
    <3>1. PICK x \in Datas, j \in Slots[t] : ptr[<<x, "link">>] = o /\ ptr[<<t, j>>] = x
      BY <2>9
    <3>2. x # Null /\ x \in Objects /\ x # t /\ <<x, "link">>[1] = x
      BY DEF PointersAssumption, Objects
    <3>3. x \in made \ gone
      <4>1. CASE <<t, j>> # p
        <5> HIDE DEF p
        <5> QED
          BY <2>5, <3>1, <3>2, <4>1
      <4>2. CASE <<t, j>> = p
        <5>1. Left(t) = 3 /\ Item(t, 1).o = x
          <6>1. ptr[p] = x
            BY <3>1, <4>2
          <6>2. Replaces(t) /\ Adding(t) # {}
            BY <1>3, <1>5
          <6> HIDE DEF p
          <6> QED
            BY <1>2, <3>2, <6>1, <6>2 DEF OldOf, p
        <5>2. 1 \in Items(t) /\ 1 # h /\ Item(t, 1).op = "dec"
          <6>1. 1 \in Items(t) /\ 1 # h /\ 1 \in 1..Left(t) - 1
            BY <5>1 DEF Items
          <6> QED
            BY <1>5, <6>1 DEF Replaces
        <5>3. <<t, 1>> \in Dropping(x)
          BY <5>1, <5>2 DEF Dropping
        <5>4. x \notin gone
          BY <3>2, <5>3, CountedIsThere
        <5>5. <<t, j>> \in Pointers
          BY PointersAre
        <5> QED
          BY <3>1, <3>2, <5>4, <5>5, NamedIsMade
      <4> QED
        BY <4>1, <4>2
    <3>4. ~StoresTo(t, <<x, "link">>)
      <4>1. <<x, "link">> # p
        BY <2>9, <3>2
      <4> QED
        BY <2>2, <4>1
    <3>5. <<x, "link">> \in Pointing(o) /\ <<x, "link">> \in Pointers
      BY <2>9, <3>1, <3>3, <3>4, LinkCounts, PointersAre
    <3> QED
      BY <1>1, <3>5, PointedIsThere
  <2> HIDE DEF p
  <2>10. Comes(t, o, p) => \/ reads[t] \in Threads /\ \E j \in Slots[reads[t]] \cup {"ko"} : <<reads[t], j>> # p /\ ptr[<<reads[t], j>>] = o
                           \/ \E j \in Slots[t] : <<t, j>> # p /\ ptr[<<t, j>>] = o
                           \/ reads[t] = Null /\ p[1] = t /\ \E x \in Datas : ptr[<<x, "link">>] = o /\ \E j \in Slots[t] : ptr[<<t, j>>] = x
    BY DEF Comes
  <2> QED
    BY <2>4, <2>6, <2>7, <2>8, <2>9, <2>10
<1>6. CASE Reopens(t) /\ h = 0
  <2>1. PICK v \in Threads \ {t} : v = reads[t] /\ ptr[<<v, "ko">>] = o
    BY <1>2, <1>6 DEF SourceOf
  <2>2. Left(v) = 0
    BY <2>1 DEF RefsInv, ReaderInv
  <2> QED
    BY <1>1, <1>4, <2>1, <2>2
<1>7. CASE Appends(t) /\ h = 0 /\ Left(t) = 1
  <2>1. PICK i \in Slots[t] : ptr[<<t, i>>] = o
    BY <1>2, <1>7 DEF SourceOf
  <2>2. i # "ko"
    BY DEF PointersAssumption
  <2>3. \A p : ~StoresTo(t, p)
    <3>1. \A d \in Items(t) : d = 0
      BY <1>7 DEF Items
    <3> QED
      BY <1>7, <3>1 DEF StoresTo
  <2>4. <<t, i>> \in Pointing(o) /\ <<t, i>> \in Pointers
    BY <2>1, <2>2, <2>3, OwnCounts, PointersAre
  <2> QED
    BY <1>1, <2>4, PointedIsThere
<1>8. ASSUME NEW b \in Items(t), Becomes(t, b), h > b, b \in Nat, Left(t) - 1 - b <= Len(Item(t, b).s),
             \A d \in b + 1..Left(t) - 1 : Item(t, d) = [op |-> "inc", o |-> Item(t, b).s[Len(Item(t, b).s) + 1 + b - d]]
      PROVE  o \in made \ gone
  <2> DEFINE s == Item(t, b).s
  <2>1. PICK v \in Threads \ {t} : v = reads[t] /\ s = group[v]
    BY <1>2, <1>3, <1>8 DEF SourceOf
  <2>2. Left(v) = 0
    BY <2>1 DEF RefsInv, ReaderInv
  <2>3. s \in Seq(Datas)
    BY <2>1 DEF RefsInv, PointersTyped
  <2>4. Left(t) \in Nat /\ h \in b + 1..Left(t) - 1
    BY <1>8, ItemTypes DEF RefsInv
  <2>5. Item(t, h) = [op |-> "inc", o |-> s[Len(s) + 1 + b - h]]
    BY <1>8, <2>4
  <2> HIDE DEF s
  <2>6. PICK k \in 1..Len(s) : k = Len(s) + 1 + b - h
    <3>1. Len(s) \in Nat
      BY <2>3
    <3>2. Left(t) - 1 - b <= Len(s)
      BY <1>8 DEF s
    <3>3. Len(s) + 1 + b - h \in 1..Len(s)
      BY <1>8, <2>4, <3>1, <3>2
    <3> QED
      BY <3>3
  <2>7. o = s[k]
    BY <2>5, <2>6
  <2>8. k \in Nat /\ k \in DOMAIN group[v] /\ group[v][k] = o
    BY <2>1, <2>3, <2>7
  <2>9. <<v, k>> \in Grouped(o)
    BY <2>2, <2>8, IdleDoes DEF Grouped
  <2> QED
    BY <1>1, <2>8, <2>9, CountedIsThere, NamedIsMade
<1> QED
  BY <1>1, <1>5, <1>6, <1>7, <1>8, AddingFirst DEF AddsFirst

\* What the call of t is about, and what somebody holds.
Told(t, z) == Held(z) \/ \E d \in Items(t) : Names(Item(t, d), z)

\* A step of the call of t.
Steps(t) ==
  /\ \A u \in Threads \ {t} : todo'[u] = todo[u] /\ reads'[u] = reads[u] /\ reads[u] # t /\ group'[u] = group[u]
  /\ PointersTyped' /\ ReaderInv' /\ made' = made
  /\ \A u \in Threads \ {t} : \A j \in Slots[u] \cup {"ko"} : ptr'[<<u, j>>] = ptr[<<u, j>>]
  /\ reads[t] # Null => \A x \in Datas : ptr'[<<x, "link">>] = ptr[<<x, "link">>]
  /\ \A x \in Datas \ made : ptr'[<<x, "link">>] = ptr[<<x, "link">>]
  /\ \A z \in Objects : Told(t, z)' => Told(t, z)
  /\ \A z \in gone' \ gone : \E d \in Items(t) : Names(Item(t, d), z)
  /\ \A z \in made \ gone' : counts'[z] = 0 => counts[z] = 0 /\ ~New(z, t) /\ z \notin gone
  /\ ShapeOf(t)' /\ StoreOf(t)' /\ OldOf(t)' /\ SourceOf(t)'
  /\ CountInv'

\* A step of a call keeps it, from what the step does to its own thread.
LEMMA Stepped ==
  ASSUME PointersAssumption, RefsInv, NEW t \in Threads, Steps(t)
  PROVE  RefsInv'
<1>1. PointersTyped /\ CallInv /\ ReaderInv /\ CountInv /\ UnmadeInv /\ MadeInv
  BY DEF RefsInv
<1>2. /\ \A u \in Threads \ {t} : todo'[u] = todo[u] /\ reads'[u] = reads[u] /\ reads[u] # t /\ group'[u] = group[u]
      /\ PointersTyped' /\ ReaderInv' /\ made' = made /\ CountInv'
  BY DEF Steps
<1>3. \A u \in Threads \ {t} : Items(u)' = Items(u) /\ \A d : Item(u, d)' = Item(u, d)
  BY <1>2, SameCall
<1>4. ASSUME NEW z \in Objects, NEW T, t \notin T, KnownTo(z, T) PROVE KnownTo(z, T)'
  <2>1. ~Told(t, z)
    BY <1>4 DEF KnownTo, Told, Held
  <2>2. ~Told(t, z)'
    BY <2>1 DEF Steps
  <2>3. \A p \in Pointers : ptr'[p] # z
    BY <2>2 DEF Told, Held
  <2>4. \A u \in Threads : \A k \in DOMAIN group'[u] : group'[u][k] # z
    BY <2>2 DEF Told, Held
  <2>5. \A d \in Items(t)' : ~Names(Item(t, d), z)'
    BY <2>2 DEF Told
  <2>6. \A u \in Threads \ {t} : \A d : Names(Item(u, d), z)' <=> Names(Item(u, d), z)
    BY <1>3 DEF Names
  <2>7. \A u \in Threads \ T : \A d \in Items(u)' : ~Names(Item(u, d), z)'
    BY <1>3, <1>4, <2>5, <2>6 DEF KnownTo
  <2> QED
    BY <2>3, <2>4, <2>7 DEF KnownTo
<1>5. ASSUME NEW u \in Threads \ {t}, NEW z \in Objects, New(z, u) PROVE New(z, u)'
  <2>1. z \in made \ gone /\ KnownTo(z, {u})
    BY <1>5 DEF New
  <2>2. ~(\E d \in Items(t) : Names(Item(t, d), z))
    BY <2>1 DEF KnownTo
  <2>3. z \notin gone'
    BY <2>1, <2>2 DEF Steps
  <2>4. KnownTo(z, {u})'
    BY <1>4, <2>1
  <2> QED
    BY <1>2, <1>5, <2>3, <2>4, NewKept
<1>6. ASSUME NEW u \in Threads \ {t} PROVE ShapeOf(u)' /\ StoreOf(u)' /\ OldOf(u)' /\ SourceOf(u)'
  <2>1. \A v \in Threads \ {t} : group'[v] = group[v] /\ \A j \in Slots[v] \cup {"ko"} : ptr'[<<v, j>>] = ptr[<<v, j>>]
    BY DEF Steps
  <2>2. reads[u] = Null => \A x \in Datas : ptr'[<<x, "link">>] = ptr[<<x, "link">>]
    <3>1. reads[u] = Null => reads[t] # Null
      BY <1>1 DEF ReaderInv
    <3> QED
      BY <3>1 DEF Steps
  <2> QED
    BY <1>1, <1>2, <1>5, <2>1, <2>2, OthersKept
<1>7. CallInv'
  BY <1>6 DEF CallInv, Steps
<1>8. UnmadeInv'
  <2> SUFFICES ASSUME NEW z \in Objects \ made
      PROVE  KnownTo(z, {})' /\ (z \in Datas => ptr'[<<z, "link">>] = Null)
    BY <1>2 DEF UnmadeInv
  <2>1. KnownTo(z, {}) /\ (z \in Datas => ptr[<<z, "link">>] = Null)
    BY <1>1 DEF UnmadeInv
  <2>2. z \in Datas => ptr'[<<z, "link">>] = ptr[<<z, "link">>]
    BY DEF Steps
  <2> QED
    BY <1>4, <2>1, <2>2
<1>9. MadeInv'
  <2> SUFFICES ASSUME NEW z \in made \ gone', counts'[z] = 0 PROVE \E u \in Threads : New(z, u)'
    BY <1>2 DEF MadeInv
  <2>1. counts[z] = 0 /\ ~New(z, t) /\ z \in made \ gone /\ z \in Objects
    BY <1>1 DEF Steps, PointersTyped
  <2>2. PICK u \in Threads : New(z, u)
    BY <1>1, <2>1 DEF MadeInv
  <2> QED
    BY <1>5, <2>1, <2>2
<1> QED
  BY <1>2, <1>7, <1>8, <1>9 DEF RefsInv

\* An object that is new is about to be counted for a pointer.
LEMMA NewIs ==
  ASSUME PointersAssumption, RefsInv, NEW t \in Threads, NEW z \in Objects, New(z, t)
  PROVE  Replaces(t) /\ \E d \in Adding(t) : Item(t, d).o = z
<1>1. ShapeOf(t) /\ SourceOf(t) /\ ReaderInv
  BY DEF RefsInv, CallInv
<1>2. PICK e \in Items(t) : Item(t, e).op = "inc" /\ Item(t, e).o = z
  BY DEF New, Adding
<1>3. /\ \A p \in Pointers : ptr[p] # z
      /\ \A u \in Threads : \A k \in DOMAIN group[u] : group[u][k] # z
  BY DEF New, KnownTo
<1>4. Left(t) \in Nat /\ Items(t) = 0..Left(t) - 1
  BY ItemTypes DEF RefsInv, Items
<1>5. ~OnlyDrops(t)
  BY <1>2 DEF OnlyDrops
<1>6. ~Reopens(t)
  <2> SUFFICES ASSUME Reopens(t) PROVE FALSE
    OBVIOUS
  <2>1. PICK u \in Threads : ptr[<<u, "ko">>] = Item(t, 0).o
    BY <1>1 DEF SourceOf
  <2>2. <<u, "ko">> \in Pointers
    BY PointersAre
  <2>3. e = 0
    <3>1. e = 0 \/ e = 1 \/ (e = 2 /\ Left(t) = 3)
      BY <1>2, <1>4 DEF Reopens
    <3>2. e # 1
      <4>1. e = 1 => Left(t) > 1
        BY <1>4
      <4>2. Left(t) > 1 => Item(t, 1) = [op |-> "store", p |-> <<t, "ko">>, o |-> Item(t, 0).o]
        BY DEF Reopens
      <4>3. Left(t) > 1 => Item(t, 1).op = "store"
        BY <4>2
      <4> QED
        BY <1>2, <4>1, <4>3
    <3>3. Left(t) = 3 => Item(t, 2).op = "dec"
      BY DEF Reopens
    <3> QED
      BY <1>2, <3>1, <3>2, <3>3
  <2> QED
    BY <1>2, <1>3, <2>1, <2>2, <2>3
<1>7. ~Appends(t)
  <2> SUFFICES ASSUME Appends(t) PROVE FALSE
    OBVIOUS
  <2>1. e = 0
    BY <1>2, <1>4 DEF Appends
  <2>2. PICK i \in Slots[t] : ptr[<<t, i>>] = z
    BY <1>1, <1>2, <2>1 DEF SourceOf
  <2>3. <<t, i>> \in Pointers
    BY PointersAre
  <2> QED
    BY <1>3, <2>2, <2>3
<1>8. ASSUME NEW b \in Items(t), Becomes(t, b) PROVE FALSE
  <2>1. Adding(t) # {}
    BY <1>2 DEF Adding
  <2>2. PICK v \in Threads : v = reads[t] /\ Item(t, b).s = group[v]
    BY <1>1, <1>8, <2>1 DEF SourceOf
  <2>3. e \in 0..b - 1 => Item(t, e).op = "dec"
    BY <1>8 DEF Becomes
  <2>4. e # b
    BY <1>2, <1>8 DEF Becomes
  <2>5. b \in Nat /\ e \in b + 1..Left(t) - 1
    BY <1>2, <1>4, <2>3, <2>4
  <2>6. /\ Left(t) - 1 - b <= Len(Item(t, b).s)
        /\ \A d \in b + 1..Left(t) - 1 : Item(t, d) = [op |-> "inc", o |-> Item(t, b).s[Len(Item(t, b).s) + 1 + b - d]]
    BY <1>2, <1>8, <2>5 DEF Becomes
  <2>7. group[v] \in Seq(Datas)
    BY DEF RefsInv, PointersTyped
  <2>8. z = group[v][Len(group[v]) + 1 + b - e]
    BY <1>2, <2>2, <2>5, <2>6
  <2>9. Len(group[v]) + 1 + b - e \in 1..Len(group[v])
    BY <1>4, <2>2, <2>5, <2>6, <2>7
  <2> QED
    BY <1>3, <2>7, <2>8, <2>9
<1> QED
  BY <1>1, <1>5, <1>6, <1>7, <1>8 DEF ShapeOf, New

-----------------------------------------------------------------------------

\* T is S and one more.
OneMore(S, T) == \E x : x \notin S /\ T = S \cup {x}

\* A set with one more element.
LEMMA Grows ==
  ASSUME NEW S, NEW T, OneMore(S, T)
  PROVE  /\ IsFiniteSet(S) <=> IsFiniteSet(T)
         /\ IsFiniteSet(S) => /\ Cardinality(S) \in Nat /\ Cardinality(T) \in Nat
                              /\ Cardinality(T) = Cardinality(S) + 1
<1>1. PICK x : x \notin S /\ T = S \cup {x}
  BY DEF OneMore
<1>2. IsFiniteSet(T) => IsFiniteSet(S)
  BY <1>1, FS_Subset
<1>3. IsFiniteSet(S) => IsFiniteSet(T) /\ Cardinality(T) = Cardinality(S) + 1
  BY <1>1, FS_AddElement
<1> QED
  BY <1>2, <1>3, FS_CardinalityType

\* All sets but the decrements stay.
Stays(y) ==
  Pointing(y)' = Pointing(y) /\ Grouped(y)' = Grouped(y) /\ Storing(y)' = Storing(y) /\ Joining(y)' = Joining(y)

\* One of them gets one more.
Gains(y) ==
  \/ OneMore(Pointing(y), Pointing(y)') /\ Grouped(y)' = Grouped(y) /\ Storing(y)' = Storing(y) /\ Joining(y)' = Joining(y)
  \/ OneMore(Grouped(y), Grouped(y)') /\ Pointing(y)' = Pointing(y) /\ Storing(y)' = Storing(y) /\ Joining(y)' = Joining(y)
  \/ OneMore(Storing(y), Storing(y)') /\ Pointing(y)' = Pointing(y) /\ Grouped(y)' = Grouped(y) /\ Joining(y)' = Joining(y)
  \/ OneMore(Joining(y), Joining(y)') /\ Pointing(y)' = Pointing(y) /\ Grouped(y)' = Grouped(y) /\ Storing(y)' = Storing(y)

\* The call of t loses its first item.
Loses(t, h) ==
  /\ h \in Items(t) /\ Items(t)' = Items(t) \ {h}
  /\ \A d \in Items(t)' : Item(t, d)' = Item(t, d)
  /\ \A u \in Threads \ {t} : todo'[u] = todo[u]

\* What a call without its first item still stores, makes and names.
LEMMA Lost ==
  ASSUME NEW t \in Threads, NEW h, Loses(t, h)
  PROVE  /\ Item(t, h).op # "store" => \A q : StoresTo(t, q)' <=> StoresTo(t, q)
         /\ Item(t, h).op # "become" => (Becoming(t)' <=> Becoming(t))
         /\ \A d \in Items(t)' : d \in Items(t) /\ \A z : Names(Item(t, d), z)' <=> Names(Item(t, d), z)
         /\ Adding(t)' = Adding(t) \ {h}
         /\ \A z : Told(t, z)' => Held(z)' \/ \E d \in Items(t) : Names(Item(t, d), z)
<1>1. Item(t, h).op # "store" => \A q : StoresTo(t, q)' <=> StoresTo(t, q)
  <2> SUFFICES ASSUME Item(t, h).op # "store", NEW q PROVE StoresTo(t, q)' <=> StoresTo(t, q)
    OBVIOUS
  <2> QED
    BY DEF StoresTo, Loses
<1>2. Item(t, h).op # "become" => (Becoming(t)' <=> Becoming(t))
  BY DEF Becoming, Loses
<1>3. \A d \in Items(t)' : d \in Items(t) /\ \A z : Names(Item(t, d), z)' <=> Names(Item(t, d), z)
  BY DEF Names, Loses
<1>4. Adding(t)' = Adding(t) \ {h}
  BY DEF Adding, Loses
<1>5. \A z : Told(t, z)' => Held(z)' \/ \E d \in Items(t) : Names(Item(t, d), z)
  BY <1>3 DEF Told
<1> QED
  BY <1>1, <1>2, <1>3, <1>4, <1>5

\* It has one decrement less if that was one, and as many otherwise.
LEMMA LostDrops ==
  ASSUME NEW t \in Threads, NEW h \in Nat, Loses(t, h), NEW y
  PROVE  /\ ~(Item(t, h).op = "dec" /\ Item(t, h).o = y) => Dropping(y)' = Dropping(y)
         /\ Item(t, h).op = "dec" /\ Item(t, h).o = y => OneMore(Dropping(y)', Dropping(y))
<1>1. \A x : x[1] # t => (x \in Dropping(y)' <=> x \in Dropping(y))
  BY DroppingOthers DEF Loses
<1>2. \A d : /\ <<t, d>> \in Dropping(y) <=> d \in Nat /\ d \in Items(t) /\ Item(t, d).op = "dec" /\ Item(t, d).o = y
             /\ <<t, d>> \in Dropping(y)' <=> d \in Nat /\ d \in Items(t)' /\ Item(t, d)'.op = "dec" /\ Item(t, d)'.o = y
  BY DEF Dropping
<1>3. \A d : <<t, d>> \in Dropping(y)' <=> <<t, d>> \in Dropping(y) /\ d # h
  BY <1>2 DEF Loses
<1>4. \A x \in Dropping(y) \cup Dropping(y)' : x = <<x[1], x[2]>>
  BY DEF Dropping
<1>5. ASSUME NEW x PROVE x \in Dropping(y)' <=> x \in Dropping(y) /\ x # <<t, h>>
  <2>1. CASE x[1] = t /\ x = <<x[1], x[2]>>
    <3>1. x = <<t, x[2]>> /\ (x = <<t, h>> <=> x[2] = h)
      BY <2>1
    <3> QED
      BY <1>3, <3>1
  <2>2. CASE x[1] # t
    BY <1>1, <2>2
  <2>3. CASE x # <<x[1], x[2]>>
    BY <1>4, <2>3
  <2> QED
    BY <2>1, <2>2, <2>3
<1>6. Dropping(y)' = Dropping(y) \ {<<t, h>>}
  BY <1>5
<1>7. ~(Item(t, h).op = "dec" /\ Item(t, h).o = y) => <<t, h>> \notin Dropping(y)
  BY <1>2
<1>8. Item(t, h).op = "dec" /\ Item(t, h).o = y => <<t, h>> \in Dropping(y)
  BY <1>2 DEF Loses
<1> QED
  BY <1>6, <1>7, <1>8 DEF OneMore

\* The pointers when none is stored.
LEMMA PointingIs ==
  ASSUME NEW t \in Threads, \A u \in Threads \ {t} : todo'[u] = todo[u], ptr' = ptr, made' = made, NEW y,
         \A q \in Pointers : ptr[q] = y => (Live(q)' <=> Live(q)),
         \A q : StoresTo(t, q)' <=> StoresTo(t, q)
  PROVE  /\ (LateHandle(t)' <=> LateHandle(t)) \/ ptr[<<t, "ko">>] # y => Pointing(y)' = Pointing(y)
         /\ LateHandle(t) /\ ~LateHandle(t)' /\ <<t, "ko">> \in Pointers /\ ptr[<<t, "ko">>] = y
               /\ (\A u \in Threads : ~StoresTo(u, <<t, "ko">>))
            => OneMore(Pointing(y), Pointing(y)')
<1>1. \A u \in Threads \ {t} : /\ LateHandle(u)' <=> LateHandle(u)
                               /\ \A q : StoresTo(u, q)' <=> StoresTo(u, q)
  BY SameCall
<1>2. ASSUME NEW q \in Pointers, ptr[q] = y
      PROVE  Counts(q)' <=> /\ Live(q) /\ \A u \in Threads : ~StoresTo(u, q)
                            /\ q[2] = "ko" /\ q[1] \in Threads => ~LateHandle(q[1])'
  <2>1. (\A u \in Threads : ~StoresTo(u, q))' <=> \A u \in Threads : ~StoresTo(u, q)
    BY <1>1
  <2>2. Live(q)' <=> Live(q)
    BY <1>2
  <2>3. (q[2] = "ko" /\ q[1] \in Threads => ~LateHandle(q[1]))' <=> (q[2] = "ko" /\ q[1] \in Threads => ~LateHandle(q[1])')
    OBVIOUS
  <2> QED
    BY <2>1, <2>2, <2>3 DEF Counts
<1>3. ASSUME NEW q \in Pointers, ptr[q] = y,
             (LateHandle(t)' <=> LateHandle(t)) \/ ~(q[1] = t /\ q[2] = "ko") PROVE Counts(q)' <=> Counts(q)
  <2>1. q[1] \in Threads /\ q[2] = "ko" => (LateHandle(q[1])' <=> LateHandle(q[1]))
    BY <1>1, <1>3
  <2> QED
    BY <1>2, <1>3, <2>1 DEF Counts
<1>4. ASSUME (LateHandle(t)' <=> LateHandle(t)) \/ ptr[<<t, "ko">>] # y PROVE Pointing(y)' = Pointing(y)
  <2>1. ASSUME NEW q \in Pointers, ptr[q] = y PROVE Counts(q)' <=> Counts(q)
    <3>1. CASE LateHandle(t)' <=> LateHandle(t)
      BY <1>3, <2>1, <3>1
    <3>2. CASE ~(q[1] = t /\ q[2] = "ko")
      BY <1>3, <2>1, <3>2
    <3>3. CASE (q[1] = t /\ q[2] = "ko") /\ ptr[<<t, "ko">>] # y
      <4>1. q # <<t, "ko">>
        BY <2>1, <3>3
      <4>2. q = <<q[1], q[2]>>
        BY DEF Pointers
      <4> QED
        BY <3>3, <4>1, <4>2
    <3> QED
      BY <1>4, <3>1, <3>2, <3>3
  <2> QED
    BY <2>1 DEF Pointing
<1>5. ASSUME LateHandle(t), ~LateHandle(t)', <<t, "ko">> \in Pointers, ptr[<<t, "ko">>] = y,
             \A u \in Threads : ~StoresTo(u, <<t, "ko">>)
      PROVE  OneMore(Pointing(y), Pointing(y)')
  <2> DEFINE p == <<t, "ko">>
  <2>1. p[1] = t /\ p[2] = "ko"
    OBVIOUS
  <2>2. p \notin Pointing(y)
    BY <1>5, <2>1 DEF Pointing, Counts
  <2>3. Live(p)
    BY <2>1 DEF Live
  <2>4. Counts(p)'
    BY <1>2, <1>5, <2>1, <2>3
  <2>5. ASSUME NEW q \in Pointers, q # p, ptr[q] = y PROVE Counts(q)' <=> Counts(q)
    <3>1. ~(q[1] = t /\ q[2] = "ko")
      <4>1. q = <<q[1], q[2]>>
        BY DEF Pointers
      <4> QED
        BY <2>5, <4>1
    <3> QED
      BY <1>3, <2>5, <3>1
  <2> HIDE DEF p
  <2>6. p \in Pointers /\ ptr'[p] = y
    BY <1>5 DEF p
  <2>7. Pointing(y)' = Pointing(y) \cup {p}
    BY <2>4, <2>5, <2>6 DEF Pointing
  <2> QED
    BY <2>2, <2>7 DEF OneMore
<1> QED
  BY <1>4, <1>5

\* Only what is first in a call is new.
LEMMA NewFirst ==
  ASSUME PointersAssumption, RefsInv, NEW t \in Threads, NEW z \in Objects, New(z, t)
  PROVE  Item(t, Left(t) - 1).op = "inc" /\ Item(t, Left(t) - 1).o = z
<1>1. Replaces(t)
  BY NewIs
<1>2. PICK d \in Items(t) : Item(t, d).op = "inc" /\ Item(t, d).o = z
  BY NewIs DEF Adding
<1>3. Left(t) \in Nat /\ Items(t) = 0..Left(t) - 1
  BY ItemTypes DEF RefsInv, Items
<1>4. d # 0
  BY <1>1, <1>2 DEF Replaces
<1>5. d \in 1..Left(t) - 1
  BY <1>2, <1>3, <1>4
<1>6. d = Left(t) - 1
  BY <1>1, <1>2, <1>5 DEF Replaces
<1> QED
  BY <1>2, <1>6

\* A count goes up.
LEMMA CountsUp ==
  ASSUME RefsInv, NEW o \in Objects, counts' = [counts EXCEPT ![o] = @ + 1], gone' = gone, o \notin gone,
         \A y \in Objects : Dropping(y)' = Dropping(y), \A y \in Objects \ {o} : Stays(y), Gains(o)
  PROVE  CountInv'
<1> SUFFICES ASSUME NEW y \in Objects
    PROVE  /\ Counted(counts'[y], Pointing(y)', Grouped(y)', Dropping(y)', Storing(y)', Joining(y)')
           /\ y \in gone' => counts'[y] = 0
  BY DEF CountInv, Counted
<1> DEFINE P == Pointing(y)
           G == Grouped(y)
           D == Dropping(y)
           S == Storing(y)
           J == Joining(y)
           P2 == Pointing(y)'
           G2 == Grouped(y)'
           S2 == Storing(y)'
           J2 == Joining(y)'
<1>1. /\ IsFiniteSet(P) /\ IsFiniteSet(G) /\ IsFiniteSet(D) /\ IsFiniteSet(S) /\ IsFiniteSet(J)
      /\ counts[y] = Cardinality(P) + Cardinality(G) + Cardinality(D) + Cardinality(S) + Cardinality(J)
      /\ y \in gone => counts[y] = 0
  BY DEF RefsInv, CountInv
<1>2. counts \in [Objects -> Nat]
  BY DEF RefsInv, PointersTyped
<1>3. Dropping(y)' = D
  OBVIOUS
<1>4. CASE y # o
  BY <1>1, <1>2, <1>3, <1>4 DEF Stays, Counted
<1>5. CASE y = o
  <2>1. \/ OneMore(P, P2) /\ G2 = G /\ S2 = S /\ J2 = J
        \/ OneMore(G, G2) /\ P2 = P /\ S2 = S /\ J2 = J
        \/ OneMore(S, S2) /\ P2 = P /\ G2 = G /\ J2 = J
        \/ OneMore(J, J2) /\ P2 = P /\ G2 = G /\ S2 = S
    BY <1>5 DEF Gains
  <2>2. counts'[y] = counts[y] + 1
    BY <1>2, <1>5
  <2>3. /\ Cardinality(P) \in Nat /\ Cardinality(G) \in Nat /\ Cardinality(D) \in Nat
        /\ Cardinality(S) \in Nat /\ Cardinality(J) \in Nat
    BY <1>1, FS_CardinalityType
  <2> HIDE DEF P, G, D, S, J, P2, G2, S2, J2
  <2>4. Counted(counts'[y], P2, G2, D, S2, J2)
    <3>1. CASE OneMore(P, P2) /\ G2 = G /\ S2 = S /\ J2 = J
      <4>1. IsFiniteSet(P2) /\ Cardinality(P2) = Cardinality(P) + 1
        BY <1>1, <3>1, Grows
      <4> QED
        BY <1>1, <2>2, <2>3, <3>1, <4>1 DEF Counted
    <3>2. CASE OneMore(G, G2) /\ P2 = P /\ S2 = S /\ J2 = J
      <4>1. IsFiniteSet(G2) /\ Cardinality(G2) = Cardinality(G) + 1
        BY <1>1, <3>2, Grows
      <4> QED
        BY <1>1, <2>2, <2>3, <3>2, <4>1 DEF Counted
    <3>3. CASE OneMore(S, S2) /\ P2 = P /\ G2 = G /\ J2 = J
      <4>1. IsFiniteSet(S2) /\ Cardinality(S2) = Cardinality(S) + 1
        BY <1>1, <3>3, Grows
      <4> QED
        BY <1>1, <2>2, <2>3, <3>3, <4>1 DEF Counted
    <3>4. CASE OneMore(J, J2) /\ P2 = P /\ G2 = G /\ S2 = S
      <4>1. IsFiniteSet(J2) /\ Cardinality(J2) = Cardinality(J) + 1
        BY <1>1, <3>4, Grows
      <4> QED
        BY <1>1, <2>2, <2>3, <3>4, <4>1 DEF Counted
    <3> QED
      BY <2>1, <3>1, <3>2, <3>3, <3>4
  <2> QED
    BY <1>3, <1>5, <2>4 DEF P2, G2, S2, J2, D
<1> QED
  BY <1>4, <1>5

\* A call that is over.
LEMMA Over ==
  ASSUME NEW t \in Threads, (Items(t) = {})'
  PROVE  ShapeOf(t)' /\ StoreOf(t)' /\ OldOf(t)' /\ SourceOf(t)' /\ Adding(t)' = {}
         /\ ~LateHandle(t)' /\ ~LateMember(t)'
<1>1. OnlyDrops(t)' /\ StoreOf(t)' /\ Adding(t)' = {}
  BY DEF OnlyDrops, StoreOf, Adding
<1>2. ~(Left(t)' \in 1..3) /\ Left(t)' # 1
  <2>1. ~(Left(t)' - 1 \in 0..Left(t)' - 1)
    BY DEF Items
  <2> QED
    BY <2>1
<1>3. ~Replaces(t)' /\ ~Reopens(t)' /\ ~Appends(t)'
  BY <1>2 DEF Replaces, Reopens, Appends
<1>4. ~LateHandle(t)' /\ ~LateMember(t)'
  BY <1>2 DEF LateHandle, LateMember
<1> QED
  BY <1>1, <1>3, <1>4 DEF ShapeOf, OldOf, SourceOf, Becomes

-----------------------------------------------------------------------------
(* Pointers: counting up *)

\* What is left of a call stores what it did.
LEMMA StoreLost ==
  ASSUME RefsInv, NEW t \in Threads, NEW h, Loses(t, h), ptr' = ptr, Items(t)' # {} => reads'[t] = reads[t]
  PROVE  StoreOf(t)'
<1>1. StoreOf(t)
  BY DEF RefsInv, CallInv
<1> SUFFICES ASSUME NEW d \in Items(t)', Item(t, d)'.op = "store"
    PROVE  /\ Item(t, d)'.o # Null => (Item(t, d)'.o \in Kernels <=> Item(t, d)'.p[1] \in Threads /\ Item(t, d)'.p[2] = "ko")
           /\ \/ Item(t, d)'.p \in {t} \X (Slots[t] \cup {"ko"})
              \/ reads'[t] = Null /\ Item(t, d)'.p[1] \in Datas /\ Item(t, d)'.p[2] = "link" /\ \E j \in Slots[t] : ptr'[<<t, j>>] = Item(t, d)'.p[1]
  BY DEF StoreOf
<1>2. d \in Items(t) /\ Item(t, d)' = Item(t, d)
  BY DEF Loses
<1>3. reads'[t] = reads[t]
  OBVIOUS
<1> QED
  BY <1>1, <1>2, <1>3 DEF StoreOf

\* The first item of a call of t, which counts o up, is done.
Increments(t, h, o) ==
  /\ h = Left(t) - 1 /\ h \in Nat /\ h \in Items(t) /\ Loses(t, h) /\ Left(t)' = h
  /\ Item(t, h).op = "inc" /\ Item(t, h).o = o /\ o \in Objects /\ Items(t) = 0..h /\ Items(t)' = 0..h - 1
  /\ UNCHANGED <<made, gone, ptr, group>>
  /\ Items(t)' # {} => reads'[t] = reads[t]

\* Nothing but the counts, and what a call says of itself, changes.
LEMMA Incremented ==
  ASSUME NEW t \in Threads, NEW h, NEW o, Increments(t, h, o), NEW y
  PROVE  /\ (\A q : StoresTo(t, q)' <=> StoresTo(t, q)) /\ (Becoming(t)' <=> Becoming(t))
         /\ ptr[<<t, "ko">>] # y \/ (LateHandle(t)' <=> LateHandle(t)) => Pointing(y)' = Pointing(y)
         /\ (LateMember(t)' <=> LateMember(t)) => Grouped(y)' = Grouped(y)
         /\ ~Becoming(t) => Joining(y)' = Joining(y)
         /\ (t \in Storing(y)' <=> t \in Storing(y)) => Storing(y)' = Storing(y)
<1>1. /\ \A u \in Threads \ {t} : todo'[u] = todo[u]
      /\ UNCHANGED <<made, gone, ptr, group>> /\ Loses(t, h) /\ Item(t, h).op = "inc"
  BY DEF Increments, Loses
<1>2. (\A q : StoresTo(t, q)' <=> StoresTo(t, q)) /\ (Becoming(t)' <=> Becoming(t))
  BY <1>1, Lost
<1>3. \A u \in Threads \ {t} : (Becoming(u)' <=> Becoming(u)) /\ (LateMember(u)' <=> LateMember(u))
  BY <1>1, SameCall
<1>4. \A q \in Pointers : ptr[q] = y => (Live(q)' <=> Live(q))
  BY <1>1 DEF Live
<1>5. ptr[<<t, "ko">>] # y \/ (LateHandle(t)' <=> LateHandle(t)) => Pointing(y)' = Pointing(y)
  BY <1>1, <1>2, <1>4, PointingIs
<1>6. (LateMember(t)' <=> LateMember(t)) => Grouped(y)' = Grouped(y)
  BY <1>1, <1>2, <1>3, GroupedSame
<1>7. ~Becoming(t) => Joining(y)' = Joining(y)
  BY <1>1, <1>2, JoiningSame
<1>8. (t \in Storing(y)' <=> t \in Storing(y)) => Storing(y)' = Storing(y)
  BY <1>1, StoringSame
<1> QED
  BY <1>2, <1>5, <1>6, <1>7, <1>8

\* The new object is counted, and is to be stored.
LEMMA ReplacesIncrements ==
  ASSUME PointersAssumption, RefsInv, NEW t \in Threads, NEW h, NEW o, Increments(t, h, o),
         Replaces(t), h \in 1..2, Adding(t) = {h}, Item(t, 0).o = o, Item(t, 0).op = "store",
         \A d \in Items(t) : d # h /\ d # 0 => Item(t, d).op = "dec"
  PROVE  /\ ShapeOf(t)' /\ StoreOf(t)' /\ OldOf(t)' /\ SourceOf(t)'
         /\ \A y \in Objects \ {o} : Stays(y)
         /\ Gains(o)
<1>1. /\ h = Left(t) - 1 /\ h \in Nat /\ h \in Items(t) /\ Loses(t, h) /\ Left(t)' = h
      /\ Items(t) = 0..h /\ Items(t)' = 0..h - 1 /\ ptr' = ptr /\ (Items(t)' # {} => reads'[t] = reads[t])
      /\ \A d \in Items(t)' : Item(t, d)' = Item(t, d)
  BY DEF Increments, Loses
<1>2. 0 \in Items(t)' /\ Item(t, 0)' = Item(t, 0)
  BY <1>1
<1>3. ~LateHandle(t) /\ ~LateMember(t) /\ ~LateHandle(t)' /\ ~LateMember(t)'
  BY <1>2 DEF LateHandle, LateMember
<1>4. Adding(t)' = {}
  BY <1>1, Lost
<1>5. Replaces(t)'
  <2>1. \A d \in 1..Left(t)' - 1 : Item(t, d)'.op = "dec"
    <3> SUFFICES ASSUME NEW d \in 1..h - 1 PROVE Item(t, d)'.op = "dec"
      BY <1>1
    <3>1. d \in Items(t)' /\ d \in Items(t) /\ d # h /\ d # 0
      BY <1>1
    <3> QED
      BY <1>1, <3>1
  <2>2. Left(t)' \in 1..2
    BY <1>1
  <2>3. Left(t)' # 3
    BY <2>2
  <2> QED
    BY <1>2, <2>1, <2>2, <2>3 DEF Replaces
<1>6. StoreOf(t)'
  BY <1>1, StoreLost
<1>7. ShapeOf(t)' /\ OldOf(t)' /\ SourceOf(t)'
  <2>1. ~Reopens(t)' /\ ~Appends(t)'
    BY <1>2 DEF Reopens, Appends
  <2>2. ShapeOf(t)'
    BY <1>5 DEF ShapeOf
  <2>3. OldOf(t)' /\ SourceOf(t)'
    BY <1>4, <2>1 DEF OldOf, SourceOf
  <2> QED
    BY <2>2, <2>3
<1>8. ~Becoming(t)
  <2>1. ASSUME NEW d \in Items(t), Item(t, d).op = "become" PROVE FALSE
    <3>1. d # h /\ d # 0
      BY <2>1 DEF Increments
    <3> QED
      BY <2>1, <3>1
  <2> QED
    BY <2>1 DEF Becoming
<1>9. ASSUME NEW y \in Objects
      PROVE  /\ t \notin Storing(y)
             /\ t \in Storing(y)' <=> y = o
  <2>1. t \notin Storing(y)
    BY DEF Storing
  <2>2. t \in Storing(y)' => y = o
    <3> SUFFICES ASSUME NEW d \in Items(t)', Item(t, d)'.op = "store", Item(t, d)'.o = y PROVE y = o
      BY DEF Storing
    <3>1. d \in Items(t) /\ d # h /\ Item(t, d).op = "store" /\ Item(t, d).o = y
      BY <1>1
    <3>2. d = 0
      BY <3>1
    <3> QED
      BY <3>1, <3>2
  <2>3. y = o => t \in Storing(y)'
    BY <1>2, <1>4 DEF Storing
  <2> QED
    BY <2>1, <2>2, <2>3
<1>10. \A y \in Objects : Pointing(y)' = Pointing(y) /\ Grouped(y)' = Grouped(y) /\ Joining(y)' = Joining(y)
  BY <1>3, <1>8, Incremented
<1>11. \A y \in Objects \ {o} : Stays(y)
  BY <1>9, <1>10, Incremented DEF Stays
<1>12. Gains(o)
  <2>1. o \in Objects
    BY DEF Increments
  <2>2. \A u \in Threads \ {t} : u \in Storing(o)' <=> u \in Storing(o)
    <3> SUFFICES ASSUME NEW u \in Threads \ {t} PROVE u \in Storing(o)' <=> u \in Storing(o)
      OBVIOUS
    <3>1. Items(u)' = Items(u) /\ Adding(u)' = Adding(u) /\ \A d : Item(u, d)' = Item(u, d)
      BY SameCall DEF Increments, Loses
    <3> QED
      BY <3>1 DEF Storing
  <2>3. Storing(o)' = Storing(o) \cup {t}
    <3>1. Storing(o) \subseteq Threads /\ Storing(o)' \subseteq Threads
      BY DEF Storing
    <3> QED
      BY <1>9, <2>1, <2>2, <3>1
  <2>4. OneMore(Storing(o), Storing(o)')
    BY <1>9, <2>1, <2>3 DEF OneMore
  <2> QED
    BY <1>10, <2>1, <2>4 DEF Gains
<1> QED
  BY <1>6, <1>7, <1>11, <1>12

\* A call of one item does nothing else.
LEMMA LastItem ==
  ASSUME NEW t \in Threads, NEW h, NEW o, Increments(t, h, o), h = 0
  PROVE  /\ Items(t) = {0} /\ Items(t)' = {} /\ Item(t, 0).op = "inc" /\ Item(t, 0).o = o /\ Left(t) = 1
         /\ ~Becoming(t) /\ \A q : ~StoresTo(t, q)
         /\ \A y : t \notin Storing(y) /\ t \notin Storing(y)'
<1>1. Items(t) = {0} /\ Items(t)' = {} /\ Item(t, 0).op = "inc" /\ Item(t, 0).o = o
  BY DEF Increments
<1>2. Left(t) = 1
  <2>1. Left(t) - 1 \in 0..Left(t) - 1 /\ Left(t) - 1 = 0 /\ Left(t)' = 0
    BY DEF Increments
  <2>2. Items(t) = 0..Left(t) - 1
    BY DEF Items
  <2>3. Left(t) = 1
    BY <1>1, <2>1, <2>2 DEF Increments
  <2> QED
    BY <2>3
<1>3. ~Becoming(t) /\ \A q : ~StoresTo(t, q)
  BY <1>1 DEF Becoming, StoresTo
<1>4. \A y : t \notin Storing(y) /\ t \notin Storing(y)'
  BY <1>1 DEF Storing
<1> QED
  BY <1>1, <1>2, <1>3, <1>4

\* The handle that was stored is counted.
LEMMA ReopensIncrements ==
  ASSUME PointersAssumption, RefsInv, NEW t \in Threads, NEW h, NEW o, Increments(t, h, o), Reopens(t), h = 0
  PROVE  /\ ShapeOf(t)' /\ StoreOf(t)' /\ OldOf(t)' /\ SourceOf(t)'
         /\ \A y \in Objects \ {o} : Stays(y)
         /\ Gains(o)
<1>1. /\ Items(t) = {0} /\ Items(t)' = {} /\ Item(t, 0).op = "inc" /\ Item(t, 0).o = o /\ Left(t) = 1
      /\ ~Becoming(t) /\ \A q : ~StoresTo(t, q)
      /\ \A y : t \notin Storing(y) /\ t \notin Storing(y)'
  BY LastItem
<1>2. o \in Kernels /\ ptr[<<t, "ko">>] = o /\ o \in Objects /\ o \notin Datas
  BY <1>1 DEF Reopens, PointersAssumption, Objects
<1>3. LateHandle(t) /\ ~LateMember(t)
  BY <1>1, <1>2 DEF LateHandle, LateMember
<1>4. /\ ShapeOf(t)' /\ StoreOf(t)' /\ OldOf(t)' /\ SourceOf(t)' /\ ~LateHandle(t)' /\ ~LateMember(t)'
  BY <1>1, Over
<1>5. \A y \in Objects : Grouped(y)' = Grouped(y) /\ Joining(y)' = Joining(y) /\ Storing(y)' = Storing(y)
  BY <1>1, <1>3, <1>4, Incremented
<1>6. \A y \in Objects \ {o} : Pointing(y)' = Pointing(y)
  BY <1>2, Incremented
<1>7. OneMore(Pointing(o), Pointing(o)')
  <2>1. <<t, "ko">> \in Pointers
    BY PointersAre
  <2>2. ASSUME NEW u \in Threads, StoresTo(u, <<t, "ko">>) PROVE FALSE
    <3>1. PICK d \in Items(u) : Item(u, d).op = "store" /\ Item(u, d).p = <<t, "ko">>
      BY <2>2 DEF StoresTo
    <3>2. StoreOf(u) /\ t \notin Datas
      BY DEF RefsInv, CallInv, PointersAssumption, Objects
    <3>3. u = t
      BY <3>1, <3>2 DEF StoreOf
    <3> QED
      BY <1>1, <2>2, <3>3
  <2>3. /\ \A u \in Threads \ {t} : todo'[u] = todo[u]
        /\ ptr' = ptr /\ made' = made /\ gone' = gone
    BY DEF Increments, Loses
  <2>4. \A q \in Pointers : ptr[q] = o => (Live(q)' <=> Live(q))
    BY <2>3 DEF Live
  <2>5. \A q : StoresTo(t, q)' <=> StoresTo(t, q)
    BY Incremented
  <2> QED
    BY <1>2, <1>3, <1>4, <2>1, <2>2, <2>3, <2>4, <2>5, PointingIs
<1>8. \A y \in Objects \ {o} : Stays(y)
  BY <1>5, <1>6 DEF Stays
<1>9. Gains(o)
  BY <1>2, <1>5, <1>7 DEF Gains
<1> QED
  BY <1>4, <1>8, <1>9

\* The object that was put in the group is counted.
LEMMA AppendsIncrements ==
  ASSUME PointersAssumption, RefsInv, NEW t \in Threads, NEW h, NEW o, Increments(t, h, o), Appends(t), h = 0
  PROVE  /\ ShapeOf(t)' /\ StoreOf(t)' /\ OldOf(t)' /\ SourceOf(t)'
         /\ \A y \in Objects \ {o} : Stays(y)
         /\ Gains(o)
<1>1. /\ Items(t) = {0} /\ Items(t)' = {} /\ Item(t, 0).op = "inc" /\ Item(t, 0).o = o /\ Left(t) = 1
      /\ ~Becoming(t) /\ \A q : ~StoresTo(t, q)
      /\ \A y : t \notin Storing(y) /\ t \notin Storing(y)'
  BY LastItem
<1>2. o \in Datas /\ o \in Objects /\ o \notin Kernels /\ group[t] # <<>> /\ group[t][Len(group[t])] = o
  BY <1>1 DEF Appends, PointersAssumption, Objects
<1>3. LateMember(t) /\ ~LateHandle(t)
  BY <1>1, <1>2 DEF LateHandle, LateMember
<1>4. /\ ShapeOf(t)' /\ StoreOf(t)' /\ OldOf(t)' /\ SourceOf(t)' /\ ~LateHandle(t)' /\ ~LateMember(t)'
  BY <1>1, Over
<1>5. \A y \in Objects : Pointing(y)' = Pointing(y) /\ Joining(y)' = Joining(y) /\ Storing(y)' = Storing(y)
  BY <1>1, <1>3, <1>4, Incremented
<1>6. PICK n \in Nat \ {0} : n = Len(group[t]) /\ DOMAIN group[t] = 1..n /\ group[t][n] = o
  <2>1. group[t] \in Seq(Datas)
    BY DEF RefsInv, PointersTyped
  <2> QED
    BY <1>2, <2>1
<1>7. group' = group /\ \A u \in Threads \ {t} : todo'[u] = todo[u]
  BY DEF Increments, Loses
<1>8. ~Becoming(t)'
  BY <1>1 DEF Becoming
<1>9. \A y, k : /\ <<t, k>> \in Grouped(y) <=> k \in 1..n /\ group[t][k] = y /\ k # n
                /\ <<t, k>> \in Grouped(y)' <=> k \in 1..n /\ group[t][k] = y
  <2> TAKE y, k
  <2>1. <<t, k>> \in Grouped(y) <=> k \in 1..n /\ group[t][k] = y /\ k # n
    BY <1>1, <1>3, <1>6 DEF Grouped
  <2>2. <<t, k>> \in Grouped(y)' <=> k \in 1..n /\ group[t][k] = y
    BY <1>4, <1>6, <1>7, <1>8 DEF Grouped
  <2> QED
    BY <2>1, <2>2
<1>10. \A y, x : x[1] # t => (x \in Grouped(y)' <=> x \in Grouped(y))
  BY <1>7, GroupedOthers
<1>11. ASSUME NEW y, NEW x PROVE x \in Grouped(y)' <=> x \in Grouped(y) \/ (y = o /\ x = <<t, n>>)
  <2>1. CASE x[1] = t /\ x = <<x[1], x[2]>>
    <3>1. x = <<t, x[2]>> /\ (x = <<t, n>> <=> x[2] = n)
      BY <2>1
    <3> QED
      BY <1>6, <1>9, <3>1
  <2>2. CASE x[1] # t
    BY <1>10, <2>2
  <2>3. CASE x # <<x[1], x[2]>>
    BY <2>3 DEF Grouped
  <2> QED
    BY <2>1, <2>2, <2>3
<1>12. \A y \in Objects \ {o} : Grouped(y)' = Grouped(y)
  <2> TAKE y \in Objects \ {o}
  <2>1. \A x : x \in Grouped(y)' <=> x \in Grouped(y)
    BY <1>11
  <2> QED
    BY <2>1 DEF Grouped
<1>13. OneMore(Grouped(o), Grouped(o)')
  <2>1. <<t, n>> \notin Grouped(o)
    BY <1>9
  <2>2. Grouped(o)' = Grouped(o) \cup {<<t, n>>}
    BY <1>11
  <2> QED
    BY <2>1, <2>2 DEF OneMore
<1>14. \A y \in Objects \ {o} : Stays(y)
  BY <1>5, <1>12 DEF Stays
<1>15. Gains(o)
  BY <1>2, <1>5, <1>13 DEF Gains
<1> QED
  BY <1>4, <1>14, <1>15

\* One of the group that another one is to become is counted.
LEMMA BecomesIncrements ==
  ASSUME PointersAssumption, RefsInv, NEW t \in Threads, NEW h, NEW o, Increments(t, h, o),
         NEW b \in Items(t), Becomes(t, b), h > b, b \in Nat,
         Left(t) - 1 - b <= Len(Item(t, b).s),
         \A d \in b + 1..Left(t) - 1 : Item(t, d) = [op |-> "inc", o |-> Item(t, b).s[Len(Item(t, b).s) + 1 + b - d]]
  PROVE  /\ ShapeOf(t)' /\ StoreOf(t)' /\ OldOf(t)' /\ SourceOf(t)'
         /\ \A y \in Objects \ {o} : Stays(y)
         /\ Gains(o)
<1> DEFINE s == Item(t, b).s
<1>1. /\ h = Left(t) - 1 /\ h \in Nat /\ h \in Items(t) /\ Loses(t, h) /\ Left(t)' = h
      /\ Items(t) = 0..h /\ Items(t)' = 0..h - 1 /\ ptr' = ptr /\ group' = group
      /\ (Items(t)' # {} => reads'[t] = reads[t])
      /\ \A d \in Items(t)' : Item(t, d)' = Item(t, d)
      /\ \A u \in Threads \ {t} : todo'[u] = todo[u]
      /\ Item(t, h).o = o /\ o \in Objects
  BY DEF Increments, Loses
<1>2. PICK n \in Nat : s \in Seq(Datas) /\ Len(s) = n /\ DOMAIN s = 1..n
  <2>1. Item(t, b) \in CallItems /\ Item(t, b).op = "become"
    BY ItemTypes DEF RefsInv, Becomes
  <2>2. s \in Seq(Datas)
    BY <2>1, ItemKinds
  <2> QED
    BY <2>2
<1>3. b \in Items(t)' /\ Item(t, b)' = Item(t, b) /\ Item(t, b).op = "become"
  BY <1>1 DEF Becomes
<1>4. /\ \A d \in 0..b - 1 : Item(t, d).op = "dec"
      /\ \A d \in b + 1..h : Item(t, d) = [op |-> "inc", o |-> s[n + 1 + b - d]]
      /\ h - b <= n
  <2>1. \A d \in 0..b - 1 : Item(t, d).op = "dec"
    BY DEF Becomes
  <2> QED
    BY <1>1, <1>2, <2>1
<1>5. \A d \in b + 1..h : Item(t, d).op = "inc" /\ Item(t, d).o = s[n + 1 + b - d]
  BY <1>4
<1>6. ASSUME NEW d \in Items(t)
      PROVE  /\ Item(t, d).op # "store"
             /\ Item(t, d).op = "become" => d = b
  <2>1. d \in 0..b - 1 \/ d = b \/ d \in b + 1..h
    BY <1>1
  <2> QED
    BY <1>3, <1>4, <1>5, <2>1
<1>7. ~LateHandle(t) /\ ~LateMember(t) /\ ~LateHandle(t)' /\ ~LateMember(t)'
  <2>1. Left(t) # 1
    BY <1>1
  <2>2. Left(t)' = 1 => b = 0
    BY <1>1
  <2>3. Left(t)' = 1 => Item(t, 0)'.op # "inc"
    BY <1>3, <2>2
  <2> QED
    BY <2>1, <2>3 DEF LateHandle, LateMember
<1>8. StoreOf(t)'
  BY <1>1, StoreLost
<1>9. Becomes(t, b)'
  <2>1. \A d \in 0..b - 1 : Item(t, d)'.op = "dec"
    <3> SUFFICES ASSUME NEW d \in 0..b - 1 PROVE Item(t, d)'.op = "dec"
      OBVIOUS
    <3>1. d \in Items(t)'
      BY <1>1
    <3> QED
      BY <1>1, <1>4, <3>1
  <2>2. Left(t)' - 1 - b <= Len(Item(t, b)'.s)
    BY <1>1, <1>2, <1>3, <1>4
  <2>3. \A d \in b + 1..Left(t)' - 1 : Item(t, d)' = [op |-> "inc", o |-> Item(t, b)'.s[Len(Item(t, b)'.s) + 1 + b - d]]
    <3> SUFFICES ASSUME NEW d \in b + 1..h - 1 PROVE Item(t, d)' = [op |-> "inc", o |-> s[n + 1 + b - d]]
      BY <1>1, <1>2, <1>3
    <3>1. d \in Items(t)' /\ d \in b + 1..h
      BY <1>1
    <3> QED
      BY <1>1, <1>4, <3>1
  <2> QED
    BY <1>3, <2>1, <2>2, <2>3 DEF Becomes
<1>10. ShapeOf(t)' /\ OldOf(t)' /\ SourceOf(t)'
  <2>1. ~Replaces(t)' /\ ~Reopens(t)' /\ ~Appends(t)'
    <3>1. 0 \in Items(t)' /\ Item(t, 0)'.op \in {"dec", "become"}
      <4>1. 0 \in Items(t)'
        BY <1>1, <1>3
      <4>2. b = 0 \/ 0 \in 0..b - 1
        OBVIOUS
      <4> QED
        BY <1>1, <1>3, <1>4, <4>1, <4>2
    <3> QED
      BY <3>1 DEF Replaces, Reopens, Appends
  <2>2. ShapeOf(t)'
    BY <1>3, <1>9 DEF ShapeOf
  <2>3. SourceOf(t)
    BY DEF RefsInv, CallInv
  <2>4. Adding(t) # {}
    <3>1. h \in Adding(t)
      BY <1>1 DEF Increments, Adding
    <3> QED
      BY <3>1
  <2>5. reads[t] \in Threads \ {t} /\ s = group[reads[t]]
    BY <2>3, <2>4 DEF SourceOf
  <2>6. reads'[t] = reads[t]
    BY <1>1, <1>3
  <2>7. \A c \in Items(t)' : Becomes(t, c)' => c = b
    <3> SUFFICES ASSUME NEW c \in Items(t)', Becomes(t, c)' PROVE c = b
      OBVIOUS
    <3>1. Item(t, c)'.op = "become" /\ c \in Items(t)
      BY <1>1 DEF Becomes
    <3> QED
      BY <1>1, <1>6, <3>1
  <2> HIDE DEF s
  <2>8. Item(t, b)'.s = s
    BY <1>3 DEF s
  <2>9. SourceOf(t)'
    BY <1>1, <2>1, <2>5, <2>6, <2>7, <2>8 DEF SourceOf
  <2> QED
    BY <2>1, <2>2, <2>9 DEF OldOf
<1>11. \A y \in Objects : Pointing(y)' = Pointing(y) /\ Grouped(y)' = Grouped(y) /\ Storing(y)' = Storing(y)
  <2>1. \A y : t \notin Storing(y) /\ t \notin Storing(y)'
    BY <1>1, <1>6 DEF Storing
  <2> QED
    BY <1>7, <2>1, Incremented
<1>12. PICK k0 \in 1..n : k0 = n + 1 + b - h /\ s[k0] = o
  <2>1. n + 1 + b - h \in 1..n
    BY <1>1, <1>4
  <2>2. h \in b + 1..h
    BY <1>1
  <2>3. o = s[n + 1 + b - h]
    BY <1>1, <1>5, <2>2
  <2> QED
    BY <2>1, <2>3
<1>13. ASSUME NEW y, NEW k
       PROVE  /\ <<t, k>> \in Joining(y) <=> k \in 1..n /\ s[k] = y /\ n + 1 + b - k >= h + 1
              /\ <<t, k>> \in Joining(y)' <=> k \in 1..n /\ s[k] = y /\ n + 1 + b - k >= h
  <2>1. Left(t) = h + 1
    <3>1. Left(t) \in Nat
      BY ItemTypes DEF RefsInv
    <3> QED
      BY <1>1, <3>1
  <2>2. <<t, k>> \in Joining(y) <=> /\ k \in Nat
                                   /\ \E c \in Items(t) : /\ Item(t, c).op = "become" /\ k \in DOMAIN Item(t, c).s /\ Item(t, c).s[k] = y
                                                          /\ Len(Item(t, c).s) + 1 + c - k >= Left(t)
    BY DEF Joining
  <2>3. <<t, k>> \in Joining(y)' <=> /\ k \in Nat
                                    /\ \E c \in Items(t)' : /\ Item(t, c)'.op = "become" /\ k \in DOMAIN Item(t, c)'.s /\ Item(t, c)'.s[k] = y
                                                           /\ Len(Item(t, c)'.s) + 1 + c - k >= Left(t)'
    BY DEF Joining
  <2>4. \A c \in Items(t)' : c \in Items(t)
    BY <1>1
  <2>5. <<t, k>> \in Joining(y) <=> k \in Nat /\ k \in DOMAIN s /\ s[k] = y /\ Len(s) + 1 + b - k >= Left(t)
    BY <1>3, <1>6, <2>2
  <2>6. <<t, k>> \in Joining(y)' <=> k \in Nat /\ k \in DOMAIN s /\ s[k] = y /\ Len(s) + 1 + b - k >= Left(t)'
    BY <1>1, <1>3, <1>6, <2>3, <2>4
  <2>7. k \in 1..n => k \in Nat
    OBVIOUS
  <2> HIDE DEF s
  <2> QED
    BY <1>1, <1>2, <2>1, <2>5, <2>6, <2>7
<1>14. \A y, x : x[1] # t => (x \in Joining(y)' <=> x \in Joining(y))
  BY <1>1, JoiningOthers
<1>15. ASSUME NEW y, NEW x PROVE x \in Joining(y)' <=> x \in Joining(y) \/ (y = o /\ x = <<t, k0>>)
  <2>1. CASE x[1] = t /\ x = <<x[1], x[2]>>
    <3>1. x = <<t, x[2]>> /\ (x = <<t, k0>> <=> x[2] = k0)
      BY <2>1
    <3>2. ASSUME NEW k \in 1..n PROVE n + 1 + b - k >= h <=> (n + 1 + b - k >= h + 1 \/ k = k0)
      BY <1>1, <1>12
    <3> HIDE DEF s
    <3> QED
      BY <1>12, <1>13, <3>1, <3>2
  <2>2. CASE x[1] # t
    BY <1>14, <2>2
  <2>3. CASE x # <<x[1], x[2]>>
    BY <2>3 DEF Joining
  <2> QED
    BY <2>1, <2>2, <2>3
<1>16. \A y \in Objects \ {o} : Joining(y)' = Joining(y)
  <2> TAKE y \in Objects \ {o}
  <2>1. \A x : x \in Joining(y)' <=> x \in Joining(y)
    BY <1>15
  <2> QED
    BY <2>1 DEF Joining
<1>17. OneMore(Joining(o), Joining(o)')
  <2>1. <<t, k0>> \notin Joining(o)
    BY <1>1, <1>12, <1>13
  <2>2. Joining(o)' = Joining(o) \cup {<<t, k0>>}
    BY <1>15
  <2> QED
    BY <2>1, <2>2 DEF OneMore
<1>18. (\A y \in Objects \ {o} : Stays(y)) /\ Gains(o)
  BY <1>1, <1>11, <1>16, <1>17 DEF Stays, Gains
<1> QED
  BY <1>8, <1>10, <1>18

\* IncRef keeps it, whichever call it is a step of.
LEMMA IncRef_keeps ==
  ASSUME PointersAssumption, RefsInv, NEW t \in Threads, IncRef(t)
  PROVE  RefsInv'
<1>1. Doing(t, "inc") /\ Rest(t, <<>>) /\ UNCHANGED <<made, gone, ptr, group>>
  BY DEF IncRef
<1>2. PICK h : h = Left(t) - 1
  OBVIOUS
<1>3. /\ todo[t] # <<>> /\ \A u \in Threads \ {t} : reads[u] # t
      /\ h \in Items(t) /\ Item(t, h).op = "inc" /\ Head(todo[t]) = Item(t, h)
  BY <1>1, <1>2, Busy
<1>4. /\ Left(t) \in Nat \ {0} /\ Left(t)' = h
      /\ Items(t)' = Items(t) \ {h}
      /\ \A d \in Items(t)' : Item(t, d)' = Item(t, d)
      /\ \A u \in Threads \ {t} : todo'[u] = todo[u] /\ reads'[u] = reads[u]
      /\ todo' \in [Threads -> Seq(CallItems)] /\ reads' \in [Threads -> Threads \cup {Null}]
      /\ (Left(t)' # 0 => reads'[t] = reads[t])
      /\ ReaderInv'
  BY <1>1, <1>2, <1>3, Popped
<1>5. PICK o : o = Item(t, h).o
  OBVIOUS
<1>6. o \in Objects /\ o \in made \ gone /\ counts' = [counts EXCEPT ![o] = @ + 1]
  <2>1. o \in Objects /\ o \in made \ gone
    BY <1>2, <1>3, <1>5, AddedIsThere
  <2> QED
    BY <1>3, <1>5, <2>1 DEF IncRef
<1>7. Loses(t, h)
  BY <1>3, <1>4 DEF Loses
<1>8. Increments(t, h, o)
  <2>1. h \in Nat
    BY <1>2, <1>4
  <2>2. Items(t) = 0..h /\ Items(t)' = 0..h - 1
    BY <1>2, <1>4 DEF Items
  <2>3. Items(t)' # {} => reads'[t] = reads[t]
    BY <1>4, <2>2
  <2> QED
    BY <1>1, <1>2, <1>3, <1>4, <1>5, <1>6, <1>7, <2>1, <2>2, <2>3 DEF Increments
<1>9. /\ ShapeOf(t)' /\ StoreOf(t)' /\ OldOf(t)' /\ SourceOf(t)'
      /\ \A y \in Objects \ {o} : Stays(y)
      /\ Gains(o)
  <2>1. AddsFirst(t, h)
    BY <1>2, <1>3, AddingFirst
  <2>2. CASE Replaces(t) /\ h \in 1..2 /\ Adding(t) = {h} /\ Item(t, h).o = Item(t, 0).o /\ Item(t, 0).op = "store"
             /\ \A d \in Items(t) : d # h /\ d # 0 => Item(t, d).op = "dec"
    BY <1>5, <1>8, <2>2, ReplacesIncrements
  <2>3. CASE Reopens(t) /\ Left(t) = 1 /\ h = 0
    BY <1>8, <2>3, ReopensIncrements
  <2>4. CASE Appends(t) /\ Left(t) = 1 /\ h = 0
    BY <1>8, <2>4, AppendsIncrements
  <2>5. ASSUME NEW b \in Items(t), Becomes(t, b), h > b, b \in Nat, Left(t) - 1 - b <= Len(Item(t, b).s),
               \A d \in b + 1..Left(t) - 1 : Item(t, d) = [op |-> "inc", o |-> Item(t, b).s[Len(Item(t, b).s) + 1 + b - d]]
        PROVE  /\ ShapeOf(t)' /\ StoreOf(t)' /\ OldOf(t)' /\ SourceOf(t)'
               /\ \A y \in Objects \ {o} : Stays(y)
               /\ Gains(o)
    BY <1>8, <2>5, BecomesIncrements
  <2> QED
    BY <2>1, <2>2, <2>3, <2>4, <2>5 DEF AddsFirst
<1>10. CountInv'
  <2>1. \A y \in Objects : Dropping(y)' = Dropping(y)
    BY <1>3, <1>7, <1>8, LostDrops DEF Increments
  <2> QED
    BY <1>1, <1>6, <1>9, <2>1, CountsUp
<1>11. PointersTyped'
  BY <1>1, <1>4, <1>6 DEF RefsInv, PointersTyped
<1>12. ASSUME NEW z \in Objects, Told(t, z)' PROVE Told(t, z)
  <2>1. Held(z)' <=> Held(z)
    BY <1>1 DEF Held
  <2> QED
    BY <1>7, <1>12, <2>1, Lost DEF Told
<1>13. ASSUME NEW z \in made \ gone', counts'[z] = 0 PROVE counts[z] = 0 /\ ~New(z, t) /\ z \notin gone
  <2>1. z \in Objects
    BY DEF RefsInv, PointersTyped
  <2>2. counts \in [Objects -> Nat]
    BY DEF RefsInv, PointersTyped
  <2>3. z # o
    BY <1>6, <1>13, <2>2
  <2>4. ~New(z, t)
    BY <1>2, <1>5, <2>1, <2>3, NewFirst
  <2> QED
    BY <1>1, <1>6, <1>13, <2>2, <2>3, <2>4
<1> QED
  <2>1. Steps(t)
    BY <1>1, <1>3, <1>4, <1>9, <1>10, <1>11, <1>12, <1>13 DEF Steps
  <2> QED
    BY <2>1, Stepped

-----------------------------------------------------------------------------
(* Pointers: storing *)

\* Two calls do not store to one pointer.
LEMMA StoresAlone ==
  ASSUME PointersAssumption, RefsInv, NEW t \in Threads, NEW u \in Threads, NEW p, StoresTo(t, p), StoresTo(u, p)
  PROVE  t = u
<1>1. PICK d \in Items(t) : Item(t, d).op = "store" /\ Item(t, d).p = p
  BY DEF StoresTo
<1>2. PICK e \in Items(u) : Item(u, e).op = "store" /\ Item(u, e).p = p
  BY DEF StoresTo
<1>3. StoreOf(t) /\ StoreOf(u) /\ Threads \cap Datas = {}
  BY DEF RefsInv, CallInv, PointersAssumption, Objects
<1>4. p[1] = t \/ (reads[t] = Null /\ p[1] \in Datas)
  BY <1>1, <1>3 DEF StoreOf
<1>5. p[1] = u \/ (reads[u] = Null /\ p[1] \in Datas)
  BY <1>2, <1>3 DEF StoreOf
<1> QED
  BY <1>3, <1>4, <1>5 DEF RefsInv, ReaderInv

\* A call that stores first.
LEMMA StoringFirst ==
  ASSUME PointersAssumption, RefsInv, NEW t \in Threads, NEW h, h = Left(t) - 1, h \in Items(t), Item(t, h).op = "store"
  PROVE  \/ Replaces(t) /\ h = 0 /\ Items(t) = {0} /\ Left(t) = 1
         \/ Reopens(t) /\ h = 1 /\ Items(t) = {0, 1} /\ Left(t) = 2
<1>1. ShapeOf(t)
  BY DEF RefsInv, CallInv
<1>2. Left(t) \in Nat /\ Items(t) = 0..Left(t) - 1
  BY ItemTypes DEF RefsInv, Items
<1>3. ~OnlyDrops(t)
  BY DEF OnlyDrops
<1>4. CASE Replaces(t)
  <2>1. h \in 1..Left(t) - 1 => Item(t, h).op # "store"
    BY <1>4 DEF Replaces
  <2>2. h = 0
    BY <1>2, <2>1
  <2>3. Left(t) = 1
    BY <1>2, <2>2
  <2> QED
    BY <1>2, <1>4, <2>2, <2>3
<1>5. CASE Reopens(t)
  <2>1. Left(t) \in 1..3 /\ Left(t) # 1 /\ Left(t) # 3
    <3>1. Left(t) = 1 => h = 0
      BY <1>2
    <3>2. Left(t) = 3 => h = 2
      BY <1>2
    <3> QED
      BY <1>5, <3>1, <3>2 DEF Reopens
  <2>2. Left(t) = 2
    BY <2>1
  <2>3. h = 1 /\ Items(t) = {0, 1}
    BY <1>2, <2>2
  <2> QED
    BY <1>5, <2>2, <2>3
<1>6. ~Appends(t)
  <2>1. Appends(t) => h = 0
    BY <1>2 DEF Appends
  <2> QED
    BY <2>1 DEF Appends
<1>7. ASSUME NEW b \in Items(t), Becomes(t, b) PROVE FALSE
  <2>1. h \in 0..b - 1 => Item(t, h).op # "store"
    BY <1>7 DEF Becomes
  <2>2. h \in b + 1..Left(t) - 1 => Item(t, h).op # "store"
    BY <1>7 DEF Becomes
  <2>3. h # b
    BY <1>7 DEF Becomes
  <2> QED
    BY <1>2, <2>1, <2>2, <2>3
<1> QED
  BY <1>1, <1>3, <1>4, <1>5, <1>6, <1>7 DEF ShapeOf

\* The first item of a call of t, which stores o to p, is done.
Stores(t, h, p, o) ==
  /\ h = Left(t) - 1 /\ h \in Nat /\ h \in Items(t) /\ Loses(t, h) /\ Left(t)' = h
  /\ Item(t, h).op = "store" /\ Item(t, h).p = p /\ Item(t, h).o = o
  /\ p \in Pointers /\ o \in Objects \cup {Null} /\ Items(t)' = 0..h - 1
  /\ ptr' = [ptr EXCEPT ![p] = o]
  /\ UNCHANGED <<counts, made, gone, group>>
  /\ Items(t)' # {} => reads'[t] = reads[t]

\* Where it stores.
LEMMA StoresWhere ==
  ASSUME PointersAssumption, RefsInv, NEW t \in Threads, NEW h, NEW p, NEW o, Stores(t, h, p, o)
  PROVE  /\ ptr'[p] = o /\ \A q \in Pointers : q # p => ptr'[q] = ptr[q]
         /\ ptr' \in [Pointers -> Objects \cup {Null}]
         /\ StoresTo(t, p) /\ \A q : StoresTo(t, q) => q = p
         /\ \A q : ~StoresTo(t, q)'
         /\ \A u \in Threads \ {t} : ~StoresTo(u, p)
         /\ o # Null => (o \in Kernels <=> p[1] \in Threads /\ p[2] = "ko")
         /\ \/ p[1] = t /\ p \in {t} \X (Slots[t] \cup {"ko"})
            \/ reads[t] = Null /\ p[1] \in Datas /\ p[2] = "link" /\ \E j \in Slots[t] : ptr[<<t, j>>] = p[1]
<1>1. /\ Loses(t, h) /\ h \in Items(t) /\ Item(t, h).op = "store" /\ Item(t, h).p = p /\ Item(t, h).o = o
      /\ p \in Pointers /\ ptr' = [ptr EXCEPT ![p] = o] /\ o \in Objects \cup {Null}
  BY DEF Stores
<1>2. ptr \in [Pointers -> Objects \cup {Null}]
  BY DEF RefsInv, PointersTyped
<1>3. ptr'[p] = o /\ (\A q \in Pointers : q # p => ptr'[q] = ptr[q]) /\ ptr' \in [Pointers -> Objects \cup {Null}]
  BY <1>1, <1>2
<1>4. \A d \in Items(t) : Item(t, d).op = "store" => d = h
  BY <1>1, StoresOnce
<1>5. StoresTo(t, p) /\ \A q : StoresTo(t, q) => q = p
  BY <1>1, <1>4 DEF StoresTo
<1>6. \A q : ~StoresTo(t, q)'
  <2> SUFFICES ASSUME NEW d \in Items(t)', Item(t, d)'.op = "store" PROVE FALSE
    BY DEF StoresTo
  <2>1. d \in Items(t) /\ d # h /\ Item(t, d).op = "store"
    BY <1>1 DEF Loses
  <2> QED
    BY <1>4, <2>1
<1>7. \A u \in Threads \ {t} : ~StoresTo(u, p)
  BY <1>5, StoresAlone
<1>8. StoreOf(t)
  BY DEF RefsInv, CallInv
<1>9. o # Null => (o \in Kernels <=> p[1] \in Threads /\ p[2] = "ko")
  BY <1>1, <1>8 DEF StoreOf
<1>10. \/ p \in {t} \X (Slots[t] \cup {"ko"})
       \/ reads[t] = Null /\ p[1] \in Datas /\ p[2] = "link" /\ \E j \in Slots[t] : ptr[<<t, j>>] = p[1]
  BY <1>1, <1>8 DEF StoreOf
<1> QED
  BY <1>3, <1>5, <1>6, <1>7, <1>9, <1>10

\* The pointer counts when it is stored, unless it is a handle to be counted late.
LEMMA StoredCounts ==
  ASSUME PointersAssumption, RefsInv, NEW t \in Threads, NEW h, NEW p, NEW o, Stores(t, h, p, o), NEW y \in Objects,
         ~LateHandle(t), LateHandle(t)' => p = <<t, "ko">>
  PROVE  Pointing(y)' = IF y = o /\ ~LateHandle(t)' THEN Pointing(y) \cup {p} ELSE Pointing(y)
<1>1. /\ ptr'[p] = o /\ \A q \in Pointers : q # p => ptr'[q] = ptr[q]
      /\ StoresTo(t, p) /\ \A q : StoresTo(t, q) => q = p
      /\ \A q : ~StoresTo(t, q)'
      /\ \A u \in Threads \ {t} : ~StoresTo(u, p)
      /\ \/ p[1] = t /\ p \in {t} \X (Slots[t] \cup {"ko"})
         \/ reads[t] = Null /\ p[1] \in Datas /\ p[2] = "link" /\ \E j \in Slots[t] : ptr[<<t, j>>] = p[1]
  BY StoresWhere
<1>2. made' = made /\ gone' = gone /\ p \in Pointers /\ \A u \in Threads \ {t} : todo'[u] = todo[u]
  BY DEF Stores, Loses
<1>3. \A u \in Threads \ {t} : /\ LateHandle(u)' <=> LateHandle(u)
                               /\ \A q : StoresTo(u, q)' <=> StoresTo(u, q)
  BY <1>2, SameCall
<1>4. \A q : Live(q)' <=> Live(q)
  BY <1>2 DEF Live
<1>5. ASSUME NEW q \in Pointers, q # p PROVE Counts(q)' <=> Counts(q)
  <2>1. \A u \in Threads : StoresTo(u, q)' <=> StoresTo(u, q)
    BY <1>1, <1>3, <1>5
  <2>2. q[1] \in Threads /\ q[2] = "ko" => (LateHandle(q[1])' <=> LateHandle(q[1]))
    <3> SUFFICES ASSUME q[1] \in Threads, q[2] = "ko" PROVE LateHandle(q[1])' <=> LateHandle(q[1])
      OBVIOUS
    <3>1. CASE q[1] # t
      BY <1>3, <3>1
    <3>2. CASE q[1] = t
      <4>1. q = <<t, "ko">>
        <5>1. q = <<q[1], q[2]>>
          BY DEF Pointers
        <5> QED
          BY <3>2, <5>1
      <4> QED
        BY <1>5, <3>2, <4>1
    <3> QED
      BY <3>1, <3>2
  <2> QED
    BY <1>4, <2>1, <2>2 DEF Counts
<1>6. p \notin Pointing(y)
  BY <1>1 DEF Pointing, Counts
<1>7. Live(p)
  <2>1. CASE p[1] = t
    BY <2>1 DEF Live
  <2>2. CASE p[1] \in Datas /\ p[2] = "link" /\ \E j \in Slots[t] : ptr[<<t, j>>] = p[1]
    <3>1. PICK x \in Datas, j \in Slots[t] : x = p[1] /\ ptr[<<t, j>>] = x
      BY <2>2
    <3>2. x \notin Threads /\ x # Null /\ j # "ko"
      BY DEF PointersAssumption, Objects
    <3>3. <<t, j>> # p
      BY <3>1, <3>2
    <3>4. ~StoresTo(t, <<t, j>>)
      BY <1>1, <3>3
    <3>5. <<t, j>> \in Pointing(x) /\ <<t, j>> \in Pointers
      BY <3>1, <3>2, <3>4, OwnCounts, PointersAre
    <3>6. x \in made \ gone
      BY <3>2, <3>5, PointedIsThere
    <3> QED
      BY <3>1, <3>6 DEF Live
  <2> QED
    BY <1>1, <2>1, <2>2
<1>8. ~LateHandle(t)' => Counts(p)'
  <2>1. \A u \in Threads : ~StoresTo(u, p)'
    BY <1>1, <1>3
  <2>2. p[1] \in Threads => p[1] = t
    BY <1>1 DEF PointersAssumption, Objects
  <2> QED
    BY <1>4, <1>7, <2>1, <2>2 DEF Counts
<1>9. LateHandle(t)' => ~Counts(p)'
  BY DEF Counts
<1>10. ASSUME NEW q \in Pointers
       PROVE q \in Pointing(y)' <=> q \in Pointing(y) \/ (q = p /\ y = o /\ ~LateHandle(t)')
  <2>1. CASE q = p
    BY <1>1, <1>6, <1>8, <1>9, <2>1 DEF Pointing
  <2>2. CASE q # p
    BY <1>1, <1>5, <2>2 DEF Pointing
  <2> QED
    BY <2>1, <2>2
<1>11. Pointing(y) \subseteq Pointers /\ Pointing(y)' \subseteq Pointers
  BY DEF Pointing, Pointers
<1> QED
  BY <1>2, <1>10, <1>11

\* One that was to be stored is pointed to.
LEMMA CountsMove ==
  ASSUME RefsInv, NEW y \in Objects, counts' = counts, gone' = gone,
         \/ Pointing(y)' = Pointing(y) /\ Storing(y)' = Storing(y)
         \/ OneMore(Pointing(y), Pointing(y)') /\ OneMore(Storing(y)', Storing(y)),
         Grouped(y)' = Grouped(y), Dropping(y)' = Dropping(y), Joining(y)' = Joining(y)
  PROVE  /\ Counted(counts'[y], Pointing(y)', Grouped(y)', Dropping(y)', Storing(y)', Joining(y)')
         /\ y \in gone' => counts'[y] = 0
<1> DEFINE P == Pointing(y)
           G == Grouped(y)
           D == Dropping(y)
           S == Storing(y)
           J == Joining(y)
           P2 == Pointing(y)'
           S2 == Storing(y)'
<1>1. /\ IsFiniteSet(P) /\ IsFiniteSet(G) /\ IsFiniteSet(D) /\ IsFiniteSet(S) /\ IsFiniteSet(J)
      /\ counts[y] = Cardinality(P) + Cardinality(G) + Cardinality(D) + Cardinality(S) + Cardinality(J)
      /\ y \in gone => counts[y] = 0
  BY DEF RefsInv, CountInv
<1>2. /\ (P2 = P /\ S2 = S) \/ (OneMore(P, P2) /\ OneMore(S2, S))
      /\ Grouped(y)' = G /\ Dropping(y)' = D /\ Joining(y)' = J
  OBVIOUS
<1>3. /\ Cardinality(P) \in Nat /\ Cardinality(G) \in Nat /\ Cardinality(D) \in Nat
      /\ Cardinality(S) \in Nat /\ Cardinality(J) \in Nat
  BY <1>1, FS_CardinalityType
<1> HIDE DEF P, G, D, S, J, P2, S2
<1>4. Counted(counts[y], P2, G, D, S2, J)
  <2>1. CASE P2 = P /\ S2 = S
    BY <1>1, <2>1 DEF Counted
  <2>2. CASE OneMore(P, P2) /\ OneMore(S2, S)
    <3>1. IsFiniteSet(P2) /\ Cardinality(P2) = Cardinality(P) + 1
      BY <1>1, <2>2, Grows
    <3>2. IsFiniteSet(S2) /\ Cardinality(S2) \in Nat /\ Cardinality(S) = Cardinality(S2) + 1
      BY <1>1, <2>2, Grows
    <3> QED
      BY <1>1, <1>3, <3>1, <3>2 DEF Counted
  <2> QED
    BY <1>2, <2>1, <2>2
<1> QED
  BY <1>1, <1>2, <1>4 DEF P2, S2

\* What follows from a pointer's being stored, whatever the call.
LEMMA StoredSame ==
  ASSUME PointersAssumption, RefsInv, NEW t \in Threads, NEW h, NEW p, NEW o, Stores(t, h, p, o), NEW y \in Objects
  PROVE  /\ Dropping(y)' = Dropping(y)
         /\ ~Becoming(t) => Joining(y)' = Joining(y)
         /\ ~Becoming(t) /\ ~LateMember(t) /\ ~LateMember(t)' => Grouped(y)' = Grouped(y)
<1>1. /\ Loses(t, h) /\ h \in Nat /\ Item(t, h).op = "store" /\ group' = group
      /\ \A u \in Threads \ {t} : todo'[u] = todo[u]
  BY DEF Stores, Loses
<1>2. Dropping(y)' = Dropping(y)
  BY <1>1, LostDrops
<1>3. Becoming(t)' <=> Becoming(t)
  BY <1>1, Lost
<1>4. ~Becoming(t) => Joining(y)' = Joining(y)
  BY <1>1, <1>3, JoiningSame
<1>5. \A u \in Threads \ {t} : (Becoming(u)' <=> Becoming(u)) /\ (LateMember(u)' <=> LateMember(u))
  BY <1>1, SameCall
<1>6. ~Becoming(t) /\ ~LateMember(t) /\ ~LateMember(t)' => Grouped(y)' = Grouped(y)
  BY <1>1, <1>3, <1>5, GroupedSame
<1> QED
  BY <1>2, <1>4, <1>6

\* po_data: the pointer is stored last.
LEMMA ReplacesStores ==
  ASSUME PointersAssumption, RefsInv, NEW t \in Threads, NEW h, NEW p, NEW o, Stores(t, h, p, o),
         Replaces(t), h = 0, Items(t) = {0}, Left(t) = 1
  PROVE  /\ ShapeOf(t)' /\ StoreOf(t)' /\ OldOf(t)' /\ SourceOf(t)'
         /\ CountInv'
<1>1. /\ Items(t)' = {} /\ Item(t, 0).op = "store" /\ Item(t, 0).o = o /\ Loses(t, 0)
      /\ counts' = counts /\ gone' = gone /\ \A u \in Threads \ {t} : todo'[u] = todo[u]
  BY DEF Stores, Loses
<1>2. /\ ShapeOf(t)' /\ StoreOf(t)' /\ OldOf(t)' /\ SourceOf(t)' /\ ~LateHandle(t)' /\ ~LateMember(t)'
  BY <1>1, Over
<1>3. ~LateHandle(t) /\ ~LateMember(t) /\ ~Becoming(t) /\ Adding(t) = {}
  BY <1>1 DEF LateHandle, LateMember, Becoming, Adding
<1>4. CountInv'
  <2> SUFFICES ASSUME NEW y \in Objects
      PROVE  /\ Counted(counts'[y], Pointing(y)', Grouped(y)', Dropping(y)', Storing(y)', Joining(y)')
             /\ y \in gone' => counts'[y] = 0
    BY DEF CountInv, Counted
  <2>1. /\ Grouped(y)' = Grouped(y) /\ Dropping(y)' = Dropping(y) /\ Joining(y)' = Joining(y)
    BY <1>2, <1>3, StoredSame
  <2>2. Pointing(y)' = IF y = o THEN Pointing(y) \cup {p} ELSE Pointing(y)
    BY <1>2, <1>3, StoredCounts
  <2>3. p \notin Pointing(y)
    <3>1. StoresTo(t, p)
      BY StoresWhere
    <3> QED
      BY <3>1 DEF Pointing, Counts
  <2>4. t \notin Storing(y)' /\ (t \in Storing(y) <=> y = o)
    BY <1>1, <1>3 DEF Storing
  <2>5. CASE y # o
    <3>1. Storing(y)' = Storing(y)
      BY <1>1, <2>4, <2>5, StoringSame
    <3>2. Pointing(y)' = Pointing(y)
      BY <2>2, <2>5
    <3> QED
      BY <1>1, <2>1, <3>1, <3>2, CountsMove
  <2>6. CASE y = o
    <3>1. OneMore(Pointing(y), Pointing(y)')
      BY <2>2, <2>3, <2>6 DEF OneMore
    <3>2. \A u \in Threads \ {t} : u \in Storing(y)' <=> u \in Storing(y)
      <4> SUFFICES ASSUME NEW u \in Threads \ {t} PROVE u \in Storing(y)' <=> u \in Storing(y)
        OBVIOUS
      <4>1. Items(u)' = Items(u) /\ Adding(u)' = Adding(u) /\ \A d : Item(u, d)' = Item(u, d)
        BY <1>1, SameCall
      <4> QED
        BY <4>1 DEF Storing
    <3>3. Storing(y) = Storing(y)' \cup {t}
      <4>1. Storing(y) \subseteq Threads /\ Storing(y)' \subseteq Threads
        BY DEF Storing
      <4> QED
        BY <2>4, <2>6, <3>2, <4>1
    <3>4. OneMore(Storing(y)', Storing(y))
      BY <2>4, <3>3 DEF OneMore
    <3> QED
      BY <1>1, <2>1, <3>1, <3>4, CountsMove
  <2> QED
    BY <2>5, <2>6
<1> QED
  BY <1>2, <1>4

\* KO_Handle: the handle is stored before it is counted.
LEMMA ReopensStores ==
  ASSUME PointersAssumption, RefsInv, NEW t \in Threads, NEW h, NEW p, NEW o, Stores(t, h, p, o),
         Reopens(t), h = 1, Items(t) = {0, 1}, Left(t) = 2
  PROVE  /\ ShapeOf(t)' /\ StoreOf(t)' /\ OldOf(t)' /\ SourceOf(t)'
         /\ CountInv'
<1>1. /\ Left(t)' = 1 /\ Items(t)' = {0} /\ Item(t, 0)' = Item(t, 0) /\ reads'[t] = reads[t]
      /\ Item(t, 1).op = "store" /\ Item(t, 1).p = p /\ Item(t, 1).o = o
      /\ counts' = counts /\ gone' = gone /\ \A u \in Threads \ {t} : todo'[u] = todo[u]
  <2>1. Items(t)' = {0}
    BY DEF Stores
  <2> QED
    BY <2>1 DEF Stores, Loses
<1>2. /\ Item(t, 0).op = "inc" /\ Item(t, 0).o = o /\ o \in Kernels /\ o \notin Datas /\ p = <<t, "ko">>
  <2>1. /\ Item(t, 0).op = "inc" /\ Item(t, 0).o \in Kernels
        /\ Item(t, 1) = [op |-> "store", p |-> <<t, "ko">>, o |-> Item(t, 0).o]
    BY DEF Reopens
  <2> QED
    BY <1>1, <2>1 DEF PointersAssumption
<1>3. /\ ptr'[p] = o /\ \A q \in Pointers : q # p => ptr'[q] = ptr[q]
  BY StoresWhere
<1>4. LateHandle(t)' /\ ~LateMember(t)' /\ ~LateHandle(t) /\ ~LateMember(t) /\ ~Becoming(t) /\ ~Becoming(t)'
  BY <1>1, <1>2 DEF LateHandle, LateMember, Becoming
<1>5. Reopens(t)'
  BY <1>1, <1>2, <1>3 DEF Reopens
<1>6. ShapeOf(t)' /\ StoreOf(t)' /\ OldOf(t)' /\ SourceOf(t)'
  <2>1. ~Replaces(t)' /\ ~Appends(t)' /\ \A b \in Items(t)' : ~Becomes(t, b)'
    BY <1>1, <1>2 DEF Replaces, Appends, Becomes
  <2>2. ShapeOf(t)' /\ OldOf(t)'
    BY <1>5, <2>1 DEF ShapeOf, OldOf
  <2>3. StoreOf(t)'
    BY <1>1, <1>2 DEF StoreOf
  <2>4. SourceOf(t)
    BY DEF RefsInv, CallInv
  <2>5. PICK v \in Threads \ {t} : v = reads[t] /\ ptr[<<v, "ko">>] = o
    BY <1>2, <2>4 DEF SourceOf
  <2>6. ptr'[<<v, "ko">>] = o
    <3>1. <<v, "ko">> # p /\ <<v, "ko">> \in Pointers
      BY <1>2, PointersAre
    <3> QED
      BY <1>3, <2>5, <3>1
  <2>7. Item(t, 0)'.o = o /\ reads'[t] = v
    BY <1>1, <1>2, <2>5
  <2>8. SourceOf(t)'
    BY <2>1, <2>6, <2>7 DEF SourceOf
  <2> QED
    BY <2>2, <2>3, <2>8
<1>7. CountInv'
  <2> SUFFICES ASSUME NEW y \in Objects
      PROVE  /\ Counted(counts'[y], Pointing(y)', Grouped(y)', Dropping(y)', Storing(y)', Joining(y)')
             /\ y \in gone' => counts'[y] = 0
    BY DEF CountInv, Counted
  <2>1. /\ Grouped(y)' = Grouped(y) /\ Dropping(y)' = Dropping(y) /\ Joining(y)' = Joining(y)
    BY <1>4, StoredSame
  <2>2. Pointing(y)' = Pointing(y)
    BY <1>2, <1>4, StoredCounts
  <2>3. t \notin Storing(y)' /\ t \notin Storing(y)
    <3>1. 0 \in Adding(t) /\ 0 \in Adding(t)'
      BY <1>1, <1>2 DEF Adding
    <3> QED
      BY <3>1 DEF Storing
  <2>4. Storing(y)' = Storing(y)
    BY <1>1, <2>3, StoringSame
  <2> QED
    BY <1>1, <2>1, <2>2, <2>4, CountsMove
<1> QED
  BY <1>6, <1>7

\* The store to a pointer keeps it: the old object is no longer pointed to, the new one is.
LEMMA SetPtr_keeps ==
  ASSUME PointersAssumption, RefsInv, NEW t \in Threads, SetPtr(t)
  PROVE  RefsInv'
<1>1. Doing(t, "store") /\ Rest(t, <<>>) /\ UNCHANGED <<counts, made, gone, group>>
  BY DEF SetPtr
<1>2. PICK h : h = Left(t) - 1
  OBVIOUS
<1>3. /\ todo[t] # <<>> /\ \A u \in Threads \ {t} : reads[u] # t
      /\ h \in Items(t) /\ Item(t, h).op = "store" /\ Head(todo[t]) = Item(t, h)
  BY <1>1, <1>2, Busy
<1>4. /\ Left(t) \in Nat \ {0} /\ Left(t)' = h
      /\ Items(t)' = Items(t) \ {h}
      /\ \A d \in Items(t)' : Item(t, d)' = Item(t, d)
      /\ \A u \in Threads \ {t} : todo'[u] = todo[u] /\ reads'[u] = reads[u]
      /\ todo' \in [Threads -> Seq(CallItems)] /\ reads' \in [Threads -> Threads \cup {Null}]
      /\ (Left(t)' # 0 => reads'[t] = reads[t])
      /\ ReaderInv'
  BY <1>1, <1>2, <1>3, Popped
<1>5. PICK p, o : p = Item(t, h).p /\ o = Item(t, h).o
  OBVIOUS
<1>6. p \in Pointers /\ o \in Objects \cup {Null}
  <2>1. Item(t, h) \in CallItems
    BY <1>3, ItemTypes DEF RefsInv
  <2> QED
    BY <1>3, <1>5, <2>1, ItemKinds
<1>7. Loses(t, h)
  BY <1>3, <1>4 DEF Loses
<1>8. Stores(t, h, p, o)
  <2>1. h \in Nat
    BY <1>2, <1>4
  <2>2. Items(t)' = 0..h - 1
    BY <1>4 DEF Items
  <2>3. Items(t)' # {} => reads'[t] = reads[t]
    BY <1>4, <2>2
  <2>4. ptr' = [ptr EXCEPT ![p] = o]
    BY <1>3, <1>5 DEF SetPtr
  <2> QED
    BY <1>1, <1>2, <1>3, <1>4, <1>5, <1>6, <1>7, <2>1, <2>2, <2>3, <2>4 DEF Stores
<1>9. ShapeOf(t)' /\ StoreOf(t)' /\ OldOf(t)' /\ SourceOf(t)' /\ CountInv'
  <2>1. \/ Replaces(t) /\ h = 0 /\ Items(t) = {0} /\ Left(t) = 1
        \/ Reopens(t) /\ h = 1 /\ Items(t) = {0, 1} /\ Left(t) = 2
    BY <1>2, <1>3, StoringFirst
  <2> QED
    BY <1>8, <2>1, ReplacesStores, ReopensStores
<1>10. /\ ptr'[p] = o /\ \A q \in Pointers : q # p => ptr'[q] = ptr[q]
       /\ ptr' \in [Pointers -> Objects \cup {Null}]
       /\ o # Null => (o \in Kernels <=> p[1] \in Threads /\ p[2] = "ko")
       /\ \/ p[1] = t /\ p \in {t} \X (Slots[t] \cup {"ko"})
          \/ reads[t] = Null /\ p[1] \in Datas /\ p[2] = "link" /\ \E j \in Slots[t] : ptr[<<t, j>>] = p[1]
  BY SMTT(30), <1>8, StoresWhere
<1>11. PointersTyped'
  <2>1. PointersTyped
    BY DEF RefsInv
  <2>2. \A q \in Pointers : ptr'[q] # Null => (ptr'[q] \in Kernels <=> q[1] \in Threads /\ q[2] = "ko")
    BY <1>10, <2>1 DEF PointersTyped
  <2> QED
    BY <1>1, <1>4, <1>10, <2>1, <2>2 DEF PointersTyped
<1>12. ASSUME NEW z \in Objects, Told(t, z)' PROVE Told(t, z)
  <2>1. Held(z)' => Held(z) \/ z = o
    BY <1>1, <1>10 DEF Held
  <2>2. Names(Item(t, h), o)
    BY <1>3, <1>5 DEF Names
  <2> QED
    BY <1>3, <1>7, <1>12, <2>1, <2>2, Lost DEF Told
<1>13. \A z \in Objects : ~New(z, t)
  BY <1>2, <1>3, NewFirst
<1>14. \A u \in Threads \ {t} : \A j \in Slots[u] \cup {"ko"} : ptr'[<<u, j>>] = ptr[<<u, j>>]
  <2> SUFFICES ASSUME NEW u \in Threads \ {t}, NEW j \in Slots[u] \cup {"ko"} PROVE ptr'[<<u, j>>] = ptr[<<u, j>>]
    OBVIOUS
  <2>1. <<u, j>> \in Pointers /\ u \notin Datas
    BY PointersAre DEF PointersAssumption, Objects
  <2>2. <<u, j>> # p
    BY <1>10, <2>1
  <2> QED
    BY <1>10, <2>1, <2>2
<1>15. ASSUME NEW x \in Datas, reads[t] # Null \/ x \notin made PROVE ptr'[<<x, "link">>] = ptr[<<x, "link">>]
  <2>1. <<x, "link">> \in Pointers /\ x \notin Threads
    BY PointersAre DEF PointersAssumption, Objects
  <2>2. <<x, "link">> # p
    <3> SUFFICES ASSUME p = <<x, "link">> PROVE FALSE
      OBVIOUS
    <3>1. p[1] = x
      OBVIOUS
    <3>2. reads[t] = Null /\ \E j \in Slots[t] : ptr[<<t, j>>] = x
      BY <1>10, <2>1, <3>1
    <3>3. PICK j \in Slots[t] : ptr[<<t, j>>] = x
      BY <3>2
    <3>4. <<t, j>> \in Pointers /\ x \in Objects
      BY PointersAre DEF Objects
    <3> QED
      BY <1>15, <3>2, <3>3, <3>4, NamedIsMade
  <2> QED
    BY <1>10, <2>1, <2>2
<1>16. made \subseteq Objects
  BY DEF RefsInv, PointersTyped
<1> QED
  <2>1. Steps(t)
    BY <1>1, <1>3, <1>4, <1>9, <1>11, <1>12, <1>13, <1>14, <1>15, <1>16 DEF Steps
  <2> QED
    BY <2>1, Stepped

\* A call that sets a group first has but decrements after that.
LEMMA BecomingFirst ==
  ASSUME PointersAssumption, RefsInv, NEW t \in Threads, NEW h, h = Left(t) - 1, h \in Items(t), Item(t, h).op = "become"
  PROVE  Becomes(t, h)
<1>1. ShapeOf(t)
  BY DEF RefsInv, CallInv
<1>2. Left(t) \in Nat /\ Items(t) = 0..Left(t) - 1
  BY ItemTypes DEF RefsInv, Items
<1>3. ~OnlyDrops(t)
  BY DEF OnlyDrops
<1>4. ~Replaces(t)
  <2> SUFFICES ASSUME Replaces(t) PROVE FALSE
    OBVIOUS
  <2>1. h = 0 \/ h \in 1..Left(t) - 1
    BY <1>2
  <2> QED
    BY <2>1 DEF Replaces
<1>5. ~Reopens(t)
  <2> SUFFICES ASSUME Reopens(t) PROVE FALSE
    OBVIOUS
  <2>1. (h = 0 /\ Left(t) = 1) \/ (h = 1 /\ Left(t) = 2) \/ (h = 2 /\ Left(t) = 3)
    BY <1>2 DEF Reopens
  <2>2. Left(t) = 2 => Left(t) > 1
    BY <1>2
  <2> QED
    BY <2>1, <2>2 DEF Reopens
<1>6. ~Appends(t)
  <2>1. Appends(t) => h = 0
    BY <1>2 DEF Appends
  <2> QED
    BY <2>1 DEF Appends
<1>7. ASSUME NEW b \in Items(t), Becomes(t, b) PROVE b = h
  <2>1. h \in b + 1..Left(t) - 1 => Item(t, h).op # "become"
    BY <1>7 DEF Becomes
  <2>2. h \in 0..b - 1 => Item(t, h).op # "become"
    BY <1>7 DEF Becomes
  <2> QED
    BY <1>2, <2>1, <2>2
<1> QED
  BY <1>1, <1>3, <1>4, <1>5, <1>6, <1>7 DEF ShapeOf

\* Elements of one set move to another.
LEMMA Hands ==
  ASSUME NEW S, NEW T, NEW M, IsFiniteSet(S), IsFiniteSet(T), M \subseteq S, M \cap T = {}
  PROVE  /\ IsFiniteSet(S \ M) /\ IsFiniteSet(T \cup M)
         /\ Cardinality(S) \in Nat /\ Cardinality(T) \in Nat
         /\ Cardinality(S \ M) \in Nat /\ Cardinality(T \cup M) \in Nat
         /\ Cardinality(S \ M) + Cardinality(T \cup M) = Cardinality(S) + Cardinality(T)
<1>1. IsFiniteSet(M) /\ IsFiniteSet(S \ M)
  BY FS_Subset
<1>2. IsFiniteSet(T \cup M) /\ Cardinality(T \cup M) = Cardinality(T) + Cardinality(M) - Cardinality(T \cap M)
  BY <1>1, FS_Union
<1>3. Cardinality(S) = Cardinality(S \ M) + Cardinality(M) - Cardinality((S \ M) \cap M)
  <2>1. (S \ M) \cup M = S
    OBVIOUS
  <2> QED
    BY <1>1, <2>1, FS_Union
<1>4. Cardinality({}) = 0
  BY FS_EmptySet
<1>5. T \cap M = {} /\ (S \ M) \cap M = {}
  OBVIOUS
<1>6. /\ Cardinality(S) \in Nat /\ Cardinality(T) \in Nat /\ Cardinality(M) \in Nat
      /\ Cardinality(S \ M) \in Nat /\ Cardinality(T \cup M) \in Nat
  BY <1>1, <1>2, FS_CardinalityType
<1>7. Cardinality(T \cup M) = Cardinality(T) + Cardinality(M)
  <2>1. Cardinality(T \cap M) = 0
    BY <1>4, <1>5
  <2> QED
    BY <1>2, <1>6, <2>1
<1>8. Cardinality(S) = Cardinality(S \ M) + Cardinality(M)
  <2>1. Cardinality((S \ M) \cap M) = 0
    BY <1>4, <1>5
  <2> QED
    BY <1>3, <1>6, <2>1
<1> QED
  BY <1>1, <1>2, <1>6, <1>7, <1>8

\* The places a group is to have are places of the group.
LEMMA GroupSet ==
  ASSUME PointersAssumption, RefsInv, NEW t \in Threads, NEW h \in Nat, NEW s, Becomes(t, h), Item(t, h).s = s,
         Items(t) = 0..h, Left(t) = h + 1, Loses(t, h), Items(t)' = 0..h - 1, Left(t)' = h,
         group' = [group EXCEPT ![t] = s], NEW y
  PROVE  \E M : M \subseteq Joining(y) /\ M \cap Grouped(y) = {}
              /\ Joining(y)' = Joining(y) \ M /\ Grouped(y)' = Grouped(y) \cup M
<1>1. Item(t, h).op = "become" /\ \A d \in 0..h - 1 : Item(t, d).op = "dec" /\ Item(t, d)' = Item(t, d)
  BY DEF Becomes, Loses
<1>2. PICK n \in Nat : s \in Seq(Datas) /\ Len(s) = n /\ DOMAIN s = 1..n
  <2>1. Item(t, h) \in CallItems
    BY ItemTypes DEF RefsInv
  <2>2. s \in Seq(Datas)
    BY <1>1, <2>1, ItemKinds
  <2> QED
    BY <2>2
<1>3. group'[t] = s /\ \A u \in Threads \ {t} : group'[u] = group[u] /\ todo'[u] = todo[u]
  BY DEF RefsInv, PointersTyped, Loses
<1>4. Becoming(t) /\ ~Becoming(t)' /\ ~LateMember(t)'
  <2>1. Becoming(t)
    BY <1>1 DEF Becoming
  <2>2. ~Becoming(t)'
    BY <1>1 DEF Becoming
  <2>3. Left(t)' = 1 => 0 \in 0..h - 1
    OBVIOUS
  <2>4. ~LateMember(t)'
    BY <1>1, <2>3 DEF LateMember
  <2> QED
    BY <2>1, <2>2, <2>4
<1>5. \A c \in 0..h : Item(t, c).op = "become" => c = h
  BY <1>1
<1>6. ASSUME NEW k
      PROVE  /\ <<t, k>> \in Joining(y) <=> k \in 1..n /\ s[k] = y
             /\ <<t, k>> \notin Joining(y)'
             /\ <<t, k>> \notin Grouped(y)
             /\ <<t, k>> \in Grouped(y)' <=> k \in 1..n /\ s[k] = y
  <2>1. <<t, k>> \in Joining(y) <=> /\ k \in Nat
                                   /\ \E c \in Items(t) : /\ Item(t, c).op = "become" /\ k \in DOMAIN Item(t, c).s /\ Item(t, c).s[k] = y
                                                          /\ Len(Item(t, c).s) + 1 + c - k >= Left(t)
    BY DEF Joining
  <2>2. <<t, k>> \in Joining(y) <=> k \in Nat /\ k \in 1..n /\ s[k] = y /\ n + 1 + h - k >= h + 1
    <3>1. <<t, k>> \in Joining(y) <=> /\ k \in Nat /\ k \in DOMAIN Item(t, h).s /\ Item(t, h).s[k] = y
                                      /\ Len(Item(t, h).s) + 1 + h - k >= Left(t)
      <4>1. h \in Items(t)
        OBVIOUS
      <4> QED
        BY <1>1, <1>5, <2>1, <4>1
    <3> QED
      BY <1>2, <3>1
  <2>3. k \in 1..n => k \in Nat /\ n + 1 + h - k >= h + 1
    OBVIOUS
  <2>4. <<t, k>> \notin Joining(y)'
    <3>1. <<t, k>> \in Joining(y)' => \E c \in Items(t)' : Item(t, c)'.op = "become"
      BY DEF Joining
    <3> QED
      BY <1>1, <3>1
  <2>5. <<t, k>> \notin Grouped(y)
    BY <1>4 DEF Grouped
  <2>6. <<t, k>> \in Grouped(y)' <=> k \in Nat /\ k \in 1..n /\ s[k] = y
    BY <1>2, <1>3, <1>4 DEF Grouped
  <2> QED
    BY <2>2, <2>3, <2>4, <2>5, <2>6
<1>7. \A x : x[1] # t => (x \in Joining(y)' <=> x \in Joining(y)) /\ (x \in Grouped(y)' <=> x \in Grouped(y))
  BY <1>3, JoiningOthers, GroupedOthers
<1> DEFINE M == {x \in Joining(y) : x[1] = t}
<1>8. ASSUME NEW x
      PROVE  /\ x \in Joining(y)' <=> x \in Joining(y) /\ x \notin M
             /\ x \in Grouped(y)' <=> x \in Grouped(y) \/ x \in M
             /\ ~(x \in M /\ x \in Grouped(y))
  <2>1. CASE x[1] = t /\ x = <<x[1], x[2]>>
    <3>1. x = <<t, x[2]>>
      BY <2>1
    <3>2. x \in M <=> x \in Joining(y)
      BY <2>1
    <3> QED
      BY <1>6, <3>1, <3>2
  <2>2. CASE x[1] # t
    BY <1>7, <2>2
  <2>3. CASE x # <<x[1], x[2]>>
    BY <2>3 DEF Joining, Grouped
  <2> QED
    BY <2>1, <2>2, <2>3
<1>9. M \subseteq Joining(y) /\ M \cap Grouped(y) = {}
  BY <1>8
<1>10. Joining(y)' = Joining(y) \ M /\ Grouped(y)' = Grouped(y) \cup M
  <2> HIDE DEF M
  <2> QED
    BY <1>8 DEF Joining, Grouped
<1> HIDE DEF M
<1> QED
  BY <1>9, <1>10

\* Only decrements are left.
LEMMA DropsOnly ==
  ASSUME NEW t \in Threads, (\A d \in Items(t) : Item(t, d).op = "dec")', Left(t)' \in Nat
  PROVE  /\ ShapeOf(t)' /\ StoreOf(t)' /\ OldOf(t)' /\ SourceOf(t)'
         /\ ~LateHandle(t)' /\ ~LateMember(t)' /\ ~Becoming(t)' /\ Adding(t)' = {}
         /\ \A q : ~StoresTo(t, q)'
<1>1. Items(t)' = 0..Left(t)' - 1
  BY DEF Items
<1>2. OnlyDrops(t)' /\ ShapeOf(t)' /\ StoreOf(t)' /\ Adding(t)' = {} /\ ~Becoming(t)' /\ \A q : ~StoresTo(t, q)'
  BY DEF OnlyDrops, ShapeOf, StoreOf, Adding, Becoming, StoresTo
<1>3. Left(t)' \in 1..3 => Item(t, 0)'.op = "dec"
  BY <1>1
<1>4. ~Replaces(t)' /\ ~Reopens(t)' /\ ~Appends(t)' /\ ~LateHandle(t)' /\ ~LateMember(t)'
  BY <1>3 DEF Replaces, Reopens, Appends, LateHandle, LateMember
<1>5. \A b \in Items(t)' : ~Becomes(t, b)'
  BY DEF Becomes
<1> QED
  BY <1>2, <1>4, <1>5 DEF OldOf, SourceOf

\* The group that becomes another one keeps it: the places to come are now places.
LEMMA SetGroup_keeps ==
  ASSUME PointersAssumption, RefsInv, NEW t \in Threads, SetGroup(t)
  PROVE  RefsInv'
<1>1. Doing(t, "become") /\ Rest(t, <<>>) /\ UNCHANGED <<counts, made, gone, ptr>>
  BY DEF SetGroup
<1>2. PICK h : h = Left(t) - 1
  OBVIOUS
<1>3. /\ todo[t] # <<>> /\ \A u \in Threads \ {t} : reads[u] # t
      /\ h \in Items(t) /\ Item(t, h).op = "become" /\ Head(todo[t]) = Item(t, h)
  BY <1>1, <1>2, Busy
<1>4. /\ Left(t) \in Nat \ {0} /\ Left(t)' = h
      /\ Items(t)' = Items(t) \ {h}
      /\ \A d \in Items(t)' : Item(t, d)' = Item(t, d)
      /\ \A u \in Threads \ {t} : todo'[u] = todo[u] /\ reads'[u] = reads[u]
      /\ todo' \in [Threads -> Seq(CallItems)] /\ reads' \in [Threads -> Threads \cup {Null}]
      /\ ReaderInv'
  BY <1>1, <1>2, <1>3, Popped
<1>5. PICK s : s = Item(t, h).s
  OBVIOUS
<1>6. s \in Seq(Datas)
  <2>1. Item(t, h) \in CallItems
    BY <1>3, ItemTypes DEF RefsInv
  <2> QED
    BY <1>3, <1>5, <2>1, ItemKinds
<1>7. Loses(t, h)
  BY <1>3, <1>4 DEF Loses
<1>8. h \in Nat /\ Items(t) = 0..h /\ Items(t)' = 0..h - 1 /\ Left(t) = h + 1
  BY <1>2, <1>4 DEF Items
<1>9. group' = [group EXCEPT ![t] = s]
  BY <1>3, <1>5 DEF SetGroup
<1>10. Becomes(t, h)
  BY <1>2, <1>3, BecomingFirst
<1>11. \A d \in 0..h - 1 : Item(t, d).op = "dec" /\ Item(t, d)' = Item(t, d)
  BY <1>4, <1>8, <1>10 DEF Becomes
<1>12. /\ ShapeOf(t)' /\ StoreOf(t)' /\ OldOf(t)' /\ SourceOf(t)'
       /\ ~LateHandle(t)' /\ ~LateMember(t)' /\ ~Becoming(t)' /\ Adding(t)' = {}
       /\ \A q : ~StoresTo(t, q)'
  <2>1. (\A d \in Items(t) : Item(t, d).op = "dec")'
    BY <1>8, <1>11
  <2> QED
    BY <1>4, <1>8, <2>1, DropsOnly
<1>13. /\ ~LateHandle(t) /\ ~LateMember(t) /\ \A q : ~StoresTo(t, q)
       /\ \A y : t \notin Storing(y)' /\ t \notin Storing(y)
  <2>1. \A d \in Items(t) : Item(t, d).op # "store"
    BY <1>3, <1>8, <1>11
  <2>2. Left(t) = 1 => Item(t, 0).op # "inc"
    BY <1>3, <1>8
  <2>3. \A d \in Items(t)' : Item(t, d)'.op # "store"
    BY <1>8, <1>11
  <2> QED
    BY <2>1, <2>2, <2>3 DEF LateHandle, LateMember, StoresTo, Storing
<1>14. CountInv'
  <2> SUFFICES ASSUME NEW y \in Objects
      PROVE  /\ Counted(counts'[y], Pointing(y)', Grouped(y)', Dropping(y)', Storing(y)', Joining(y)')
             /\ y \in gone' => counts'[y] = 0
    BY DEF CountInv, Counted
  <2>1. Dropping(y)' = Dropping(y)
    BY <1>3, <1>7, <1>8, LostDrops
  <2>2. Pointing(y)' = Pointing(y)
    <3>1. \A q \in Pointers : ptr[q] = y => (Live(q)' <=> Live(q))
      BY <1>1 DEF Live
    <3>2. \A q : StoresTo(t, q)' <=> StoresTo(t, q)
      BY <1>12, <1>13
    <3> QED
      BY <1>1, <1>4, <1>12, <1>13, <3>1, <3>2, PointingIs
  <2>3. Storing(y)' = Storing(y)
    BY <1>4, <1>13, StoringSame
  <2>4. PICK M : M \subseteq Joining(y) /\ M \cap Grouped(y) = {}
              /\ Joining(y)' = Joining(y) \ M /\ Grouped(y)' = Grouped(y) \cup M
    BY <1>4, <1>5, <1>7, <1>8, <1>9, <1>10, GroupSet
  <2> DEFINE P == Pointing(y)
             G == Grouped(y)
             D == Dropping(y)
             S == Storing(y)
             J == Joining(y)
  <2>5. /\ IsFiniteSet(P) /\ IsFiniteSet(G) /\ IsFiniteSet(D) /\ IsFiniteSet(S) /\ IsFiniteSet(J)
        /\ counts[y] = Cardinality(P) + Cardinality(G) + Cardinality(D) + Cardinality(S) + Cardinality(J)
        /\ y \in gone => counts[y] = 0
    BY DEF RefsInv, CountInv
  <2> HIDE DEF P, G, D, S, J
  <2>6. M \subseteq J /\ M \cap G = {}
    BY <2>4 DEF J, G
  <2>7. /\ IsFiniteSet(J \ M) /\ IsFiniteSet(G \cup M)
        /\ Cardinality(J) \in Nat /\ Cardinality(G) \in Nat
        /\ Cardinality(J \ M) \in Nat /\ Cardinality(G \cup M) \in Nat
        /\ Cardinality(J \ M) + Cardinality(G \cup M) = Cardinality(J) + Cardinality(G)
    BY <2>5, <2>6, Hands
  <2>8. Cardinality(P) \in Nat /\ Cardinality(D) \in Nat /\ Cardinality(S) \in Nat
    BY <2>5, FS_CardinalityType
  <2>9. counts[y] = Cardinality(P) + Cardinality(G \cup M) + Cardinality(D) + Cardinality(S) + Cardinality(J \ M)
    BY <2>5, <2>7, <2>8
  <2>10. Counted(counts[y], P, G \cup M, D, S, J \ M)
    BY <2>5, <2>7, <2>9 DEF Counted
  <2>11. counts'[y] = counts[y] /\ gone' = gone
    BY <1>1
  <2>12. Pointing(y)' = P /\ Grouped(y)' = G \cup M /\ Dropping(y)' = D /\ Storing(y)' = S /\ Joining(y)' = J \ M
    BY <2>1, <2>2, <2>3, <2>4 DEF P, G, D, S, J
  <2> QED
    BY <2>5, <2>10, <2>11, <2>12
<1>15. PointersTyped'
  BY <1>1, <1>4, <1>6, <1>9 DEF RefsInv, PointersTyped
<1>16. group'[t] = s /\ \A u \in Threads \ {t} : group'[u] = group[u]
  BY <1>9 DEF RefsInv, PointersTyped
<1>17. ASSUME NEW z \in Objects, Told(t, z)' PROVE Told(t, z)
  <2>1. Held(z)' => Held(z) \/ \E k \in DOMAIN s : s[k] = z
    BY <1>1, <1>16 DEF Held
  <2>2. (\E k \in DOMAIN s : s[k] = z) => Names(Item(t, h), z)
    BY <1>3, <1>5 DEF Names
  <2> QED
    BY <1>3, <1>7, <1>17, <2>1, <2>2, Lost DEF Told
<1>18. \A z \in Objects : ~New(z, t)
  BY <1>2, <1>3, NewFirst
<1>19. made \subseteq Objects
  BY DEF RefsInv, PointersTyped
<1> QED
  <2>1. Steps(t)
    BY <1>1, <1>3, <1>4, <1>12, <1>14, <1>15, <1>16, <1>17, <1>18, <1>19 DEF Steps
  <2> QED
    BY <2>1, Stepped

-----------------------------------------------------------------------------
(* Pointers: counting down *)

\* A call that counts down first.
DropsFirst(t, h) ==
  \/ OnlyDrops(t)
  \/ Replaces(t) /\ h = 1
  \/ Reopens(t) /\ h = 2
  \/ \E b \in Items(t) : /\ b < h /\ Item(t, b) = BecomeItem(<<>>) /\ Becomes(t, b)
                         /\ \A d \in Items(t) \ {b} : Item(t, d).op = "dec"

\* A call that counts down next has one of these shapes.
LEMMA DroppingFirst ==
  ASSUME PointersAssumption, RefsInv, NEW t \in Threads, NEW h, h = Left(t) - 1, h \in Items(t), Item(t, h).op = "dec"
  PROVE  DropsFirst(t, h)
<1>1. ShapeOf(t)
  BY DEF RefsInv, CallInv
<1>2. Left(t) \in Nat /\ Items(t) = 0..Left(t) - 1
  BY ItemTypes DEF RefsInv, Items
<1>3. CASE OnlyDrops(t)
  BY <1>3 DEF DropsFirst
<1>4. CASE Replaces(t)
  <2>1. h # 0
    BY <1>4 DEF Replaces
  <2>2. Left(t) # 3
    <3>1. Left(t) = 3 => h = 2
      BY <1>2
    <3> QED
      BY <1>4, <3>1 DEF Replaces
  <2>3. h = 1
    BY <1>2, <1>4, <2>1, <2>2 DEF Replaces
  <2> QED
    BY <1>4, <2>3 DEF DropsFirst
<1>5. CASE Reopens(t)
  <2>1. h # 0
    BY <1>5 DEF Reopens
  <2>2. h # 1
    <3>1. h = 1 => Left(t) > 1
      BY <1>2
    <3>2. Left(t) > 1 => Item(t, 1) = [op |-> "store", p |-> <<t, "ko">>, o |-> Item(t, 0).o]
      BY <1>5 DEF Reopens
    <3>3. Left(t) > 1 => Item(t, 1).op = "store"
      BY <3>2
    <3> QED
      BY <3>1, <3>3
  <2>3. h = 2
    BY <1>2, <1>5, <2>1, <2>2 DEF Reopens
  <2> QED
    BY <1>5, <2>3 DEF DropsFirst
<1>6. ~Appends(t)
  <2>1. Appends(t) => h = 0
    BY <1>2 DEF Appends
  <2> QED
    BY <2>1 DEF Appends
<1>7. ASSUME NEW b \in Items(t), Becomes(t, b) PROVE DropsFirst(t, h)
  <2>1. CASE b = h
    BY <1>7, <2>1 DEF Becomes
  <2>2. CASE b # h
    <3>1. b < h /\ h \in b + 1..Left(t) - 1
      BY <1>2, <2>2
    <3>2. /\ Item(t, b).op = "become" /\ Item(t, b).s = <<>>
          /\ \A d \in 0..b - 1 : Item(t, d).op = "dec"
          /\ \A d \in b + 1..Left(t) - 1 : Item(t, d).op = "dec"
      BY <1>7, <3>1 DEF Becomes
    <3>3. Item(t, b) = BecomeItem(<<>>)
      <4>1. Item(t, b) \in CallItems
        BY ItemTypes DEF RefsInv
      <4> QED
        BY <3>2, <4>1, ItemKinds
    <3>4. ASSUME NEW d \in Items(t) \ {b} PROVE Item(t, d).op = "dec"
      <4>1. d \in 0..b - 1 \/ d \in b + 1..Left(t) - 1
        BY <1>2
      <4> QED
        BY <3>2, <4>1
    <3> QED
      BY <1>7, <3>1, <3>3, <3>4 DEF DropsFirst
  <2> QED
    BY <2>1, <2>2
<1> QED
  BY <1>1, <1>3, <1>4, <1>5, <1>6, <1>7 DEF ShapeOf

\* The first item of a call of t, which counts o down, is done; another decrement may take its place.
Decrements(t, h, o) ==
  /\ h = Left(t) - 1 /\ h \in Nat /\ h \in Items(t) /\ Item(t, h).op = "dec" /\ Item(t, h).o = o /\ o \in Objects
  /\ Items(t) = 0..h /\ Left(t)' \in {h, h + 1} /\ Items(t)' = 0..Left(t)' - 1
  /\ \A d \in 0..h - 1 : Item(t, d)' = Item(t, d)
  /\ Left(t)' = h + 1 => Item(t, h)'.op = "dec"
  /\ \A u \in Threads \ {t} : todo'[u] = todo[u]
  /\ UNCHANGED <<made, ptr, group>>
  /\ Left(t)' # 0 => reads'[t] = reads[t]

\* The calls stay what they were.
LEMMA Decremented ==
  ASSUME PointersAssumption, RefsInv, NEW t \in Threads, NEW h, NEW o, Decrements(t, h, o)
  PROVE  /\ \A d \in Items(t)' : d \in Items(t) /\ (Item(t, d)' = Item(t, d) \/ (d = h /\ Item(t, d)'.op = "dec"))
         /\ \A d \in Items(t) : Item(t, d).op # "dec" => d \in Items(t)' /\ Item(t, d)' = Item(t, d)
         /\ Adding(t)' = Adding(t) /\ (Becoming(t)' <=> Becoming(t))
         /\ \A q : StoresTo(t, q)' <=> StoresTo(t, q)
<1>1. /\ h \in Nat /\ Item(t, h).op = "dec" /\ Items(t) = 0..h
      /\ Left(t)' \in {h, h + 1} /\ Items(t)' = 0..Left(t)' - 1
      /\ \A d \in 0..h - 1 : Item(t, d)' = Item(t, d)
      /\ Left(t)' = h + 1 => Item(t, h)'.op = "dec"
  BY DEF Decrements
<1>2. ASSUME NEW d \in Items(t)'
      PROVE  d \in Items(t) /\ (Item(t, d)' = Item(t, d) \/ (d = h /\ Item(t, d)'.op = "dec"))
  <2>1. d \in 0..h - 1 \/ (d = h /\ Left(t)' = h + 1)
    BY <1>1
  <2> QED
    BY <1>1, <2>1
<1>3. ASSUME NEW d \in Items(t), Item(t, d).op # "dec" PROVE d \in Items(t)' /\ Item(t, d)' = Item(t, d)
  <2>1. d \in 0..h - 1
    BY <1>1, <1>3
  <2> QED
    BY <1>1, <2>1
<1>4. Adding(t)' = Adding(t)
  <2>1. ASSUME NEW d PROVE d \in Adding(t)' <=> d \in Adding(t)
    <3>1. d \in Adding(t) => d \in Adding(t)'
      BY <1>3 DEF Adding
    <3>2. d \in Adding(t)' => d \in Adding(t)
      BY <1>2 DEF Adding
    <3> QED
      BY <3>1, <3>2
  <2> QED
    BY <2>1 DEF Adding
<1>5. Becoming(t)' <=> Becoming(t)
  BY <1>2, <1>3 DEF Becoming
<1>6. ASSUME NEW q PROVE StoresTo(t, q)' <=> StoresTo(t, q)
  <2>1. StoresTo(t, q) => StoresTo(t, q)'
    BY <1>3 DEF StoresTo
  <2>2. StoresTo(t, q)' => StoresTo(t, q)
    BY <1>2 DEF StoresTo
  <2> QED
    BY <2>1, <2>2
<1> QED
  BY <1>2, <1>3, <1>4, <1>5, <1>6

\* What is left of the call after it, or the link of the object in its place, is such a call again.
LEMMA DecrementedCall ==
  ASSUME PointersAssumption, RefsInv, NEW t \in Threads, NEW h, NEW o, Decrements(t, h, o)
  PROVE  /\ ShapeOf(t)' /\ StoreOf(t)' /\ OldOf(t)' /\ SourceOf(t)'
         /\ ~LateHandle(t) /\ ~LateMember(t) /\ ~LateHandle(t)' /\ ~LateMember(t)'
         /\ \A d \in Items(t) : Item(t, d).op = "become" => Item(t, d) = BecomeItem(<<>>)
<1>1. /\ h = Left(t) - 1 /\ h \in Nat /\ h \in Items(t) /\ Item(t, h).op = "dec" /\ Items(t) = 0..h
      /\ Left(t)' \in {h, h + 1} /\ Items(t)' = 0..Left(t)' - 1
      /\ \A d \in 0..h - 1 : Item(t, d)' = Item(t, d)
      /\ Left(t)' = h + 1 => Item(t, h)'.op = "dec"
      /\ ptr' = ptr /\ group' = group
      /\ Left(t)' # 0 => reads'[t] = reads[t]
  BY DEF Decrements
<1>2. /\ \A d \in Items(t)' : d \in Items(t) /\ (Item(t, d)' = Item(t, d) \/ (d = h /\ Item(t, d)'.op = "dec"))
      /\ \A d \in Items(t) : Item(t, d).op # "dec" => d \in Items(t)' /\ Item(t, d)' = Item(t, d)
      /\ Adding(t)' = Adding(t)
  BY Decremented
<1>3. DropsFirst(t, h)
  BY <1>1, DroppingFirst
<1>4. SourceOf(t) /\ StoreOf(t)
  BY DEF RefsInv, CallInv
<1>5. StoreOf(t)'
  <2> SUFFICES ASSUME NEW d \in Items(t)', Item(t, d)'.op = "store"
      PROVE  /\ Item(t, d)'.o # Null => (Item(t, d)'.o \in Kernels <=> Item(t, d)'.p[1] \in Threads /\ Item(t, d)'.p[2] = "ko")
             /\ \/ Item(t, d)'.p \in {t} \X (Slots[t] \cup {"ko"})
                \/ reads'[t] = Null /\ Item(t, d)'.p[1] \in Datas /\ Item(t, d)'.p[2] = "link" /\ \E j \in Slots[t] : ptr'[<<t, j>>] = Item(t, d)'.p[1]
    BY DEF StoreOf
  <2>1. d \in Items(t) /\ Item(t, d)' = Item(t, d)
    BY <1>2
  <2>2. reads'[t] = reads[t]
    <3>1. Left(t)' # 0
      BY <1>1
    <3> QED
      BY <1>1, <3>1
  <2> QED
    BY <1>1, <1>4, <2>1, <2>2 DEF StoreOf
<1>6. CASE OnlyDrops(t)
  <2>1. (\A d \in Items(t) : Item(t, d).op = "dec")'
    BY <1>2, <1>6 DEF OnlyDrops
  <2>2. Left(t)' \in Nat
    BY <1>1
  <2>3. /\ ShapeOf(t)' /\ OldOf(t)' /\ SourceOf(t)' /\ ~LateHandle(t)' /\ ~LateMember(t)'
    BY <2>1, <2>2, DropsOnly
  <2>4. Left(t) = 1 => Item(t, 0).op = "dec"
    BY <1>1
  <2>5. ~LateHandle(t) /\ ~LateMember(t)
    BY <2>4 DEF LateHandle, LateMember
  <2>6. \A d \in Items(t) : Item(t, d).op # "become"
    BY <1>6 DEF OnlyDrops
  <2> QED
    BY <1>5, <2>3, <2>5, <2>6
<1>7. CASE Replaces(t) /\ h = 1
  <2>1. Item(t, 0).op = "store" /\ 0 \in Items(t) /\ Items(t) = {0, 1} /\ Left(t) = 2
    BY <1>1, <1>7 DEF Replaces
  <2>2. Item(t, 0)' = Item(t, 0) /\ 0 \in Items(t)' /\ Left(t)' \in {1, 2}
    BY <1>1, <1>7, <2>1
  <2>3. Left(t)' = 2 => Item(t, 1)'.op = "dec"
    BY <1>1, <1>7
  <2>4. Adding(t) = {}
    BY <1>1, <1>7, <2>1 DEF Adding
  <2>5. Replaces(t)'
    <3>1. \A d \in 1..Left(t)' - 1 : Item(t, d)'.op = "dec"
      <4> SUFFICES ASSUME NEW d \in 1..Left(t)' - 1 PROVE Item(t, d)'.op = "dec"
        OBVIOUS
      <4>1. d = 1 /\ Left(t)' = 2
        BY <2>2
      <4> QED
        BY <2>3, <4>1
    <3> QED
      BY <2>1, <2>2, <3>1 DEF Replaces
  <2>6. ~Reopens(t)' /\ ~Appends(t)'
    BY <2>1, <2>2 DEF Reopens, Appends
  <2>7. ShapeOf(t)' /\ OldOf(t)' /\ SourceOf(t)'
    BY <1>2, <2>4, <2>5, <2>6 DEF ShapeOf, OldOf, SourceOf
  <2>8. ~LateHandle(t) /\ ~LateMember(t) /\ ~LateHandle(t)' /\ ~LateMember(t)'
    BY <2>1, <2>2 DEF LateHandle, LateMember
  <2>9. \A d \in Items(t) : Item(t, d).op # "become"
    BY <1>1, <1>7, <2>1
  <2> QED
    BY <1>5, <2>7, <2>8, <2>9
<1>8. CASE Reopens(t) /\ h = 2
  <2>1. /\ Item(t, 0).op = "inc" /\ Item(t, 0).o \in Kernels
        /\ Item(t, 1) = [op |-> "store", p |-> <<t, "ko">>, o |-> Item(t, 0).o]
        /\ Left(t) = 3 /\ Items(t) = {0, 1, 2}
    <3>1. Left(t) = 3 /\ Items(t) = {0, 1, 2}
      <4>1. Left(t) \in Nat
        BY ItemTypes DEF RefsInv
      <4> QED
        BY <1>1, <1>8, <4>1
    <3> QED
      BY <1>8, <3>1 DEF Reopens
  <2>2. /\ Item(t, 0)' = Item(t, 0) /\ Item(t, 1)' = Item(t, 1) /\ 0 \in Items(t)' /\ 1 \in Items(t)'
        /\ Left(t)' \in {2, 3} /\ Left(t)' # 1 /\ Left(t)' > 1 /\ Left(t)' \in 1..3
    BY <1>1, <1>8
  <2>3. Left(t)' = 3 => Item(t, 2)'.op = "dec"
    BY <1>1, <1>8
  <2>4. Reopens(t)'
    BY <2>1, <2>2, <2>3 DEF Reopens
  <2>5. Item(t, 1).op = "store"
    BY <2>1
  <2>6. \A d \in Items(t) : Item(t, d).op # "become"
    BY <1>1, <1>8, <2>1, <2>5
  <2>7. \A d \in Items(t)' : Item(t, d)'.op # "become"
    BY <1>2, <2>6
  <2>8. ~Replaces(t)' /\ ~Appends(t)' /\ \A b \in Items(t)' : ~Becomes(t, b)'
    BY <2>1, <2>2, <2>7 DEF Replaces, Appends, Becomes
  <2>9. ShapeOf(t)' /\ OldOf(t)'
    BY <2>4, <2>8 DEF ShapeOf, OldOf
  <2>10. SourceOf(t)'
    <3>1. reads[t] \in Threads \ {t} /\ ptr[<<reads[t], "ko">>] = Item(t, 0).o
      BY <1>4, <1>8 DEF SourceOf
    <3>2. reads'[t] = reads[t]
      BY <1>1, <2>2
    <3> QED
      BY <1>1, <2>2, <2>8, <3>1, <3>2 DEF SourceOf
  <2>11. ~LateHandle(t) /\ ~LateMember(t) /\ ~LateHandle(t)' /\ ~LateMember(t)'
    BY <2>1, <2>2 DEF LateHandle, LateMember
  <2> QED
    BY <1>5, <2>6, <2>9, <2>10, <2>11
<1>9. ASSUME NEW b \in Items(t), b < h, Item(t, b) = BecomeItem(<<>>), Becomes(t, b),
             \A d \in Items(t) \ {b} : Item(t, d).op = "dec"
      PROVE  /\ ShapeOf(t)' /\ StoreOf(t)' /\ OldOf(t)' /\ SourceOf(t)'
             /\ ~LateHandle(t) /\ ~LateMember(t) /\ ~LateHandle(t)' /\ ~LateMember(t)'
             /\ \A d \in Items(t) : Item(t, d).op = "become" => Item(t, d) = BecomeItem(<<>>)
  <2>1. Item(t, b).op = "become" /\ Item(t, b).s = <<>>
    BY <1>9, ItemsTyped DEF BecomeItem
  <2>2. b \in 0..h - 1 /\ b \in Items(t)' /\ Item(t, b)' = Item(t, b)
    BY <1>1, <1>2, <1>9, <2>1
  <2>3. \A d \in Items(t)' \ {b} : Item(t, d)'.op = "dec"
    BY <1>2, <1>9
  <2>4. Becomes(t, b)'
    <3>1. \A d \in 0..b - 1 : Item(t, d)'.op = "dec"
      <4> SUFFICES ASSUME NEW d \in 0..b - 1 PROVE Item(t, d)'.op = "dec"
        OBVIOUS
      <4>1. d \in Items(t)' \ {b}
        BY <1>1, <2>2
      <4> QED
        BY <2>3, <4>1
    <3>2. \A d \in b + 1..Left(t)' - 1 : Item(t, d)'.op = "dec"
      <4> SUFFICES ASSUME NEW d \in b + 1..Left(t)' - 1 PROVE Item(t, d)'.op = "dec"
        OBVIOUS
      <4>1. d \in Items(t)' \ {b}
        BY <1>1, <2>2
      <4> QED
        BY <2>3, <4>1
    <3> QED
      BY <2>1, <2>2, <3>1, <3>2 DEF Becomes
  <2>5. \A d \in Items(t)' : Item(t, d)'.op \in {"dec", "become"}
    BY <2>1, <2>2, <2>3
  <2>6. Left(t)' \in 1..3 => Item(t, 0)'.op \in {"dec", "become"}
    BY <1>1, <2>5
  <2>7. ~Replaces(t)' /\ ~Reopens(t)' /\ ~Appends(t)' /\ ~LateHandle(t)' /\ ~LateMember(t)'
    BY <2>6 DEF Replaces, Reopens, Appends, LateHandle, LateMember
  <2>8. Adding(t)' = {}
    BY <2>5 DEF Adding
  <2>9. ShapeOf(t)' /\ OldOf(t)' /\ SourceOf(t)'
    BY <2>2, <2>4, <2>7, <2>8 DEF ShapeOf, OldOf, SourceOf
  <2>10. ~LateHandle(t) /\ ~LateMember(t)
    <3>1. Left(t) # 1
      BY <1>1, <1>9
    <3> QED
      BY <3>1 DEF LateHandle, LateMember
  <2>11. \A d \in Items(t) : Item(t, d).op = "become" => Item(t, d) = BecomeItem(<<>>)
    BY <1>9
  <2> QED
    BY <1>5, <2>9, <2>7, <2>10, <2>11
<1> QED
  BY <1>3, <1>6, <1>7, <1>8, <1>9 DEF DropsFirst

\* What the object is counted for besides stays, but what its own pointer points to.
LEMMA DecrementedSame ==
  ASSUME PointersAssumption, RefsInv, NEW t \in Threads, NEW h, NEW o, Decrements(t, h, o), NEW y \in Objects
  PROVE  Grouped(y)' = Grouped(y) /\ Storing(y)' = Storing(y) /\ Joining(y)' = Joining(y)
<1>1. /\ \A d \in Items(t)' : d \in Items(t) /\ (Item(t, d)' = Item(t, d) \/ (d = h /\ Item(t, d)'.op = "dec"))
      /\ \A d \in Items(t) : Item(t, d).op # "dec" => d \in Items(t)' /\ Item(t, d)' = Item(t, d)
      /\ Adding(t)' = Adding(t) /\ (Becoming(t)' <=> Becoming(t))
  BY Decremented
<1>2. /\ ~LateMember(t) /\ ~LateMember(t)'
      /\ \A d \in Items(t) : Item(t, d).op = "become" => Item(t, d) = BecomeItem(<<>>)
  BY DecrementedCall
<1>3. group' = group /\ \A u \in Threads \ {t} : todo'[u] = todo[u]
  BY DEF Decrements
<1>4. \A u \in Threads : (Becoming(u)' <=> Becoming(u)) /\ (LateMember(u)' <=> LateMember(u))
  BY <1>1, <1>2, <1>3, SameCall
<1>5. Grouped(y)' = Grouped(y)
  BY <1>3, <1>4, GroupedSame
<1>6. Storing(y)' = Storing(y)
  <2>1. t \in Storing(y) => t \in Storing(y)'
    BY <1>1 DEF Storing
  <2>2. t \in Storing(y)' => t \in Storing(y)
    BY <1>1 DEF Storing
  <2> QED
    BY <1>3, <2>1, <2>2, StoringSame
<1>7. Joining(y)' = Joining(y)
  <2>1. BecomeItem(<<>>).s = <<>>
    BY DEF BecomeItem
  <2>2. \A d \in Items(t) : Item(t, d).op = "become" => Item(t, d).s = <<>>
    BY <1>2, <2>1
  <2>3. \A d \in Items(t)' : Item(t, d)'.op = "become" => Item(t, d)'.s = <<>>
    BY <1>1, <2>2
  <2>4. \A k \in Nat : <<t, k>> \notin Joining(y)
    BY <2>2 DEF Joining
  <2>5. \A k \in Nat : <<t, k>> \notin Joining(y)'
    BY <2>3 DEF Joining
  <2> QED
    BY <1>3, <2>4, <2>5, JoiningNone
<1> QED
  BY <1>5, <1>6, <1>7

\* The last one that counts is a decrement to come: nothing points to the object.
LEMMA LastOne ==
  ASSUME RefsInv, NEW o \in Objects, counts[o] = 1, Dropping(o) # {}
  PROVE  Pointing(o) = {}
<1> DEFINE P == Pointing(o)
           G == Grouped(o)
           D == Dropping(o)
           S == Storing(o)
           J == Joining(o)
<1>1. /\ IsFiniteSet(P) /\ IsFiniteSet(G) /\ IsFiniteSet(D) /\ IsFiniteSet(S) /\ IsFiniteSet(J)
      /\ counts[o] = Cardinality(P) + Cardinality(G) + Cardinality(D) + Cardinality(S) + Cardinality(J)
  BY DEF RefsInv, CountInv
<1>2. D # {} /\ (P = {} => Pointing(o) = {})
  OBVIOUS
<1> HIDE DEF P, G, D, S, J
<1>3. /\ Cardinality(P) \in Nat /\ Cardinality(G) \in Nat /\ Cardinality(D) \in Nat
      /\ Cardinality(S) \in Nat /\ Cardinality(J) \in Nat
  BY <1>1, FS_CardinalityType
<1>4. Cardinality(D) # 0
  BY <1>1, <1>2, FS_EmptySet
<1>5. Cardinality(P) = 0
  BY <1>1, <1>3, <1>4
<1> QED
  BY <1>1, <1>2, <1>5, FS_EmptySet

\* What points, when the object goes or stays.
LEMMA DecrementedPoints ==
  ASSUME PointersAssumption, RefsInv, NEW t \in Threads, NEW h, NEW o, Decrements(t, h, o), NEW y \in Objects
  PROVE  /\ gone' = gone => Pointing(y)' = Pointing(y)
         /\ gone' = gone \cup {o} => Pointing(y)' = Pointing(y) \ {<<o, "link">>}
<1>1. /\ ptr' = ptr /\ made' = made /\ o \in Objects /\ \A u \in Threads \ {t} : todo'[u] = todo[u]
  BY DEF Decrements
<1>2. ~LateHandle(t) /\ ~LateHandle(t)'
  BY DecrementedCall
<1>3. \A u \in Threads : /\ LateHandle(u)' <=> LateHandle(u)
                         /\ \A q : StoresTo(u, q)' <=> StoresTo(u, q)
  BY <1>1, <1>2, SameCall, Decremented
<1>4. \A q : (Live(q)' <=> Live(q)) => (Counts(q)' <=> Counts(q))
  BY <1>3 DEF Counts
<1>5. ASSUME gone' = gone PROVE Pointing(y)' = Pointing(y)
  <2>1. \A q : Live(q)' <=> Live(q)
    BY <1>1, <1>5 DEF Live
  <2> QED
    BY <1>1, <1>4, <2>1 DEF Pointing
<1>6. ASSUME gone' = gone \cup {o} PROVE Pointing(y)' = Pointing(y) \ {<<o, "link">>}
  <2>1. o \notin Threads /\ o # Null
    BY <1>1 DEF PointersAssumption
  <2>2. ASSUME NEW q \in Pointers PROVE q[1] = o => q = <<o, "link">>
    BY <2>1, PointersAre
  <2>3. ASSUME NEW q \in Pointers, q[1] # o PROVE Counts(q)' <=> Counts(q)
    <3>1. Live(q)' <=> Live(q)
      BY <1>1, <1>6, <2>3 DEF Live
    <3> QED
      BY <1>4, <3>1
  <2>4. ASSUME NEW q \in Pointers, q[1] = o PROVE ~Counts(q)'
    <3>1. ~Live(q)'
      BY <1>1, <1>6, <2>1, <2>4 DEF Live
    <3> QED
      BY <3>1 DEF Counts
  <2>5. ASSUME NEW q \in Pointers PROVE q \in Pointing(y)' <=> q \in Pointing(y) /\ q # <<o, "link">>
    <3>1. CASE q[1] = o
      BY <2>2, <2>4, <3>1 DEF Pointing
    <3>2. CASE q[1] # o
      <4>1. q # <<o, "link">>
        BY <3>2
      <4> QED
        BY <1>1, <2>3, <3>2, <4>1 DEF Pointing
    <3> QED
      BY <3>1, <3>2
  <2>6. Pointing(y) \subseteq Pointers /\ Pointing(y)' \subseteq Pointers
    BY DEF Pointing, Pointers
  <2> QED
    BY <2>5, <2>6
<1> QED
  BY <1>5, <1>6

\* The pointer of the object that goes is counted until then.
LEMMA OwnLink ==
  ASSUME PointersAssumption, RefsInv, NEW o \in Datas, o \in made \ gone, Pointing(o) = {},
         NEW x, ptr[<<o, "link">>] = x
  PROVE  <<o, "link">> \in Pointing(x)
<1>1. <<o, "link">> \in Pointers /\ o \notin Threads /\ o # Null
  BY PointersAre DEF PointersAssumption, Objects
<1>2. ASSUME NEW u \in Threads, StoresTo(u, <<o, "link">>) PROVE FALSE
  <2>1. PICK d \in Items(u) : Item(u, d).op = "store" /\ Item(u, d).p = <<o, "link">>
    BY <1>2 DEF StoresTo
  <2>2. StoreOf(u)
    BY DEF RefsInv, CallInv
  <2>3. \E j \in Slots[u] : ptr[<<u, j>>] = o
    BY <1>1, <2>1, <2>2 DEF StoreOf
  <2>4. PICK j \in Slots[u] : ptr[<<u, j>>] = o
    BY <2>3
  <2>5. j # "ko" /\ <<u, j>> # <<o, "link">>
    BY <1>1 DEF PointersAssumption
  <2>6. ~StoresTo(u, <<u, j>>)
    BY <2>1, <2>5, StoresOnce DEF StoresTo
  <2>7. <<u, j>> \in Pointing(o)
    BY <2>4, <2>5, <2>6, OwnCounts
  <2> QED
    BY <2>7
<1>3. Live(<<o, "link">>)
  BY DEF Live
<1> QED
  BY <1>1, <1>2, <1>3 DEF Pointing, Counts

\* What is to be dropped.
LEMMA DecrementedDrops ==
  ASSUME PointersAssumption, RefsInv, NEW t \in Threads, NEW h, NEW o, Decrements(t, h, o), NEW y
  PROVE  /\ <<t, h>> \in Dropping(o)
         /\ Left(t)' = h \/ (Item(t, h)'.o # y) => Dropping(y)' = Dropping(y) \ {<<t, h>>}
         /\ Left(t)' = h + 1 /\ Item(t, h)'.o = y => Dropping(y)' = Dropping(y) \cup {<<t, h>>}
         /\ y # o => <<t, h>> \notin Dropping(y)
<1>1. /\ h \in Nat /\ Item(t, h).op = "dec" /\ Item(t, h).o = o /\ Items(t) = 0..h
      /\ Left(t)' \in {h, h + 1} /\ Items(t)' = 0..Left(t)' - 1
      /\ \A d \in 0..h - 1 : Item(t, d)' = Item(t, d)
      /\ Left(t)' = h + 1 => Item(t, h)'.op = "dec"
      /\ \A u \in Threads \ {t} : todo'[u] = todo[u]
  BY DEF Decrements
<1>2. \A d : /\ <<t, d>> \in Dropping(y) <=> d \in Nat /\ d \in Items(t) /\ Item(t, d).op = "dec" /\ Item(t, d).o = y
             /\ <<t, d>> \in Dropping(y)' <=> d \in Nat /\ d \in Items(t)' /\ Item(t, d)'.op = "dec" /\ Item(t, d)'.o = y
  BY DEF Dropping
<1>3. ASSUME NEW d, d # h PROVE <<t, d>> \in Dropping(y)' <=> <<t, d>> \in Dropping(y)
  <2>1. d \in Items(t) <=> d \in 0..h - 1
    BY <1>1, <1>3
  <2>2. d \in Items(t)' <=> d \in 0..h - 1
    BY <1>1, <1>3
  <2> QED
    BY <1>1, <1>2, <2>1, <2>2
<1>4. <<t, h>> \in Dropping(y)' <=> Left(t)' = h + 1 /\ Item(t, h)'.o = y
  <2>1. h \in Items(t)' <=> Left(t)' = h + 1
    BY <1>1
  <2> QED
    BY <1>1, <1>2, <2>1
<1>5. (y # o => <<t, h>> \notin Dropping(y)) /\ <<t, h>> \in Dropping(o)
  <2>1. y # o => <<t, h>> \notin Dropping(y)
    BY <1>1, <1>2
  <2>2. <<t, h>> \in Dropping(o)
    BY <1>1 DEF Dropping
  <2> QED
    BY <2>1, <2>2
<1>6. \A x : x[1] # t => (x \in Dropping(y)' <=> x \in Dropping(y))
  BY <1>1, DroppingOthers
<1>7. ASSUME NEW x PROVE x # <<t, h>> => (x \in Dropping(y)' <=> x \in Dropping(y))
  <2>1. CASE x[1] = t /\ x = <<x[1], x[2]>>
    <3>1. x = <<t, x[2]>> /\ (x = <<t, h>> <=> x[2] = h)
      BY <2>1
    <3> QED
      BY <1>3, <3>1
  <2>2. CASE x[1] # t
    BY <1>6, <2>2
  <2>3. CASE x # <<x[1], x[2]>>
    BY <2>3 DEF Dropping
  <2> QED
    BY <2>1, <2>2, <2>3
<1>8. Left(t)' = h \/ (Item(t, h)'.o # y) => Dropping(y)' = Dropping(y) \ {<<t, h>>}
  <2> SUFFICES ASSUME <<t, h>> \notin Dropping(y)' PROVE Dropping(y)' = Dropping(y) \ {<<t, h>>}
    BY <1>1, <1>4
  <2> QED
    BY <1>7 DEF Dropping
<1>9. Left(t)' = h + 1 /\ Item(t, h)'.o = y => Dropping(y)' = Dropping(y) \cup {<<t, h>>}
  <2> SUFFICES ASSUME <<t, h>> \in Dropping(y)' PROVE Dropping(y)' = Dropping(y) \cup {<<t, h>>}
    BY <1>4
  <2> QED
    BY <1>7 DEF Dropping
<1> QED
  BY <1>5, <1>8, <1>9

\* What the object points to is let go of after it, or it points to nothing.
LetsGo(t, h, o) ==
  /\ Decrements(t, h, o)
  /\ counts' = [counts EXCEPT ![o] = @ - 1]
  /\ gone' = IF counts[o] = 1 THEN gone \cup {o} ELSE gone
  /\ \/ Left(t)' = h /\ (counts[o] = 1 /\ o \in Datas => ptr[<<o, "link">>] = Null)
     \/ Left(t)' = h + 1 /\ counts[o] = 1 /\ o \in Datas
        /\ ptr[<<o, "link">>] # Null /\ Item(t, h)' = DropItem(ptr[<<o, "link">>])

\* The object that is let go of is there and counted; the last one that counts is this decrement.
LEMMA LetsGoOf ==
  ASSUME PointersAssumption, RefsInv, NEW t \in Threads, NEW h, NEW o, LetsGo(t, h, o)
  PROVE  /\ o \in Objects /\ o \in made \ gone /\ counts[o] \in Nat \ {0} /\ Dropping(o) # {}
         /\ counts[o] = 1 => Pointing(o) = {}
<1>1. Decrements(t, h, o) /\ o \in Objects
  BY DEF LetsGo, Decrements
<1>2. <<t, h>> \in Dropping(o)
  BY <1>1, DecrementedDrops
<1>3. counts[o] > 0 /\ o \notin gone
  BY <1>1, <1>2, CountedIsThere
<1>4. o \in made
  <2>1. h \in Items(t) /\ Names(Item(t, h), o)
    BY <1>1 DEF Decrements, Names
  <2> QED
    BY <1>1, <2>1, NamedIsMade
<1>5. counts[o] \in Nat
  BY <1>1 DEF RefsInv, PointersTyped
<1> QED
  BY <1>1, <1>2, <1>3, <1>4, <1>5, LastOne

\* The counts stay numbers of holders when one is let go of.
LEMMA LetsGoCounts ==
  ASSUME PointersAssumption, RefsInv, NEW t \in Threads, NEW h, NEW o, LetsGo(t, h, o)
  PROVE  CountInv'
<1> SUFFICES ASSUME NEW y \in Objects
    PROVE  /\ Counted(counts'[y], Pointing(y)', Grouped(y)', Dropping(y)', Storing(y)', Joining(y)')
           /\ y \in gone' => counts'[y] = 0
  BY DEF CountInv, Counted
<1> DEFINE P == Pointing(y)
           G == Grouped(y)
           D == Dropping(y)
           S == Storing(y)
           J == Joining(y)
           P2 == Pointing(y)'
           D2 == Dropping(y)'
           l == <<o, "link">>
<1>1. /\ Decrements(t, h, o) /\ counts' = [counts EXCEPT ![o] = @ - 1]
      /\ gone' = IF counts[o] = 1 THEN gone \cup {o} ELSE gone
      /\ \/ Left(t)' = h /\ (counts[o] = 1 /\ o \in Datas => ptr[l] = Null)
         \/ Left(t)' = h + 1 /\ counts[o] = 1 /\ o \in Datas /\ ptr[l] # Null /\ Item(t, h)' = DropItem(ptr[l])
  BY DEF LetsGo
<1>2. /\ o \in Objects /\ o \in made \ gone /\ counts[o] \in Nat \ {0}
      /\ counts[o] = 1 => Pointing(o) = {}
  BY LetsGoOf
<1>3. Grouped(y)' = G /\ Storing(y)' = S /\ Joining(y)' = J
  BY <1>1, DecrementedSame
<1>4. /\ counts[o] # 1 => P2 = P
      /\ counts[o] = 1 => P2 = P \ {l}
  BY <1>1, DecrementedPoints
<1>5. /\ <<t, h>> \in Dropping(o)
      /\ Left(t)' = h \/ (Item(t, h)'.o # y) => D2 = D \ {<<t, h>>}
      /\ Left(t)' = h + 1 /\ Item(t, h)'.o = y => D2 = D \cup {<<t, h>>}
      /\ y # o => <<t, h>> \notin D
  BY <1>1, DecrementedDrops
<1>6. l \in P => ptr[l] = y /\ o \in Datas
  <2>1. o \notin Threads
    BY <1>2 DEF PointersAssumption
  <2>2. l \in Pointers => o \in Datas
    <3>1. l \in Pointers => \/ \E u \in Threads : \E j \in Slots[u] \cup {"ko"} : l = <<u, j>>
                           \/ \E x \in Datas : l = <<x, "link">>
      BY PointersAre
    <3> QED
      BY <2>1, <3>1
  <2> HIDE DEF l
  <2> QED
    BY <2>2 DEF Pointing
<1>7. y # Null /\ counts \in [Objects -> Nat]
  BY DEF PointersAssumption, RefsInv, PointersTyped
<1>8. \/ P2 = P /\ D2 = D /\ y # o
      \/ P2 = P /\ OneMore(D2, D) /\ y = o
      \/ OneMore(P2, P) /\ OneMore(D, D2) /\ y # o
  <2>1. D2 = D \ {<<t, h>>} => IF y = o THEN OneMore(D2, D) ELSE D2 = D
    BY <1>5 DEF OneMore
  <2>2. CASE Left(t)' = h /\ (counts[o] = 1 /\ o \in Datas => ptr[l] = Null)
    <3>1. D2 = D \ {<<t, h>>}
      BY <1>5, <2>2
    <3>2. P2 = P
      <4>1. counts[o] = 1 => l \notin P
        BY <1>6, <1>7, <2>2
      <4> QED
        BY <1>4, <4>1
    <3> HIDE DEF P, D, P2, D2
    <3> QED
      BY <2>1, <3>1, <3>2
  <2>3. CASE Left(t)' = h + 1 /\ counts[o] = 1 /\ o \in Datas /\ ptr[l] # Null /\ Item(t, h)' = DropItem(ptr[l])
    <3>1. PICK x : x = ptr[l]
      OBVIOUS
    <3>2. l \in Pointing(x)
      BY <1>2, <2>3, <3>1, OwnLink
    <3>3. x # o
      BY <1>2, <2>3, <3>2
    <3>4. Item(t, h)'.o = x
      BY <2>3, <3>1, ItemsTyped
    <3>5. CASE y = x
      <4>1. OneMore(P2, P)
        BY <1>4, <2>3, <3>2, <3>5 DEF OneMore
      <4>2. D2 = D \cup {<<t, h>>} /\ <<t, h>> \notin D
        BY <1>5, <2>3, <3>3, <3>4, <3>5
      <4>3. OneMore(D, D2)
        BY <4>2 DEF OneMore
      <4> QED
        BY <3>3, <3>5, <4>1, <4>3
    <3>6. CASE y # x
      <4>1. P2 = P
        BY <1>4, <1>6, <2>3, <3>1, <3>6
      <4>2. D2 = D \ {<<t, h>>}
        BY <1>5, <3>4, <3>6
      <4> HIDE DEF P, D, P2, D2
      <4> QED
        BY <2>1, <4>1, <4>2
    <3> QED
      BY <3>5, <3>6
  <2> QED
    BY <1>1, <2>2, <2>3
<1>9. /\ y # o => counts'[y] = counts[y]
      /\ y = o => counts'[y] = counts[y] - 1
  BY <1>1, <1>2, <1>7
<1>10. /\ IsFiniteSet(P) /\ IsFiniteSet(G) /\ IsFiniteSet(D) /\ IsFiniteSet(S) /\ IsFiniteSet(J)
       /\ counts[y] = Cardinality(P) + Cardinality(G) + Cardinality(D) + Cardinality(S) + Cardinality(J)
       /\ y \in gone => counts[y] = 0
  BY DEF RefsInv, CountInv
<1> HIDE DEF P, G, D, S, J, P2, D2, l
<1>11. /\ Cardinality(P) \in Nat /\ Cardinality(G) \in Nat /\ Cardinality(D) \in Nat
       /\ Cardinality(S) \in Nat /\ Cardinality(J) \in Nat
  BY <1>10, FS_CardinalityType
<1>12. Counted(counts'[y], P2, G, D2, S, J)
  <2>1. CASE P2 = P /\ D2 = D /\ y # o
    BY <1>9, <1>10, <2>1 DEF Counted
  <2>2. CASE P2 = P /\ OneMore(D2, D) /\ y = o
    <3>1. IsFiniteSet(D2) /\ Cardinality(D2) \in Nat /\ Cardinality(D) = Cardinality(D2) + 1
      BY <1>10, <2>2, Grows
    <3> QED
      BY <1>9, <1>10, <1>11, <2>2, <3>1 DEF Counted
  <2>3. CASE OneMore(P2, P) /\ OneMore(D, D2) /\ y # o
    <3>1. IsFiniteSet(P2) /\ Cardinality(P2) \in Nat /\ Cardinality(P) = Cardinality(P2) + 1
      BY <1>10, <2>3, Grows
    <3>2. IsFiniteSet(D2) /\ Cardinality(D2) = Cardinality(D) + 1
      BY <1>10, <2>3, Grows
    <3> QED
      BY <1>9, <1>10, <1>11, <2>3, <3>1, <3>2 DEF Counted
  <2> QED
    BY <1>8, <2>1, <2>2, <2>3
<1>13. y \in gone' => counts'[y] = 0
  <2>1. CASE y # o
    <3>1. y \in gone' => y \in gone
      BY <1>1, <2>1
    <3> QED
      BY <1>9, <1>10, <2>1, <3>1
  <2>2. CASE y = o
    <3>1. y \in gone' => counts[y] = 1
      BY <1>1, <1>2, <2>2
    <3> QED
      BY <1>9, <2>2, <3>1
  <2> QED
    BY <2>1, <2>2
<1> QED
  BY <1>3, <1>12, <1>13 DEF P2, D2

\* Letting go of an object keeps it.
LEMMA LetsGo_keeps ==
  ASSUME PointersAssumption, RefsInv, NEW t \in Threads, NEW h, NEW o, LetsGo(t, h, o),
         \A u \in Threads \ {t} : reads[u] # t /\ reads'[u] = reads[u],
         todo' \in [Threads -> Seq(CallItems)], reads' \in [Threads -> Threads \cup {Null}], ReaderInv'
  PROVE  RefsInv'
<1>1. /\ Decrements(t, h, o) /\ counts' = [counts EXCEPT ![o] = @ - 1]
      /\ gone' = IF counts[o] = 1 THEN gone \cup {o} ELSE gone
      /\ \/ Left(t)' = h
         \/ o \in Datas /\ ptr[<<o, "link">>] # Null /\ Item(t, h)' = DropItem(ptr[<<o, "link">>])
  BY DEF LetsGo
<1>2. /\ h = Left(t) - 1 /\ h \in Nat /\ h \in Items(t) /\ Item(t, h).op = "dec" /\ Item(t, h).o = o /\ Items(t) = 0..h
      /\ Left(t)' \in {h, h + 1} /\ Items(t)' = 0..Left(t)' - 1
      /\ \A d \in 0..h - 1 : Item(t, d)' = Item(t, d)
      /\ \A u \in Threads \ {t} : todo'[u] = todo[u]
      /\ UNCHANGED <<made, ptr, group>>
  BY <1>1 DEF Decrements
<1>3. o \in Objects /\ o \in made \ gone /\ counts[o] \in Nat \ {0}
  BY LetsGoOf
<1>4. ShapeOf(t)' /\ StoreOf(t)' /\ OldOf(t)' /\ SourceOf(t)'
  BY <1>1, DecrementedCall
<1>5. CountInv'
  BY LetsGoCounts
<1>6. PointersTyped'
  <2>1. counts' \in [Objects -> Nat]
    BY <1>1, <1>3 DEF RefsInv, PointersTyped
  <2>2. gone' \subseteq made'
    BY <1>1, <1>2, <1>3 DEF RefsInv, PointersTyped
  <2> QED
    BY <1>2, <2>1, <2>2 DEF RefsInv, PointersTyped
<1>7. ASSUME NEW z \in Objects, Told(t, z)' PROVE Told(t, z)
  <2>1. Held(z)' <=> Held(z)
    BY <1>2 DEF Held
  <2>2. ASSUME NEW d \in Items(t)', Names(Item(t, d), z)' PROVE Told(t, z)
    <3>1. CASE d # h
      <4>1. d \in 0..h - 1
        BY <1>2, <3>1
      <4>2. Item(t, d)' = Item(t, d) /\ d \in Items(t)
        BY <1>2, <4>1
      <4>3. Names(Item(t, d), z)
        BY <2>2, <4>2 DEF Names
      <4> QED
        BY <4>2, <4>3 DEF Told
    <3>2. CASE d = h
      <4>1. o \in Datas /\ Item(t, h)' = DropItem(ptr[<<o, "link">>])
        BY <1>1, <1>2, <3>2
      <4>2. Item(t, h)'.o = z \/ Item(t, h)'.op = "become"
        BY <2>2, <3>2 DEF Names
      <4>3. ptr[<<o, "link">>] = z
        BY <4>1, <4>2, ItemsTyped
      <4>4. <<o, "link">> \in Pointers
        BY <4>1, PointersAre
      <4> QED
        BY <4>3, <4>4 DEF Told, Held
    <3> QED
      BY <3>1, <3>2
  <2> QED
    BY <1>7, <2>1, <2>2 DEF Told
<1>8. \A z \in gone' \ gone : \E d \in Items(t) : Names(Item(t, d), z)
  <2>1. Names(Item(t, h), o)
    BY <1>2 DEF Names
  <2> QED
    BY <1>1, <1>2, <2>1
<1>9. ASSUME NEW z \in made \ gone', counts'[z] = 0 PROVE counts[z] = 0 /\ ~New(z, t) /\ z \notin gone
  <2>1. z \in Objects /\ counts \in [Objects -> Nat]
    BY DEF RefsInv, PointersTyped
  <2>2. z # o
    <3> SUFFICES ASSUME z = o PROVE FALSE
      OBVIOUS
    <3>1. counts'[o] = counts[o] - 1
      BY <1>1, <1>3, <2>1
    <3>2. counts[o] = 1
      BY <1>3, <1>9, <3>1
    <3> QED
      BY <1>1, <3>2
  <2>3. ~New(z, t)
    BY <1>2, <2>1, NewFirst
  <2>4. counts'[z] = counts[z]
    BY <1>1, <2>1, <2>2
  <2>5. z \notin gone
    BY <1>1
  <2> QED
    BY <1>9, <2>3, <2>4, <2>5
<1> QED
  <2>1. Steps(t)
    BY <1>2, <1>4, <1>5, <1>6, <1>7, <1>8, <1>9 DEF Steps
  <2> QED
    BY <2>1, Stepped

\* DecRef and DecUseCount keep it, the last one with the link of the object it deletes.
LEMMA DecRef_keeps ==
  ASSUME PointersAssumption, RefsInv, NEW t \in Threads, DecRef(t)
  PROVE  RefsInv'
<1>1. PICK o : o = Head(todo[t]).o
  OBVIOUS
<1>2. /\ Doing(t, "dec") /\ counts' = [counts EXCEPT ![o] = @ - 1]
      /\ gone' = IF counts[o] = 1 THEN gone \cup {o} ELSE gone
      /\ Rest(t, IF counts[o] = 1 /\ o \in Datas THEN Dec(ptr[<<o, "link">>]) ELSE <<>>)
      /\ UNCHANGED <<made, ptr, group>>
  BY <1>1 DEF DecRef
<1>3. PICK h : h = Left(t) - 1
  OBVIOUS
<1>4. /\ todo[t] # <<>> /\ Left(t) \in Nat \ {0} /\ \A u \in Threads \ {t} : reads[u] # t
      /\ h \in Items(t) /\ Item(t, h).op = "dec" /\ Head(todo[t]) = Item(t, h)
  BY <1>2, <1>3, Busy
<1>5. o \in Objects /\ Item(t, h).o = o
  <2>1. Item(t, h) \in CallItems
    BY <1>4, ItemTypes DEF RefsInv
  <2> QED
    BY <1>1, <1>4, <2>1, ItemKinds
<1>6. h \in Nat /\ Items(t) = 0..h
  BY <1>3, <1>4 DEF Items
<1>7. CASE counts[o] = 1 /\ o \in Datas => ptr[<<o, "link">>] = Null
  <2>1. Rest(t, <<>>)
    BY <1>2, <1>7 DEF Dec
  <2>2. /\ Left(t)' = h /\ Items(t)' = Items(t) \ {h}
        /\ \A d \in Items(t)' : Item(t, d)' = Item(t, d)
        /\ \A u \in Threads \ {t} : todo'[u] = todo[u] /\ reads'[u] = reads[u]
        /\ todo' \in [Threads -> Seq(CallItems)] /\ reads' \in [Threads -> Threads \cup {Null}]
        /\ (Left(t)' # 0 => reads'[t] = reads[t])
        /\ ReaderInv'
    BY <1>3, <1>4, <2>1, Popped
  <2>3. Decrements(t, h, o)
    <3>1. Items(t)' = 0..Left(t)' - 1 /\ Left(t)' # h + 1 /\ \A d \in 0..h - 1 : d \in Items(t)'
      BY <1>6, <2>2
    <3> QED
      BY <1>2, <1>3, <1>4, <1>5, <1>6, <2>2, <3>1 DEF Decrements
  <2>4. LetsGo(t, h, o)
    BY <1>2, <1>7, <2>2, <2>3 DEF LetsGo
  <2> QED
    BY <1>4, <2>2, <2>4, LetsGo_keeps
<1>8. CASE counts[o] = 1 /\ o \in Datas /\ ptr[<<o, "link">>] # Null
  <2>1. PICK x : x = ptr[<<o, "link">>]
    OBVIOUS
  <2>2. x \in Objects /\ DropItem(x) \in CallItems
    <3>1. <<o, "link">> \in Pointers
      BY <1>8, PointersAre
    <3>2. x \in Objects
      BY <1>8, <2>1, <3>1 DEF RefsInv, PointersTyped
    <3> QED
      BY <3>2, ItemsTyped
  <2>3. Rest(t, <<DropItem(x)>>)
    BY <1>2, <1>8, <2>1 DEF Dec, DropItem
  <2> DEFINE left == <<DropItem(x)>> \o Tail(todo[t])
  <2>4. /\ todo' = [todo EXCEPT ![t] = left]
        /\ reads' = [reads EXCEPT ![t] = IF left = <<>> THEN t ELSE reads[t]]
    BY <2>3 DEF Rest
  <2>5. /\ Left(t)' = Left(t) /\ Items(t)' = Items(t)
        /\ \A d \in Items(t) : Item(t, d)' = IF d = Left(t) - 1 THEN DropItem(x) ELSE Item(t, d)
        /\ \A u \in Threads \ {t} : todo'[u] = todo[u]
        /\ todo' \in [Threads -> Seq(CallItems)]
    BY <1>4, <2>2, <2>4, Pushes DEF RefsInv
  <2>6. reads' = reads
    <3>1. left # <<>>
      <4>1. Tail(todo[t]) \in Seq(CallItems)
        BY <1>4 DEF RefsInv, PointersTyped
      <4>2. <<DropItem(x)>> \in Seq(CallItems) /\ Len(<<DropItem(x)>>) = 1
        BY <2>2
      <4>3. Len(left) = 1 + Len(Tail(todo[t])) /\ left \in Seq(CallItems)
        BY <4>1, <4>2, ConcatProperties
      <4>4. Len(Tail(todo[t])) \in Nat
        BY <4>1
      <4> HIDE DEF left
      <4> QED
        BY <4>3, <4>4
    <3> HIDE DEF left
    <3> QED
      BY <2>4, <3>1 DEF RefsInv, PointersTyped
  <2>7. ReaderInv'
    <3>1. \A u \in Threads : Left(u)' = Left(u)
      BY <2>5, SameCall
    <3>2. ReaderInv
      BY DEF RefsInv
    <3> HIDE DEF left
    <3>3. ASSUME NEW u \in Threads, NEW v \in Threads \ {u}, reads'[u] = v PROVE Left(v)' = 0
      BY <2>6, <3>1, <3>2, <3>3 DEF ReaderInv
    <3>4. \A u \in Threads : Left(u)' = 0 => reads'[u] = u
      BY <2>6, <3>1, <3>2 DEF ReaderInv
    <3>5. \A u, v \in Threads : reads'[u] = Null /\ reads'[v] = Null => u = v
      BY <2>6, <3>2 DEF ReaderInv
    <3> QED
      BY <3>3, <3>4, <3>5 DEF ReaderInv, Left
  <2>8. Item(t, h)' = DropItem(x) /\ \A d \in 0..h - 1 : Item(t, d)' = Item(t, d)
    <3>1. \A d \in 0..h - 1 : d \in Items(t) /\ d # h
      BY <1>6
    <3> QED
      BY <1>3, <1>4, <2>5, <3>1
  <2> HIDE DEF left
  <2>9. Left(t)' = h + 1
    BY <1>3, <1>4, <2>5
  <2>10. Decrements(t, h, o)
    <3>1. Items(t)' = 0..Left(t)' - 1
      BY <1>3, <1>4, <2>5 DEF Items
    <3>2. Item(t, h)'.op = "dec"
      BY <2>8, ItemsTyped
    <3> QED
      BY <1>2, <1>3, <1>4, <1>5, <1>6, <2>5, <2>6, <2>8, <2>9, <3>1, <3>2 DEF Decrements
  <2>11. LetsGo(t, h, o)
    BY <1>2, <1>8, <2>1, <2>8, <2>9, <2>10 DEF LetsGo
  <2>12. reads' \in [Threads -> Threads \cup {Null}] /\ \A u \in Threads \ {t} : reads[u] # t /\ reads'[u] = reads[u]
    BY <1>4, <2>6 DEF RefsInv, PointersTyped
  <2> QED
    BY <2>5, <2>7, <2>11, <2>12, LetsGo_keeps
<1> QED
  BY <1>7, <1>8

-----------------------------------------------------------------------------
(* Pointers: the theorem *)

\* It holds before anything is made.
LEMMA RefsInit == PointersAssumption /\ Init => RefsInv
<1> SUFFICES ASSUME PointersAssumption, Init PROVE RefsInv
  OBVIOUS
<1>1. /\ counts = [o \in Objects |-> 0] /\ gone \in Before /\ made = gone
      /\ ptr = [p \in Pointers |-> Null] /\ group = [t \in Threads |-> <<>>]
      /\ todo = [t \in Threads |-> <<>>] /\ reads = [t \in Threads |-> t]
  BY DEF Init
<1>2. \A t \in Threads : Left(t) = 0
  BY <1>1 DEF Left
<1>3. \A t \in Threads : /\ Items(t) = {} /\ Adding(t) = {} /\ ~Becoming(t) /\ ~LateHandle(t) /\ ~LateMember(t)
                         /\ \A p : ~StoresTo(t, p)
  BY <1>2, IdleDoes
<1>4. gone \subseteq Objects
  BY <1>1 DEF PointersAssumption
<1>5. PointersTyped
  <2>1. <<>> \in Seq(CallItems) /\ <<>> \in Seq(Datas)
    OBVIOUS
  <2> QED
    BY <1>1, <1>4, <2>1 DEF PointersTyped
<1>6. ReaderInv
  <2>1. \A t \in Threads : reads[t] = t /\ t # Null
    BY <1>1 DEF PointersAssumption
  <2> QED
    BY <2>1 DEF ReaderInv
<1>7. CallInv
  <2> SUFFICES ASSUME NEW t \in Threads PROVE ShapeOf(t) /\ StoreOf(t) /\ OldOf(t) /\ SourceOf(t)
    BY DEF CallInv
  <2>1. Items(t) = {} /\ Adding(t) = {} /\ ~(Left(t) \in 1..3) /\ Left(t) # 1
    BY <1>2, <1>3
  <2> QED
    BY <2>1 DEF ShapeOf, OnlyDrops, StoreOf, OldOf, SourceOf, Replaces, Reopens, Appends, Becomes
<1>8. CountInv
  <2> SUFFICES ASSUME NEW y \in Objects
      PROVE  /\ Counted(counts[y], Pointing(y), Grouped(y), Dropping(y), Storing(y), Joining(y))
             /\ y \in gone => counts[y] = 0
    BY DEF CountInv, Counted
  <2>1. Pointing(y) = {}
    BY <1>1 DEF Pointing, PointersAssumption
  <2>2. Grouped(y) = {}
    <3>1. \A t \in Threads : DOMAIN group[t] = {}
      BY <1>1
    <3> QED
      BY <3>1 DEF Grouped
  <2>3. Dropping(y) = {} /\ Joining(y) = {}
    BY <1>3 DEF Dropping, Joining
  <2>4. Storing(y) = {}
    BY <1>3 DEF Storing
  <2>5. IsFiniteSet({}) /\ Cardinality({}) = 0
    BY FS_EmptySet
  <2>6. counts[y] = 0
    BY <1>1
  <2> QED
    BY <2>1, <2>2, <2>3, <2>4, <2>5, <2>6 DEF Counted
<1>9. UnmadeInv
  <2> SUFFICES ASSUME NEW z \in Objects PROVE KnownTo(z, {}) /\ (z \in Datas => ptr[<<z, "link">>] = Null)
    BY DEF UnmadeInv
  <2>1. \A p \in Pointers : ptr[p] = Null
    BY <1>1
  <2>2. \A t \in Threads : DOMAIN group[t] = {}
    BY <1>1
  <2>3. z \in Datas => ptr[<<z, "link">>] = Null
    BY <2>1, PointersAre
  <2>4. \A p \in Pointers : ptr[p] # z
    BY <2>1 DEF PointersAssumption
  <2> QED
    BY <1>3, <2>2, <2>3, <2>4 DEF KnownTo
<1>10. MadeInv
  BY <1>1 DEF MadeInv
<1> QED
  BY <1>5, <1>6, <1>7, <1>8, <1>9, <1>10 DEF RefsInv

\* Every step of every thread keeps it.
LEMMA RefsNext == PointersAssumption /\ RefsInv /\ [Next]_vars => RefsInv'
<1> SUFFICES ASSUME PointersAssumption, RefsInv, [Next]_vars PROVE RefsInv'
  OBVIOUS
<1>1. CASE UNCHANGED vars
  <2>1. UNCHANGED <<counts, made, gone, ptr, group, todo, reads>>
    BY <1>1 DEF vars
  <2>2. \A t : /\ Left(t)' = Left(t) /\ Items(t)' = Items(t) /\ Adding(t)' = Adding(t)
               /\ \A d : Item(t, d)' = Item(t, d)
               /\ \A p : StoresTo(t, p)' <=> StoresTo(t, p)
               /\ Becoming(t)' <=> Becoming(t)
               /\ LateHandle(t)' <=> LateHandle(t)
               /\ LateMember(t)' <=> LateMember(t)
    BY <2>1, SameCall
  <2>3. PointersTyped'
    BY <2>1 DEF RefsInv, PointersTyped
  <2>4. ReaderInv'
    BY <2>1 DEF RefsInv, ReaderInv, Left
  <2>5. \A o \in Objects, t \in Threads : New(o, t) <=> New(o, t)'
    BY <2>1 DEF New, KnownTo, Names, Adding, Items, Item, Left
  <2>6. CallInv'
    <3> SUFFICES ASSUME NEW t \in Threads PROVE ShapeOf(t)' /\ StoreOf(t)' /\ OldOf(t)' /\ SourceOf(t)'
      BY DEF CallInv
    <3>1. ShapeOf(t) /\ StoreOf(t) /\ OldOf(t) /\ SourceOf(t)
      BY DEF RefsInv, CallInv
    <3>2. /\ Replaces(t)' <=> Replaces(t)
          /\ Reopens(t)' <=> Reopens(t)
          /\ Appends(t)' <=> Appends(t)
          /\ \A b : Becomes(t, b)' <=> Becomes(t, b)
          /\ ShapeOf(t)' <=> ShapeOf(t)
      BY <2>1, ShapeKept
    <3>3. StoreOf(t)'
      BY <2>1, <2>2, <3>1 DEF StoreOf
    <3>4. OldOf(t)'
      BY <2>1, <2>2, <3>1, <3>2 DEF OldOf
    <3>5. ASSUME NEW o, NEW p, Comes(t, o, p) PROVE Comes(t, o, p)'
      BY <2>1, <3>5 DEF Comes
    <3>6. SourceOf(t)'
      <4>1. Replaces(t) /\ Adding(t) # {} => New(Item(t, 0).o, t)' \/ Comes(t, Item(t, 0).o, Item(t, 0).p)'
        <5> SUFFICES ASSUME Replaces(t), Adding(t) # {}
            PROVE New(Item(t, 0).o, t)' \/ Comes(t, Item(t, 0).o, Item(t, 0).p)'
          OBVIOUS
        <5>1. CASE New(Item(t, 0).o, t)
          <6>1. Item(t, 0).o \in Objects
            BY <5>1 DEF New, RefsInv, PointersTyped
          <6>2. PICK o \in Objects : o = Item(t, 0).o
            BY <6>1
          <6>3. New(o, t)' /\ Item(t, 0)'.o = o
            BY <2>2, <2>5, <5>1, <6>2
          <6> QED
            BY <6>3 DEF New, KnownTo
        <5>2. CASE Comes(t, Item(t, 0).o, Item(t, 0).p)
          BY <2>2, <3>5, <5>2
        <5> QED
          BY <3>1, <5>1, <5>2 DEF SourceOf
      <4> QED
        BY <2>1, <2>2, <3>1, <3>2, <4>1 DEF SourceOf
    <3> QED
      BY <3>1, <3>2, <3>3, <3>4, <3>6
  <2>7. CountInv'
    <3> SUFFICES ASSUME NEW y \in Objects
        PROVE  /\ Pointing(y)' = Pointing(y) /\ Grouped(y)' = Grouped(y) /\ Dropping(y)' = Dropping(y)
               /\ Storing(y)' = Storing(y) /\ Joining(y)' = Joining(y)
      BY <2>1 DEF RefsInv, CountInv
    <3>1. Pointing(y)' = Pointing(y)
      <4>1. \A p : Live(p)' <=> Live(p)
        BY <2>1 DEF Live
      <4>2. \A p : Counts(p)' <=> Counts(p)
        BY <2>2, <4>1 DEF Counts
      <4> QED
        BY <2>1, <4>2 DEF Pointing
    <3>2. Grouped(y)' = Grouped(y)
      BY <2>1, <2>2 DEF Grouped
    <3>3. Dropping(y)' = Dropping(y)
      BY <2>2 DEF Dropping
    <3>4. Storing(y)' = Storing(y)
      BY <2>2 DEF Storing
    <3>5. Joining(y)' = Joining(y)
      BY <2>2 DEF Joining
    <3> QED
      BY <3>1, <3>2, <3>3, <3>4, <3>5
  <2>8. UnmadeInv'
    <3>1. \A z \in Objects : KnownTo(z, {}) => KnownTo(z, {})'
      BY <2>1, <2>2 DEF KnownTo, Names
    <3> QED
      BY <2>1, <3>1 DEF RefsInv, UnmadeInv
  <2>9. MadeInv'
    <3> SUFFICES ASSUME NEW z \in made \ gone, counts[z] = 0 PROVE \E t \in Threads : New(z, t)'
      BY <2>1 DEF MadeInv
    <3>1. z \in Objects /\ \E t \in Threads : New(z, t)
      BY DEF RefsInv, MadeInv, PointersTyped
    <3> QED
      BY <2>5, <3>1
  <2> QED
    BY <2>3, <2>4, <2>6, <2>7, <2>8, <2>9 DEF RefsInv
<1>2. ASSUME NEW t \in Threads, NEW i \in Slots[t], NEW o \in Datas, create(t, i, o) PROVE RefsInv'
  BY <1>2, create_keeps
<1>3. ASSUME NEW t \in Threads, NEW i \in Slots[t], NEW u \in Threads, NEW j \in Slots[u], equal(t, i, u, j) PROVE RefsInv'
  BY <1>3, equal_keeps
<1>4. ASSUME NEW t \in Threads, NEW i \in Slots[t], drop(t, i) \/ append(t, i) \/ remove(t, i) PROVE RefsInv'
  BY <1>4, drop_keeps, append_keeps, remove_keeps
<1>5. ASSUME NEW t \in Threads, NEW i \in Slots[t], NEW j \in Slots[t], swap(t, i, j) \/ link(t, i, j) \/ follow(t, i, j)
      PROVE  RefsInv'
  BY <1>5, swap_keeps, link_keeps, follow_keeps
<1>6. ASSUME NEW t \in Threads, clear(t) \/ close(t) PROVE RefsInv'
  BY <1>6, clear_keeps, close_keeps
<1>7. ASSUME NEW t \in Threads, NEW u \in Threads, assign(t, u) \/ share(t, u) PROVE RefsInv'
  BY <1>7, assign_keeps, share_keeps
<1>8. ASSUME NEW t \in Threads, NEW o \in Kernels, open(t, o) PROVE RefsInv'
  BY <1>8, open_keeps
<1>9. ASSUME NEW t \in Threads, IncRef(t) \/ DecRef(t) \/ SetPtr(t) \/ SetGroup(t) PROVE RefsInv'
  BY <1>9, IncRef_keeps, DecRef_keeps, SetPtr_keeps, SetGroup_keeps
<1> QED
  BY <1>1, <1>2, <1>3, <1>4, <1>5, <1>6, <1>7, <1>8, <1>9 DEF Next

\* When no call is under way, what is counted is what is held.
LEMMA CountsHolders ==
  ASSUME RefsInv, \A t \in Threads : Idle(t), NEW o \in made
  PROVE  /\ counts[o] = Holders(o) /\ counts[o] \in Nat
         /\ o \in gone => counts[o] = 0
         /\ o \notin gone => counts[o] # 0
<1>1. \A t \in Threads : Left(t) = 0
  BY DEF Idle, Left
<1>2. \A t \in Threads : /\ Items(t) = {} /\ Adding(t) = {} /\ ~Becoming(t) /\ ~LateHandle(t) /\ ~LateMember(t)
                         /\ \A p : ~StoresTo(t, p)
  BY <1>1, IdleDoes
<1>3. o \in Objects /\ counts[o] \in Nat /\ group \in [Threads -> Seq(Datas)]
  BY DEF RefsInv, PointersTyped
<1>4. {p \in Pointers : Live(p) /\ ptr[p] = o} = Pointing(o)
  <2>1. \A p : Counts(p) <=> Live(p)
    BY <1>2 DEF Counts
  <2> QED
    BY <2>1 DEF Pointing
<1>5. {q \in Places : group[q[1]][q[2]] = o} = Grouped(o)
  <2>1. ASSUME NEW x PROVE x \in Places <=> x \in Threads \X Nat /\ x[2] \in DOMAIN group[x[1]]
    <3>1. \A t \in Threads : DOMAIN group[t] \subseteq Nat
      BY <1>3
    <3>2. x \in Places <=> \E t \in Threads : \E n \in DOMAIN group[t] : x = <<t, n>>
      BY DEF Places
    <3>3. x \in Threads \X Nat <=> \E t \in Threads : \E n \in Nat : x = <<t, n>>
      OBVIOUS
    <3> QED
      BY <3>1, <3>2, <3>3
  <2>2. \A x : x \in {q \in Places : group[q[1]][q[2]] = o} <=> x \in Places /\ group[x[1]][x[2]] = o
    OBVIOUS
  <2>3. \A x : x \in Grouped(o) <=> x \in Threads \X Nat /\ x[2] \in DOMAIN group[x[1]] /\ group[x[1]][x[2]] = o
    BY <1>2 DEF Grouped
  <2>4. \A x : x \in {q \in Places : group[q[1]][q[2]] = o} <=> x \in Grouped(o)
    BY <2>1, <2>2, <2>3
  <2> QED
    BY <2>4
<1>6. Dropping(o) = {} /\ Joining(o) = {} /\ Storing(o) = {}
  BY <1>2 DEF Dropping, Joining, Storing
<1>7. counts[o] = Holders(o)
  <2>1. /\ IsFiniteSet(Pointing(o)) /\ IsFiniteSet(Grouped(o))
        /\ counts[o] = Cardinality(Pointing(o)) + Cardinality(Grouped(o)) + Cardinality({}) + Cardinality({})
                         + Cardinality({})
    BY <1>3, <1>6 DEF RefsInv, CountInv
  <2>2. Holders(o) = Cardinality(Pointing(o)) + Cardinality(Grouped(o))
    BY <1>4, <1>5 DEF Holders
  <2> QED
    BY <2>1, <2>2, FS_EmptySet, FS_CardinalityType
<1>8. o \in gone => counts[o] = 0
  BY <1>3 DEF RefsInv, CountInv
<1>9. o \notin gone => counts[o] # 0
  <2>1. \A t \in Threads : ~New(o, t)
    BY <1>2 DEF New
  <2> QED
    BY <2>1 DEF RefsInv, MadeInv
<1> QED
  BY <1>3, <1>7, <1>8, <1>9

\* The invariant says it.
LEMMA RefsThere == PointersAssumption /\ RefsInv => ThereWhileHeld
<1> SUFFICES ASSUME PointersAssumption, RefsInv PROVE ThereWhileHeld
  OBVIOUS
<1>1. ASSUME NEW t \in Threads, ~Idle(t), Head(todo[t]).op \in {"inc", "dec"} PROVE Head(todo[t]).o \notin gone
  <2> DEFINE h == Left(t) - 1
  <2>1. CASE Doing(t, "inc")
    <3>1. h \in Items(t) /\ Item(t, h).op = "inc" /\ Head(todo[t]) = Item(t, h)
      BY <2>1, Busy
    <3> QED
      BY <3>1, AddedIsThere
  <2>2. CASE Doing(t, "dec")
    <3>1. h \in Items(t) /\ Item(t, h).op = "dec" /\ Head(todo[t]) = Item(t, h)
      BY <2>2, Busy
    <3>2. Item(t, h).o \in Objects /\ h \in Nat
      BY <3>1, ItemTypes, ItemKinds DEF RefsInv
    <3>3. <<t, h>> \in Dropping(Item(t, h).o)
      BY <3>1, <3>2 DEF Dropping
    <3> QED
      BY <3>1, <3>2, <3>3, CountedIsThere
  <2> QED
    BY <1>1, <2>1, <2>2 DEF Doing
<1>2. ASSUME \A t \in Threads : Idle(t), NEW o \in made
      PROVE  IF o \in gone THEN Holders(o) = 0 ELSE counts[o] = Holders(o) /\ counts[o] > 0
  <2>1. /\ counts[o] = Holders(o) /\ counts[o] \in Nat
        /\ o \in gone => counts[o] = 0
        /\ o \notin gone => counts[o] # 0
    BY <1>2, CountsHolders
  <2> QED
    BY <2>1
<1> QED
  BY <1>1, <1>2 DEF ThereWhileHeld

\* ThereWhileHeld of Pointers, for any threads, pointers and objects.
THEOREM RefsThereWhileHeld == ASSUME PointersAssumption PROVE Spec => []ThereWhileHeld
<1>1. Init => RefsInv
  BY RefsInit
<1>2. RefsInv /\ [Next]_vars => RefsInv'
  BY RefsNext
<1>3. RefsInv => ThereWhileHeld
  BY RefsThere
<1> QED
  BY <1>1, <1>2, <1>3, PTL DEF Spec

-----------------------------------------------------------------------------
(* RingBuffer: the distance of its positions *)

\* A sum or difference of two positions is brought back by at most one Size.
LEMMA Fold ==
  ASSUME NEW N \in Nat \ {0}, NEW x \in (-N)..(2*N-1)
  PROVE  x % N = IF x < 0 THEN x + N ELSE IF x < N THEN x ELSE x - N
<1>1. CASE x \in (-N)..(-1) BY <1>1
<1>2. CASE x \in 0..N-1 BY <1>2
<1>3. CASE x \in N..2*N-1 BY <1>3
<1> QED BY <1>1, <1>2, <1>3

\* The place that is k bytes on.
LEMMA Ahead ==
  ASSUME NEW N \in Nat \ {0}, NEW p \in 0..N-1, NEW k \in 0..N
  PROVE  /\ (p + k) % N = (IF p + k < N THEN p + k ELSE p + k - N)
         /\ (p + k) % N \in 0..N-1
<1>1. CASE p + k < N
  BY <1>1
<1>2. CASE p + k >= N
  <2>1. p + k \in N..2*N-1
    BY <1>2
  <2> QED
    BY <2>1
<1> QED
  BY <1>1, <1>2

\* What can be read and what can be written, as the code computes them.
LEMMA Distances ==
  ASSUME Size \in Nat \ {0}, NEW rd \in 0..Size-1, NEW wr \in 0..Size-1
  PROVE  /\ ReadFree(rd, wr) = (IF wr < rd THEN wr - rd + Size ELSE wr - rd)
         /\ WriteFree(rd, wr) = Size - 1 - ReadFree(rd, wr)
         /\ ReadFree(rd, wr) \in 0..Size-1
         /\ WriteFree(rd, wr) \in 0..Size-1
<1>1. wr - rd \in (-Size)..(2*Size-1) /\ rd - wr - 1 \in (-Size)..(2*Size-1)
  OBVIOUS
<1>2. (wr - rd) % Size = IF wr - rd < 0 THEN wr - rd + Size
                         ELSE IF wr - rd < Size THEN wr - rd ELSE wr - rd - Size
  BY <1>1, Fold
<1>3. (rd - wr - 1) % Size = IF rd - wr - 1 < 0 THEN rd - wr - 1 + Size
                             ELSE IF rd - wr - 1 < Size THEN rd - wr - 1 ELSE rd - wr - 1 - Size
  BY <1>1, Fold
<1> QED
  BY <1>2, <1>3 DEF ReadFree, WriteFree

\* A position of the writer that moves on by no more than it may write.
LEMMA WriterMoves ==
  ASSUME Size \in Nat \ {0}, NEW rd \in 0..Size-1, NEW wr \in 0..Size-1,
         NEW n \in 0..WriteFree(rd, wr)
  PROVE  /\ (wr + n) % Size \in 0..Size-1
         /\ ReadFree(rd, (wr + n) % Size) = ReadFree(rd, wr) + n
<1>1. n \in 0..Size
  BY Distances
<1>2. /\ (wr + n) % Size = (IF wr + n < Size THEN wr + n ELSE wr + n - Size)
      /\ (wr + n) % Size \in 0..Size-1
  BY <1>1, Ahead
<1>3. /\ ReadFree(rd, wr) = (IF wr < rd THEN wr - rd + Size ELSE wr - rd)
      /\ WriteFree(rd, wr) = Size - 1 - ReadFree(rd, wr)
  BY Distances
<1> DEFINE to == (wr + n) % Size
<1>4. ReadFree(rd, to) = (IF to < rd THEN to - rd + Size ELSE to - rd)
  BY <1>2, Distances
<1> QED
  BY <1>2, <1>3, <1>4

\* A position of the reader that moves on by no more than it may read.
LEMMA ReaderMoves ==
  ASSUME Size \in Nat \ {0}, NEW rd \in 0..Size-1, NEW wr \in 0..Size-1,
         NEW n \in 0..ReadFree(rd, wr)
  PROVE  /\ (rd + n) % Size \in 0..Size-1
         /\ ReadFree((rd + n) % Size, wr) = ReadFree(rd, wr) - n
<1>1. n \in 0..Size
  BY Distances
<1>2. /\ (rd + n) % Size = (IF rd + n < Size THEN rd + n ELSE rd + n - Size)
      /\ (rd + n) % Size \in 0..Size-1
  BY <1>1, Ahead
<1>3. ReadFree(rd, wr) = (IF wr < rd THEN wr - rd + Size ELSE wr - rd)
  BY Distances
<1> DEFINE to == (rd + n) % Size
<1>4. ReadFree(to, wr) = (IF wr < to THEN wr - to + Size ELSE wr - to)
  BY <1>2, Distances
<1> QED
  BY <1>2, <1>3, <1>4

-----------------------------------------------------------------------------
(* RingBuffer: the invariant *)

\* The bytes that the reader has given up the places of, and those the writer has made known.
Released == Len(taken) - (IF pc["reader"] = "release" THEN count["reader"] ELSE 0)
Published == written - (IF pc["writer"] = "publish" THEN count["writer"] ELSE 0)

RingPlaces == {"idle", "room", "fill", "publish", "left", "copy", "release"}

\* The variables the argument is about.
RingTypes ==
  /\ buf \in [0..Size-1 -> Nat] /\ rd_pos \in 0..Size-1 /\ wr_pos \in 0..Size-1
  /\ size \in Seq(Nat) /\ written \in Nat /\ Len(size) = written
  /\ taken \in Seq(Nat)
  /\ pc \in [Sides -> RingPlaces] /\ seen \in [Sides -> 0..Size-1]
  /\ count \in [Sides -> Nat]
  /\ pc["reader"] \in {"idle", "left", "copy", "release"}
  /\ pc["writer"] \in {"idle", "room", "fill", "publish"}

\* The writer knows of no more room than there is, and takes no more: the reader has only made some.
RoomInv ==
  /\ pc["writer"] = "room" =>
       WriteFree(seen["writer"], wr_pos) <= WriteFree(rd_pos, wr_pos)
  /\ pc["writer"] \in {"fill", "publish"} => count["writer"] <= WriteFree(rd_pos, wr_pos)

\* The reader knows of no more bytes than there are: the writer has only made some known.
LeftInv ==
  /\ pc["reader"] = "left" =>
       ReadFree(rd_pos, seen["reader"]) <= ReadFree(rd_pos, wr_pos)
  /\ pc["reader"] \in {"copy", "release"} => count["reader"] <= ReadFree(rd_pos, wr_pos)

\* The positions are as far apart as the streams.
BytesCounted ==
  /\ Released \in Nat /\ Published \in Nat
  /\ Published - Released = ReadFree(rd_pos, wr_pos)

\* The bytes that were written and whose places are not given up are in the ring, in order.
BytesInv ==
  \A i \in 0..Size-1 : i < written - Released => buf[(rd_pos + i) % Size] = Released + 1 + i

\* What was taken.
TakenInv == \A k \in 1..Len(taken) : taken[k] = k

RingInv == RingTypes /\ RoomInv /\ LeftInv /\ BytesCounted /\ BytesInv /\ TakenInv

\* reset(s): the ring is empty.
LEMMA RingInit_Inv == ASSUME RingAssumption PROVE RingInit => RingInv
<1> SUFFICES ASSUME RingInit PROVE RingInv
  OBVIOUS
<1>1. RingTypes
  BY DEF RingInit, RingTypes, RingAssumption, Sides, RingPlaces
<1>2. pc["reader"] = "idle" /\ pc["writer"] = "idle"
  BY DEF RingInit, Sides
<1>3. RoomInv /\ LeftInv
  BY <1>2 DEF RoomInv, LeftInv
<1>4. rd_pos = 0 /\ wr_pos = 0 /\ written = 0 /\ Len(taken) = 0
  BY DEF RingInit
<1>5. ReadFree(0, 0) = 0
  BY Distances DEF RingAssumption
<1>6. BytesCounted /\ BytesInv /\ TakenInv
  BY <1>2, <1>4, <1>5 DEF BytesCounted, BytesInv, TakenInv, Released, Published
<1> QED
  BY <1>1, <1>3, <1>6 DEF RingInv

\* StartWrite: the writer reads the position of the reader.
LEMMA RingStartWrite == ASSUME RingAssumption, RingInv, StartWrite PROVE RingInv'
<1>1. /\ pc["writer"] = "idle" /\ pc' = [pc EXCEPT !["writer"] = "room"]
      /\ seen' = [seen EXCEPT !["writer"] = rd_pos]
      /\ UNCHANGED <<buf, rd_pos, wr_pos, size, written, taken>>
  BY DEF StartWrite, Goto, ring
<1>2. PICK c \in {"send", "overlapped"}, n \in 1..MaxPacket :
        call' = [call EXCEPT !["writer"] = c] /\ count' = [count EXCEPT !["writer"] = n]
  BY DEF StartWrite
<1>3. RingTypes'
  BY <1>1, <1>2 DEF RingInv, RingTypes, RingAssumption, Sides, RingPlaces
<1>4. /\ pc'["writer"] = "room" /\ pc'["reader"] = pc["reader"]
      /\ count'["reader"] = count["reader"]
      /\ seen'["writer"] = rd_pos /\ seen'["reader"] = seen["reader"]
  BY <1>1, <1>2 DEF RingInv, RingTypes, Sides
<1>5. RoomInv' /\ LeftInv'
  BY <1>1, <1>4, Distances DEF RingInv, RoomInv, LeftInv, RingTypes, RingAssumption, WriteFree, ReadFree
<1>6. Released' = Released /\ Published' = Published
  BY <1>1, <1>4 DEF Released, Published
<1>7. BytesCounted' /\ BytesInv' /\ TakenInv'
  BY <1>1, <1>6 DEF RingInv, BytesCounted, BytesInv, TakenInv, ReadFree
<1> QED
  BY <1>3, <1>5, <1>7 DEF RingInv

\* Room: send() has room for all of its bytes, init_recv() for what it takes.
LEMMA RingRoom == ASSUME RingAssumption, RingInv, Room PROVE RingInv'
<1> DEFINE kp == WriteFree(seen["writer"], wr_pos)
<1>1. /\ pc["writer"] = "room"
      /\ UNCHANGED <<buf, rd_pos, wr_pos, size, written, taken, call, seen>>
  BY DEF Room, ring
<1>2. kp <= WriteFree(rd_pos, wr_pos) /\ kp \in 0..Size-1
  BY <1>1, Distances DEF RingInv, RoomInv, RingTypes, RingAssumption, Sides
<1>3. \/ count' = count /\ pc' = [pc EXCEPT !["writer"] = "idle"]
      \/ /\ pc' = [pc EXCEPT !["writer"] = "fill"]
         /\ \E n \in Nat : n <= kp /\ count'["writer"] = n /\ count' = [count EXCEPT !["writer"] = n]
  <2>1. CASE call["writer"] = "send"
    <3>1. count' = count /\ Goto("writer", IF kp >= count["writer"] THEN "fill" ELSE "idle")
      BY <2>1 DEF Room
    <3>2. CASE kp >= count["writer"]
      <4>1. count' = [count EXCEPT !["writer"] = count["writer"]] /\ count["writer"] \in Nat
        BY <3>1 DEF RingInv, RingTypes, Sides
      <4> QED
        BY <3>1, <3>2, <4>1 DEF Goto
    <3>3. CASE ~(kp >= count["writer"])
      BY <3>1, <3>3 DEF Goto
    <3> QED
      BY <3>2, <3>3
  <2>2. CASE call["writer"] = "overlapped" /\ kp = 0
    BY <2>2 DEF Room, Goto
  <2>3. CASE call["writer"] = "overlapped" /\ kp > 0
    <3>1. /\ \E n \in 0..Lesser(kp, MaxBytes - written) : count' = [count EXCEPT !["writer"] = n]
          /\ pc' = [pc EXCEPT !["writer"] = "fill"]
      BY <2>3 DEF Room, Goto
    <3>2. \A n \in 0..Lesser(kp, MaxBytes - written) : n \in Nat /\ n <= kp
      BY <1>2 DEF Lesser, RingAssumption, RingInv, RingTypes
    <3> QED
      BY <3>1, <3>2 DEF RingInv, RingTypes, Sides
  <2> QED
    BY <2>1, <2>2, <2>3 DEF Room
<1>4. RingTypes'
  BY <1>1, <1>3 DEF RingInv, RingTypes, Sides, RingPlaces
<1>5. pc'["reader"] = pc["reader"] /\ count'["reader"] = count["reader"] /\ pc'["writer"] \in {"idle", "fill"}
  BY <1>3 DEF RingInv, RingTypes, Sides
<1>6. pc'["writer"] = "fill" => count'["writer"] <= kp /\ count'["writer"] \in Nat
  BY <1>3 DEF RingInv, RingTypes, Sides
<1>7. RoomInv' /\ LeftInv'
  <2>1. WriteFree(rd_pos, wr_pos) \in 0..Size-1
    BY Distances DEF RingInv, RingTypes, RingAssumption
  <2> QED
    BY <1>1, <1>2, <1>5, <1>6, <2>1 DEF RingInv, RoomInv, LeftInv, WriteFree, ReadFree
<1>8. Released' = Released /\ Published' = Published
  BY <1>1, <1>5 DEF Released, Published
<1>9. BytesCounted' /\ BytesInv' /\ TakenInv'
  BY <1>1, <1>8 DEF RingInv, BytesCounted, BytesInv, TakenInv, ReadFree
<1> QED
  BY <1>4, <1>7, <1>9 DEF RingInv

\* Fill: the bytes go where the reader has nothing.
LEMMA RingFill == ASSUME RingAssumption, RingInv, Fill PROVE RingInv'
<1> DEFINE n == count["writer"]
           front == Wrapped(wr_pos, n)
           D == ReadFree(rd_pos, wr_pos)
<1>1. /\ pc["writer"] = "fill" /\ pc' = [pc EXCEPT !["writer"] = "publish"]
      /\ buf' = [i \in 0..Size - 1 |->
                  IF i \in wr_pos..wr_pos + n - front - 1 THEN written + 1 + i - wr_pos
                  ELSE IF i < front THEN written + 1 + n - front + i ELSE buf[i]]
      /\ size' = size \o [k \in 1..n |-> n]
      /\ written' = written + n
      /\ UNCHANGED <<rd_pos, wr_pos, taken, call, seen, count>>
  BY DEF Fill, Goto
<1>2. /\ rd_pos \in 0..Size-1 /\ wr_pos \in 0..Size-1 /\ n \in Nat /\ written \in Nat
      /\ Size \in Nat \ {0}
  BY DEF RingInv, RingTypes, RingAssumption, Sides
<1>3. /\ D = (IF wr_pos < rd_pos THEN wr_pos - rd_pos + Size ELSE wr_pos - rd_pos)
      /\ D \in 0..Size-1 /\ n <= Size - 1 - D
  BY <1>1, <1>2, Distances DEF RingInv, RoomInv
<1>4. /\ front = (IF wr_pos + n - Size > 0 THEN wr_pos + n - Size ELSE 0)
      /\ front \in 0..n
  BY <1>2, <1>3 DEF Wrapped
<1>5. /\ pc'["writer"] = "publish" /\ pc'["reader"] = pc["reader"] /\ count'["writer"] = n
      /\ count'["reader"] = count["reader"]
  BY <1>1 DEF RingInv, RingTypes, Sides
<1>6. Released' = Released /\ Published' = Published /\ Published = written
  BY <1>1, <1>2, <1>5 DEF Released, Published
<1>7. RingTypes'
  <2>1. buf' \in [0..Size-1 -> Nat]
    <3>1. \A i \in 0..Size-1 : buf[i] \in Nat
      BY DEF RingInv, RingTypes
    <3>2. \A i \in 0..Size-1 : i >= wr_pos => written + 1 + i - wr_pos \in Nat
      BY <1>2
    <3>3. \A i \in 0..Size-1 : written + 1 + n - front + i \in Nat
      BY <1>2, <1>4
    <3>4. \A i \in 0..Size-1 :
            (IF i \in wr_pos..wr_pos + n - front - 1 THEN written + 1 + i - wr_pos
             ELSE IF i < front THEN written + 1 + n - front + i ELSE buf[i]) \in Nat
      BY <1>2, <3>1, <3>2, <3>3
    <3> QED
      BY <1>1, <3>4
  <2>2. size' \in Seq(Nat) /\ Len(size') = Len(size) + n
    <3> DEFINE ks == [k \in 1..n |-> n]
    <3>1. ks \in Seq(Nat) /\ Len(ks) = n
      BY <1>2
    <3>2. size \in Seq(Nat) /\ size' = size \o ks
      BY <1>1 DEF RingInv, RingTypes
    <3> HIDE DEF ks, n
    <3> QED
      BY <3>1, <3>2, ConcatProperties
  <2>3. /\ rd_pos' = rd_pos /\ wr_pos' = wr_pos /\ taken' = taken /\ seen' = seen /\ count' = count
        /\ pc' = [pc EXCEPT !["writer"] = "publish"] /\ written' = written + n
    BY <1>1
  <2>4. Len(size) = written /\ written' \in Nat /\ Len(size') = written'
    BY <1>2, <2>2, <2>3 DEF RingInv, RingTypes
  <2> QED
    BY <2>1, <2>2, <2>3, <2>4 DEF RingInv, RingTypes, Sides, RingPlaces
<1>8. RoomInv' /\ LeftInv'
  BY <1>1, <1>5 DEF RingInv, RoomInv, LeftInv, WriteFree, ReadFree
<1>9. BytesCounted' /\ TakenInv'
  BY <1>1, <1>6 DEF RingInv, BytesCounted, TakenInv, ReadFree
<1>10. BytesInv'
  <2> SUFFICES \A i \in 0..Size-1 : i < written' - Released' => buf'[(rd_pos' + i) % Size] = Released' + 1 + i
    BY DEF BytesInv
  <2> SUFFICES ASSUME NEW i \in 0..Size-1, i < written + n - Released
               PROVE  buf'[(rd_pos + i) % Size] = Released + 1 + i
    <3>1. written' = written + n /\ rd_pos' = rd_pos /\ Released' = Released
      BY <1>1, <1>6
    <3>2. Released \in Int
      BY DEF RingInv, BytesCounted
    <3> HIDE DEF n
    <3> QED
      BY <1>2, <3>1, <3>2
  <2> DEFINE p == (rd_pos + i) % Size
  <2>1. p = (IF rd_pos + i < Size THEN rd_pos + i ELSE rd_pos + i - Size) /\ p \in 0..Size-1
    <3>1. i \in 0..Size
      BY <1>2
    <3> QED
      BY <1>2, <3>1, Ahead
  <2>2. written - Released = D /\ Released \in Nat
    BY <1>6 DEF RingInv, BytesCounted
  <2>3. buf'[p] = IF p \in wr_pos..wr_pos + n - front - 1 THEN written + 1 + p - wr_pos
                  ELSE IF p < front THEN written + 1 + n - front + p ELSE buf[p]
    BY <1>1, <2>1
  <2> HIDE DEF p, D, front, n
  <2>4. CASE i < D
    <3>1. p \notin wr_pos..wr_pos + n - front - 1 /\ ~(p < front)
      BY <1>2, <1>3, <1>4, <2>1, <2>4
    <3>2. buf[p] = Released + 1 + i
      BY <2>2, <2>4 DEF RingInv, BytesInv, p
    <3> QED
      BY <2>3, <3>1, <3>2 DEF p
  <2>5. CASE i >= D /\ wr_pos + (i - D) < Size
    <3>1. p = wr_pos + (i - D)
      BY <1>2, <1>3, <2>1, <2>5
    <3>2. p \in wr_pos..wr_pos + n - front - 1
      BY <1>2, <1>3, <1>4, <2>1, <2>2, <2>5, <3>1 DEF n
    <3>3. written + 1 + p - wr_pos = Released + 1 + i
      BY <1>2, <1>3, <2>1, <2>2, <3>1
    <3> QED
      BY <2>3, <3>2, <3>3 DEF p
  <2>6. CASE i >= D /\ wr_pos + (i - D) >= Size
    <3>1. p = wr_pos + (i - D) - Size
      BY <1>2, <1>3, <2>1, <2>6
    <3>2. i - D < n
      BY <1>2, <1>3, <2>2 DEF n
    <3>3. wr_pos + n - Size > 0 /\ front = wr_pos + n - Size
      BY <1>2, <1>3, <1>4, <2>6, <3>2
    <3>4. p < front /\ p < wr_pos
      BY <1>2, <1>3, <3>1, <3>2, <3>3
    <3>5. written + 1 + n - front + p = Released + 1 + i
      BY <1>2, <1>3, <2>2, <3>1, <3>3
    <3>6. p \notin wr_pos..wr_pos + n - front - 1
      BY <1>2, <2>1, <3>4
    <3> QED
      BY <2>3, <3>4, <3>5, <3>6 DEF p
  <2> QED
    BY <1>2, <1>3, <2>4, <2>5, <2>6
<1> QED
  BY <1>7, <1>8, <1>9, <1>10 DEF RingInv

\* Publish: what was written becomes known.
LEMMA RingPublish == ASSUME RingAssumption, RingInv, Publish PROVE RingInv'
<1> DEFINE n == count["writer"]
<1>1. /\ pc["writer"] = "publish" /\ pc' = [pc EXCEPT !["writer"] = "idle"]
      /\ wr_pos' = (wr_pos + n) % Size
      /\ UNCHANGED <<buf, rd_pos, size, written, taken, call, seen, count>>
  BY DEF Publish, Goto
<1>2. /\ rd_pos \in 0..Size-1 /\ wr_pos \in 0..Size-1 /\ written \in Nat /\ Size \in Nat \ {0}
  BY DEF RingInv, RingTypes, RingAssumption
<1>3. n \in 0..WriteFree(rd_pos, wr_pos)
  <2>1. n \in Nat /\ n <= WriteFree(rd_pos, wr_pos)
    BY <1>1 DEF RingInv, RingTypes, RoomInv, Sides
  <2> QED
    BY <1>2, <2>1, Distances
<1>4. wr_pos' \in 0..Size-1 /\ ReadFree(rd_pos, wr_pos') = ReadFree(rd_pos, wr_pos) + n
  BY <1>1, <1>2, <1>3, WriterMoves
<1>5. pc'["writer"] = "idle" /\ pc'["reader"] = pc["reader"]
  BY <1>1 DEF RingInv, RingTypes, Sides
<1>6. RingTypes'
  BY <1>1, <1>4 DEF RingInv, RingTypes, Sides, RingPlaces
<1>7. Released' = Released /\ Published' = Published + n
  BY <1>1, <1>2, <1>3, <1>5 DEF Released, Published
<1>8. ReadFree(rd_pos, wr_pos)' = ReadFree(rd_pos, wr_pos) + n
  BY <1>1, <1>4 DEF ReadFree
<1>9. ReadFree(rd_pos, wr_pos) \in 0..Size-1 /\ n \in Nat
  BY <1>2, <1>3, Distances
<1>10. BytesCounted' /\ TakenInv' /\ BytesInv'
  BY <1>1, <1>7, <1>8, <1>9 DEF RingInv, BytesCounted, TakenInv, BytesInv
<1>11. RoomInv'
  BY <1>5 DEF RoomInv
<1>12. LeftInv'
  <2>1. ReadFree(rd_pos, seen["reader"])' = ReadFree(rd_pos, seen["reader"])
    BY <1>1 DEF ReadFree
  <2>2. ReadFree(rd_pos, seen["reader"]) \in Int /\ count["reader"] \in Int
    BY <1>2, Distances DEF RingInv, RingTypes, Sides
  <2> QED
    BY <1>1, <1>5, <1>8, <1>9, <2>1, <2>2 DEF RingInv, LeftInv
<1> QED
  BY <1>6, <1>10, <1>11, <1>12 DEF RingInv

\* What is written and not given up fits in the ring, with one place kept empty.
LEMMA FitsInRing ==
  ASSUME RingAssumption, RingInv
  PROVE  /\ written \in Nat /\ Released \in Nat
         /\ ReadFree(rd_pos, wr_pos) \in 0..Size-1
         /\ written - Released \in ReadFree(rd_pos, wr_pos)..Size-1
<1>1. /\ rd_pos \in 0..Size-1 /\ wr_pos \in 0..Size-1 /\ written \in Nat
      /\ Size \in Nat \ {0} /\ count["writer"] \in Nat
  BY DEF RingInv, RingTypes, RingAssumption, Sides
<1>2. /\ ReadFree(rd_pos, wr_pos) \in 0..Size-1
      /\ WriteFree(rd_pos, wr_pos) = Size - 1 - ReadFree(rd_pos, wr_pos)
  BY <1>1, Distances
<1>3. Released \in Nat /\ Published - Released = ReadFree(rd_pos, wr_pos)
  BY DEF RingInv, BytesCounted
<1>4. CASE pc["writer"] = "publish"
  BY <1>1, <1>2, <1>3, <1>4 DEF Published, RingInv, RoomInv
<1>5. CASE pc["writer"] # "publish"
  BY <1>1, <1>2, <1>3, <1>5 DEF Published
<1> QED
  BY <1>4, <1>5

\* StartRead: the reader reads the position of the writer.
LEMMA RingStartRead == ASSUME RingAssumption, RingInv, StartRead PROVE RingInv'
<1>1. /\ pc["reader"] = "idle" /\ pc' = [pc EXCEPT !["reader"] = "left"]
      /\ seen' = [seen EXCEPT !["reader"] = wr_pos]
      /\ UNCHANGED <<buf, rd_pos, wr_pos, size, written, taken>>
  BY DEF StartRead, Goto, ring
<1>2. PICK n \in 1..MaxPacket : count' = [count EXCEPT !["reader"] = n]
  BY DEF StartRead
<1>3. RingTypes'
  BY SMTT(30), <1>1, <1>2 DEF RingInv, RingTypes, RingAssumption, Sides, RingPlaces
<1>4. /\ pc'["reader"] = "left" /\ pc'["writer"] = pc["writer"]
      /\ count'["writer"] = count["writer"]
      /\ seen'["reader"] = wr_pos /\ seen'["writer"] = seen["writer"]
  BY <1>1, <1>2 DEF RingInv, RingTypes, Sides
<1>5. RoomInv' /\ LeftInv'
  BY <1>1, <1>4, Distances DEF RingInv, RoomInv, LeftInv, RingTypes, RingAssumption, WriteFree, ReadFree
<1>6. Released' = Released /\ Published' = Published
  BY <1>1, <1>4 DEF Released, Published
<1>7. BytesCounted' /\ BytesInv' /\ TakenInv'
  BY <1>1, <1>6 DEF RingInv, BytesCounted, BytesInv, TakenInv, ReadFree
<1> QED
  BY <1>3, <1>5, <1>7 DEF RingInv

\* Left: recv() and init_send() take no more than there is, and packet() a packet that is there.
LEMMA RingLeft == ASSUME RingAssumption, RingInv, BytesLeft PROVE RingInv'
<1> DEFINE kp == ReadFree(rd_pos, seen["reader"])
           now == ReadFree(rd_pos, wr_pos)
           all == size[buf[rd_pos]]
<1>1. /\ pc["reader"] = "left"
      /\ UNCHANGED <<buf, rd_pos, wr_pos, size, written, taken, call, seen>>
  BY DEF BytesLeft, ring
<1>2. kp <= now /\ kp \in 0..Size-1 /\ now \in 0..Size-1
  BY <1>1, Distances DEF RingInv, LeftInv, RingTypes, RingAssumption, Sides
<1>3. kp > 0 => all \in Nat
  <2> SUFFICES ASSUME kp > 0 PROVE all \in Nat
    OBVIOUS
  <2>1. 0 < written - Released /\ written \in Nat /\ Released \in Nat
    BY <1>2, FitsInRing
  <2>2. rd_pos \in 0..Size-1 /\ Size \in Nat \ {0} /\ size \in Seq(Nat) /\ Len(size) = written
    BY DEF RingInv, RingTypes, RingAssumption
  <2>3. (rd_pos + 0) % Size = rd_pos
    BY <2>2
  <2>4. buf[(rd_pos + 0) % Size] = Released + 1 + 0
    BY SMTT(30), <2>1, <2>2 DEF RingInv, BytesInv
  <2>5. buf[rd_pos] \in 1..Len(size)
    BY <2>1, <2>2, <2>3, <2>4
  <2> QED
    BY <2>2, <2>5
<1>4. \/ count' = count /\ pc' = [pc EXCEPT !["reader"] = "idle"]
      \/ /\ pc' = [pc EXCEPT !["reader"] = "copy"]
         /\ \E n \in Nat : n <= now /\ count' = [count EXCEPT !["reader"] = n]
  <2>0. count["reader"] \in Nat
    BY DEF RingInv, RingTypes, Sides
  <2>1. CASE kp = 0 /\ Goto("reader", "idle") /\ UNCHANGED count
    BY <2>1 DEF Goto
  <2>2. CASE /\ kp > 0 /\ call["reader"] \in {"recv", "peek"}
             /\ count' = [count EXCEPT !["reader"] = Lesser(kp, count["reader"])]
             /\ Goto("reader", "copy")
    <3>1. Lesser(kp, count["reader"]) \in Nat /\ Lesser(kp, count["reader"]) <= now
      BY <1>2, <2>0 DEF Lesser
    <3> QED
      BY <2>2, <3>1 DEF Goto
  <2>3. CASE /\ kp > 0 /\ call["reader"] = "packet"
             /\ IF all <= now /\ all <= count["reader"]
                THEN count' = [count EXCEPT !["reader"] = all] /\ Goto("reader", "copy")
                ELSE Goto("reader", "idle") /\ UNCHANGED count
    BY <1>3, <2>3 DEF Goto
  <2>4. CASE /\ kp > 0 /\ call["reader"] = "overlapped"
             /\ \E k \in 0..kp : count' = [count EXCEPT !["reader"] = k]
             /\ Goto("reader", "copy")
    <3>1. \A k \in 0..kp : k \in Nat /\ k <= now
      BY <1>2
    <3> QED
      BY <2>4, <3>1 DEF Goto
  <2> QED
    BY <2>1, <2>2, <2>3, <2>4 DEF BytesLeft
<1>5. RingTypes'
  BY SMTT(30), <1>1, <1>4 DEF RingInv, RingTypes, Sides, RingPlaces
<1>6. /\ pc'["writer"] = pc["writer"] /\ count'["writer"] = count["writer"]
      /\ pc'["reader"] \in {"idle", "copy"} /\ (pc'["reader"] = "copy" => count'["reader"] <= now)
  BY <1>4 DEF RingInv, RingTypes, Sides
<1>7. RoomInv' /\ LeftInv'
  BY <1>1, <1>6 DEF RingInv, RoomInv, LeftInv, WriteFree, ReadFree
<1>8. Released' = Released /\ Published' = Published
  BY <1>1, <1>6 DEF Released, Published
<1>9. BytesCounted' /\ BytesInv' /\ TakenInv'
  BY <1>1, <1>8 DEF RingInv, BytesCounted, BytesInv, TakenInv, ReadFree
<1> QED
  BY <1>5, <1>7, <1>9 DEF RingInv

\* Copy: the next bytes of the stream are taken, or looked at.
LEMMA RingCopy == ASSUME RingAssumption, RingInv, Copy PROVE RingInv'
<1> DEFINE n == count["reader"]
<1>1. pc["reader"] = "copy" /\ UNCHANGED <<buf, rd_pos, wr_pos, size, written, call, seen, count>>
  BY DEF Copy, ring
<1>2. /\ written - Released \in ReadFree(rd_pos, wr_pos)..Size-1
      /\ ReadFree(rd_pos, wr_pos) \in 0..Size-1
      /\ n \in Nat /\ n <= ReadFree(rd_pos, wr_pos)
      /\ rd_pos \in Nat /\ Size \in Nat \ {0} /\ taken \in Seq(Nat)
  BY <1>1, FitsInRing DEF RingInv, RingTypes, LeftInv, RingAssumption, Sides
<1>3. Released = Len(taken)
  BY <1>1, <1>2 DEF Released
<1>4. /\ taken' \in Seq(Nat) /\ TakenInv' /\ pc' \in [Sides -> RingPlaces]
      /\ \/ taken' = taken /\ pc' = [pc EXCEPT !["reader"] = "idle"]
         \/ Len(taken') = Len(taken) + n /\ pc' = [pc EXCEPT !["reader"] = "release"]
  <2>0. pc \in [Sides -> RingPlaces]
    BY DEF RingInv, RingTypes
  <2>1. CASE call["reader"] = "peek"
    BY <1>2, <2>0, <2>1 DEF Copy, Goto, RingInv, TakenInv, RingPlaces
  <2>2. CASE call["reader"] # "peek"
    <3> DEFINE bs == [k \in 1..n |-> buf[(rd_pos + k - 1) % Size]]
    <3>1. taken' = taken \o bs /\ pc' = [pc EXCEPT !["reader"] = "release"]
      BY <2>2 DEF Copy, Goto
    <3>2. \A k \in 1..n : bs[k] = Len(taken) + k
      <4> SUFFICES ASSUME NEW k \in 1..n PROVE buf[(rd_pos + k - 1) % Size] = Len(taken) + k
        OBVIOUS
      <4>1. k - 1 \in 0..Size-1 /\ k - 1 < written - Released
        BY <1>2
      <4>2. buf[(rd_pos + (k - 1)) % Size] = Released + 1 + (k - 1)
        BY <4>1 DEF RingInv, BytesInv
      <4>3. rd_pos + (k - 1) = rd_pos + k - 1
        BY <1>2
      <4> QED
        BY <1>2, <1>3, <4>2, <4>3
    <3>3. bs \in Seq(Nat) /\ Len(bs) = n
      <4>1. Len(taken) \in Nat /\ bs = [k \in 1..n |-> bs[k]]
        BY <1>2
      <4> HIDE DEF bs, n
      <4>2. \A k \in 1..n : bs[k] \in Nat
        BY <3>2, <4>1
      <4>3. bs \in [1..n -> Nat]
        BY <4>1, <4>2
      <4> QED
        BY <1>2, <4>3
    <3> HIDE DEF bs, n
    <3>4. /\ taken' \in Seq(Nat) /\ Len(taken') = Len(taken) + n
          /\ \A k \in 1..Len(taken) : taken'[k] = taken[k]
          /\ \A k \in Len(taken)+1..Len(taken)+n : taken'[k] = bs[k - Len(taken)]
      <4>1. taken \in Seq(Nat)
        BY <1>2
      <4> QED
        BY <3>1, <3>3, <4>1, ConcatProperties
    <3>5. TakenInv'
      <4> SUFFICES ASSUME NEW k \in 1..Len(taken') PROVE taken'[k] = k
        BY DEF TakenInv
      <4>1. CASE k <= Len(taken)
        <5>1. Len(taken) \in Nat /\ k \in 1..Len(taken)
          BY <1>2, <4>1
        <5>2. taken[k] = k
          BY <5>1 DEF RingInv, TakenInv
        <5> QED
          BY <3>4, <5>1, <5>2
      <4>2. CASE k > Len(taken)
        <5>1. k \in Len(taken)+1..Len(taken)+n /\ k - Len(taken) \in 1..n
          BY <1>2, <3>4, <4>2
        <5> QED
          BY <1>2, <3>2, <3>4, <5>1
      <4> QED
        BY <1>2, <3>4, <4>1, <4>2
    <3> QED
      BY <2>0, <3>1, <3>4, <3>5 DEF RingPlaces
  <2> QED
    BY <2>1, <2>2
<1>5. /\ pc'["reader"] \in {"idle", "release"} /\ pc'["writer"] = pc["writer"]
      /\ Released' = Released /\ Published' = Published
  <2>1. /\ pc'["writer"] = pc["writer"]
        /\ \/ taken' = taken /\ pc'["reader"] = "idle"
           \/ Len(taken') = Len(taken) + n /\ pc'["reader"] = "release"
    BY <1>4 DEF RingInv, RingTypes, Sides
  <2>2. Len(taken) \in Nat
    BY <1>2
  <2> QED
    BY <1>1, <1>2, <1>3, <2>1, <2>2 DEF Released, Published
<1>6. RingTypes'
  BY <1>1, <1>4, <1>5 DEF RingInv, RingTypes
<1>7. RoomInv' /\ LeftInv'
  BY <1>1, <1>2, <1>5 DEF RingInv, RoomInv, LeftInv, WriteFree, ReadFree
<1>8. BytesCounted' /\ BytesInv'
  BY <1>1, <1>5 DEF RingInv, BytesCounted, BytesInv, ReadFree
<1> QED
  BY <1>4, <1>6, <1>7, <1>8 DEF RingInv

\* Release: the places of the bytes that were taken may be written again.
LEMMA RingRelease == ASSUME RingAssumption, RingInv, Release PROVE RingInv'
<1> DEFINE n == count["reader"]
<1>1. /\ pc["reader"] = "release" /\ pc' = [pc EXCEPT !["reader"] = "idle"]
      /\ rd_pos' = (rd_pos + n) % Size
      /\ UNCHANGED <<buf, wr_pos, size, written, taken, call, seen, count>>
  BY DEF Release, Goto
<1>2. /\ rd_pos \in 0..Size-1 /\ wr_pos \in 0..Size-1 /\ written \in Nat /\ Size \in Nat \ {0}
      /\ Released \in Nat
  BY DEF RingInv, RingTypes, BytesCounted, RingAssumption
<1>3. n \in 0..ReadFree(rd_pos, wr_pos)
  <2>1. n \in Nat /\ n <= ReadFree(rd_pos, wr_pos)
    BY <1>1 DEF RingInv, RingTypes, LeftInv, Sides
  <2> QED
    BY <1>2, <2>1, Distances
<1>4. rd_pos' \in 0..Size-1 /\ ReadFree(rd_pos', wr_pos) = ReadFree(rd_pos, wr_pos) - n
  BY <1>1, <1>2, <1>3, ReaderMoves
<1>5. pc'["reader"] = "idle" /\ pc'["writer"] = pc["writer"]
  BY <1>1 DEF RingInv, RingTypes, Sides
<1>6. RingTypes'
  BY <1>1, <1>4 DEF RingInv, RingTypes, Sides, RingPlaces
<1>7. /\ ReadFree(rd_pos, wr_pos) \in 0..Size-1 /\ n \in Nat
      /\ written - Released \in ReadFree(rd_pos, wr_pos)..Size-1
  BY <1>2, <1>3, FitsInRing
<1>8. Released' = Released + n /\ Published' = Published
  <2>1. Released = Len(taken) - n /\ Len(taken) \in Nat
    BY <1>1 DEF Released, RingInv, RingTypes
  <2>2. Released' = Len(taken)
    BY <1>1, <1>5, <2>1 DEF Released
  <2> QED
    BY <1>1, <1>5, <1>7, <2>1, <2>2 DEF Published
<1>9. ReadFree(rd_pos, wr_pos)' = ReadFree(rd_pos, wr_pos) - n
  BY <1>1, <1>4 DEF ReadFree
<1>10. BytesCounted' /\ TakenInv'
  <2>1. TakenInv'
    BY <1>1 DEF RingInv, TakenInv
  <2>2. BytesCounted'
    BY <1>1, <1>2, <1>7, <1>8, <1>9 DEF RingInv, BytesCounted
  <2> QED
    BY <2>1, <2>2
<1>11. RoomInv'
  <2>1. WriteFree(rd_pos', wr_pos) = WriteFree(rd_pos, wr_pos) + n
    <3>1. /\ WriteFree(rd_pos, wr_pos) = Size - 1 - ReadFree(rd_pos, wr_pos)
          /\ WriteFree(rd_pos', wr_pos) = Size - 1 - ReadFree(rd_pos', wr_pos)
      BY <1>2, <1>4, Distances
    <3> QED
      BY <1>2, <1>4, <1>7, <3>1
  <2>2. /\ WriteFree(rd_pos, wr_pos)' = WriteFree(rd_pos', wr_pos)
        /\ WriteFree(seen["writer"], wr_pos)' = WriteFree(seen["writer"], wr_pos)
    BY <1>1 DEF WriteFree
  <2>3. /\ WriteFree(seen["writer"], wr_pos) \in Int /\ WriteFree(rd_pos, wr_pos) \in Int
        /\ count["writer"] \in Int
    <3>1. seen["writer"] \in 0..Size-1 /\ count["writer"] \in Int
      BY DEF RingInv, RingTypes, Sides
    <3>2. WriteFree(seen["writer"], wr_pos) \in 0..Size-1
      BY <1>2, <3>1, Distances
    <3>3. WriteFree(rd_pos, wr_pos) \in 0..Size-1
      BY <1>2, Distances
    <3> QED
      BY <1>2, <3>1, <3>2, <3>3
  <2> QED
    BY <1>1, <1>5, <1>7, <2>1, <2>2, <2>3 DEF RingInv, RoomInv
<1>12. LeftInv'
  BY <1>5 DEF LeftInv
<1>13. BytesInv'
  <2> SUFFICES \A i \in 0..Size-1 : i < written' - Released' => buf'[(rd_pos' + i) % Size] = Released' + 1 + i
    BY DEF BytesInv
  <2>1. buf' = buf /\ written' = written
    BY <1>1
  <2> SUFFICES ASSUME NEW i \in 0..Size-1, i < written - (Released + n)
               PROVE  buf[(rd_pos' + i) % Size] = Released + n + 1 + i
    BY <1>8, <2>1
  <2>2. n + i \in 0..Size-1 /\ n + i < written - Released
    BY <1>2, <1>7
  <2>3. buf[(rd_pos + (n + i)) % Size] = Released + 1 + (n + i)
    BY <2>2 DEF RingInv, BytesInv
  <2>4. (rd_pos' + i) % Size = (rd_pos + (n + i)) % Size
    <3>1. n \in 0..Size /\ i \in 0..Size /\ n + i \in 0..Size
      BY <1>2, <1>7, <2>2
    <3>2. (rd_pos + n) % Size = (IF rd_pos + n < Size THEN rd_pos + n ELSE rd_pos + n - Size)
      BY <1>2, <3>1, Ahead
    <3>3. (rd_pos + (n + i)) % Size = (IF rd_pos + (n + i) < Size THEN rd_pos + (n + i) ELSE rd_pos + (n + i) - Size)
      BY <1>2, <3>1, Ahead
    <3>4. (rd_pos' + i) % Size = (IF rd_pos' + i < Size THEN rd_pos' + i ELSE rd_pos' + i - Size)
      BY <1>2, <1>4, <3>1, Ahead
    <3>5. rd_pos' = (IF rd_pos + n < Size THEN rd_pos + n ELSE rd_pos + n - Size)
      BY <1>1, <3>2
    <3> HIDE DEF n
    <3>6. (IF rd_pos' + i < Size THEN rd_pos' + i ELSE rd_pos' + i - Size)
            = (IF rd_pos + (n + i) < Size THEN rd_pos + (n + i) ELSE rd_pos + (n + i) - Size)
      BY <1>2, <1>7, <2>2, <3>1, <3>5
    <3> QED
      BY <3>3, <3>4, <3>6
  <2> QED
    BY <1>2, <1>7, <2>3, <2>4
<1> QED
  BY <1>6, <1>10, <1>11, <1>12, <1>13 DEF RingInv

-----------------------------------------------------------------------------
(* RingBuffer: the theorem *)

\* The bytes come out of the ring as they went in, none twice and none lost, for a ring, packets and
\* a stream of every length, whichever of its calls each side uses.
THEOREM RingKeepsOrder == ASSUME RingAssumption PROVE RingSpec => []BytesInOrder
<1>1. RingInit => RingInv
  BY RingInit_Inv
<1>2. RingInv /\ [RingNext]_ringVars => RingInv'
  <2> SUFFICES ASSUME RingInv, [RingNext]_ringVars PROVE RingInv'
    OBVIOUS
  <2>1. CASE Writer
    BY <2>1, RingStartWrite, RingRoom, RingFill, RingPublish DEF Writer
  <2>2. CASE Reader
    BY <2>2, RingStartRead, RingLeft, RingCopy, RingRelease DEF Reader
  <2>3. CASE UNCHANGED ringVars
    BY <2>3 DEF ringVars, ring, RingInv, RingTypes, RoomInv, LeftInv, BytesCounted, BytesInv,
                TakenInv, Released, Published, ReadFree, WriteFree
  <2> QED
    BY <2>1, <2>2, <2>3 DEF RingNext
<1>3. RingInv => BytesInOrder
  BY DEF RingInv, RingTypes, TakenInv, BytesInOrder
<1> QED
  BY <1>1, <1>2, <1>3, PTL DEF RingSpec

-----------------------------------------------------------------------------
(* Arr: what each loop leaves, and that every operation leaves objects up to len and *)
(* raw memory behind, with the elements its caller asked for. *)

LEMMA LeastNumber ==
  ASSUME NEW T \in SUBSET Nat, T # {}
  PROVE  \E x \in T : \A y \in T : x <= y
<1>1. PICK x \in T : \A y \in T : ~(<<y, x>> \in OpToRel(<, Nat))
  BY NatLessThanWellFounded, WFMin
<1>2. \A y \in T : ~(y < x)
  BY <1>1 DEF OpToRel
<1>3. x \in Nat /\ \A y \in T : y \in Nat
  OBVIOUS
<1> QED
  BY <1>2, <1>3

\* Two runs of a loop that agree as long as they have agreed end alike.
LEMMA SameEnd ==
  ASSUME NEW n \in Nat, NEW A, NEW R, A[0] = R[0], \A i \in 1..n : A[i - 1] = R[i - 1] => A[i] = R[i]
  PROVE  A[n] = R[n]
<1> DEFINE Differ == {i \in 0..n : A[i] # R[i]}
<1> SUFFICES ASSUME Differ # {} PROVE FALSE
  OBVIOUS
<1>1. PICK i \in Differ : \A j \in Differ : i <= j
  <2> HIDE DEF Differ
  <2>1. Differ \in SUBSET Nat
    BY DEF Differ
  <2> QED
    BY <2>1, LeastNumber
<1>2. i \in 1..n /\ A[i] # R[i]
  BY <1>1
<1>3. i - 1 \in 0..n /\ i - 1 \notin Differ
  BY <1>1, <1>2
<1> QED
  BY <1>2, <1>3

-----------------------------------------------------------------------------
(* Arr: what each loop leaves *)

\* A function that is given on D.
IsMap(f, D) == f = [j \in D |-> f[j]]

\* The n cells from to on are raw, or hold objects.
RawCells(m, n, to) == \A j \in to..to + n - 1 : j \in DOMAIN m /\ m[j] = RAW
Occupied(m, n, to) == \A j \in to..to + n - 1 : j \in DOMAIN m /\ m[j] # RAW

\* What x gives from m are cells before place to, or none before it.
ReadsBefore(m, x, n, to) ==
  x.own => x.at \in Int /\ x.at + n <= to /\ x.at..x.at + n - 1 \subseteq DOMAIN m
ReadsAhead(m, x, n, to) ==
  x.own => x.at \in Int /\ x.at >= to /\ x.at..x.at + n - 1 \subseteq DOMAIN m

\* uninitialized_copy_n, from cells before those that it fills.
LEMMA Constructs ==
  ASSUME NEW m, NEW x, NEW n \in Nat, NEW to \in Int,
         IsMap(m, DOMAIN m),
         RawCells(m, n, to),
         ReadsBefore(m, x, n, to)
  PROVE  /\ IsMap(Construct(m, x, n, to), DOMAIN m)
         /\ \A j \in DOMAIN m : Construct(m, x, n, to)[j] = IF j \in to..to + n - 1 THEN Read(m, x, j - to) ELSE m[j]
<1> DEFINE Step(f, i) == IF i = 0 THEN m ELSE Made(f[i - 1], to + (i - 1), Read(f[i - 1], x, i - 1))
           Midway(i) == [j \in DOMAIN m |-> IF j \in to..to + i - 1 THEN Read(m, x, j - to) ELSE m[j]]
           R == [i \in 0..n |-> Midway(i)]
           A == CHOOSE f : f = [i \in 0..n |-> Step(f, i)]
<1>1. Construct(m, x, n, to) = A[n]
  BY DEF Construct, Loop
<1>2. Midway(0) = m
  BY DEF IsMap
<1>3. \A i \in 1..n : Midway(i) = Made(Midway(i - 1), to + (i - 1), Read(Midway(i - 1), x, i - 1))
  <2> SUFFICES ASSUME NEW i \in 1..n
      PROVE  Midway(i) = Made(Midway(i - 1), to + (i - 1), Read(Midway(i - 1), x, i - 1))
    OBVIOUS
  <2>1. to + (i - 1) \in DOMAIN m /\ Midway(i - 1)[to + (i - 1)] = RAW
    BY DEF RawCells
  <2>2. Read(Midway(i - 1), x, i - 1) = Read(m, x, i - 1)
    BY DEF Read, ReadsBefore
  <2>3. \A e : Made(Midway(i - 1), to + (i - 1), e)
               = [j \in DOMAIN m |-> IF j = to + (i - 1) THEN e ELSE Midway(i - 1)[j]]
    BY <2>1 DEF Made
  <2> QED
    BY <2>2, <2>3
<1> HIDE DEF Midway
<1>4. \A i \in 0..n : R[i] = Step(R, i)
  BY <1>2, <1>3
<1>5. R = [i \in 0..n |-> Step(R, i)]
  BY <1>4
<1>6. A = [i \in 0..n |-> Step(A, i)]
  BY <1>5
<1>7. A[0] = R[0] /\ \A i \in 1..n : A[i - 1] = R[i - 1] => A[i] = R[i]
  <2> HIDE DEF R, A
  <2>1. \A i \in 0..n : A[i] = Step(A, i)
    BY <1>6
  <2> QED
    BY <2>1, <1>4
<1>8. A[n] = R[n]
  BY <1>7, SameEnd
<1> QED
  BY <1>1, <1>8 DEF Midway, IsMap

\* copy_n, from cells that are not before those that it fills.
LEMMA Assigns ==
  ASSUME NEW m, NEW x, NEW n \in Nat, NEW to \in Int,
         IsMap(m, DOMAIN m),
         Occupied(m, n, to),
         ReadsAhead(m, x, n, to)
  PROVE  /\ IsMap(Assign(m, x, n, to), DOMAIN m)
         /\ \A j \in DOMAIN m : Assign(m, x, n, to)[j] = IF j \in to..to + n - 1 THEN Read(m, x, j - to) ELSE m[j]
<1> DEFINE Step(f, i) == IF i = 0 THEN m ELSE Given(f[i - 1], to + (i - 1), Read(f[i - 1], x, i - 1))
           Midway(i) == [j \in DOMAIN m |-> IF j \in to..to + i - 1 THEN Read(m, x, j - to) ELSE m[j]]
           R == [i \in 0..n |-> Midway(i)]
           A == CHOOSE f : f = [i \in 0..n |-> Step(f, i)]
<1>1. Assign(m, x, n, to) = A[n]
  BY DEF Assign, Loop
<1>2. Midway(0) = m
  BY DEF IsMap
<1>3. \A i \in 1..n : Midway(i) = Given(Midway(i - 1), to + (i - 1), Read(Midway(i - 1), x, i - 1))
  <2> SUFFICES ASSUME NEW i \in 1..n
      PROVE  Midway(i) = Given(Midway(i - 1), to + (i - 1), Read(Midway(i - 1), x, i - 1))
    OBVIOUS
  <2>1. to + (i - 1) \in DOMAIN m /\ Midway(i - 1)[to + (i - 1)] # RAW
    BY DEF Occupied
  <2>2. Read(Midway(i - 1), x, i - 1) = Read(m, x, i - 1)
    BY DEF Read, ReadsAhead
  <2>3. \A e : Given(Midway(i - 1), to + (i - 1), e)
               = [j \in DOMAIN m |-> IF j = to + (i - 1) THEN e ELSE Midway(i - 1)[j]]
    BY <2>1 DEF Given
  <2> QED
    BY <2>2, <2>3
<1> HIDE DEF Midway
<1>4. \A i \in 0..n : R[i] = Step(R, i)
  BY <1>2, <1>3
<1>5. R = [i \in 0..n |-> Step(R, i)]
  BY <1>4
<1>6. A = [i \in 0..n |-> Step(A, i)]
  BY <1>5
<1>7. A[0] = R[0] /\ \A i \in 1..n : A[i - 1] = R[i - 1] => A[i] = R[i]
  <2> HIDE DEF R, A
  <2>1. \A i \in 0..n : A[i] = Step(A, i)
    BY <1>6
  <2> QED
    BY <2>1, <1>4
<1>8. A[n] = R[n]
  BY <1>7, SameEnd
<1> QED
  BY <1>1, <1>8 DEF Midway, IsMap

\* Objects are moved up, the last one first.
LEMMA AssignsDown ==
  ASSUME NEW m, NEW from \in Int, NEW n \in Nat, NEW to \in Int, from <= to,
         IsMap(m, DOMAIN m),
         Occupied(m, n, to),
         from..from + n - 1 \subseteq DOMAIN m
  PROVE  /\ IsMap(AssignDown(m, from, n, to), DOMAIN m)
         /\ \A j \in DOMAIN m : AssignDown(m, from, n, to)[j] = IF j \in to + n - n..to + n - 1 THEN m[from + (j - to)] ELSE m[j]
<1> DEFINE Step(f, i) == IF i = 0 THEN m ELSE Given(f[i - 1], to + n - 1 - (i - 1), f[i - 1][from + n - 1 - (i - 1)])
           Midway(i) == [j \in DOMAIN m |-> IF j \in to + n - i..to + n - 1 THEN m[from + (j - to)] ELSE m[j]]
           R == [i \in 0..n |-> Midway(i)]
           A == CHOOSE f : f = [i \in 0..n |-> Step(f, i)]
<1>1. AssignDown(m, from, n, to) = A[n]
  BY DEF AssignDown, Loop
<1>2. Midway(0) = m
  BY DEF IsMap
<1>3. \A i \in 1..n : Midway(i) = Given(Midway(i - 1), to + n - 1 - (i - 1), Midway(i - 1)[from + n - 1 - (i - 1)])
  <2> SUFFICES ASSUME NEW i \in 1..n
      PROVE  Midway(i) = Given(Midway(i - 1), to + n - 1 - (i - 1), Midway(i - 1)[from + n - 1 - (i - 1)])
    OBVIOUS
  <2>1. to + n - 1 - (i - 1) \in DOMAIN m /\ Midway(i - 1)[to + n - 1 - (i - 1)] # RAW
    BY DEF Occupied
  <2>2. Midway(i - 1)[from + n - 1 - (i - 1)] = m[from + n - 1 - (i - 1)]
    OBVIOUS
  <2>3. \A e : Given(Midway(i - 1), to + n - 1 - (i - 1), e)
               = [j \in DOMAIN m |-> IF j = to + n - 1 - (i - 1) THEN e ELSE Midway(i - 1)[j]]
    BY <2>1 DEF Given
  <2> QED
    BY <2>2, <2>3
<1> HIDE DEF Midway
<1>4. \A i \in 0..n : R[i] = Step(R, i)
  BY <1>2, <1>3
<1>5. R = [i \in 0..n |-> Step(R, i)]
  BY <1>4
<1>6. A = [i \in 0..n |-> Step(A, i)]
  BY <1>5
<1>7. A[0] = R[0] /\ \A i \in 1..n : A[i - 1] = R[i - 1] => A[i] = R[i]
  <2> HIDE DEF R, A
  <2>1. \A i \in 0..n : A[i] = Step(A, i)
    BY <1>6
  <2> QED
    BY <2>1, <1>4
<1>8. A[n] = R[n]
  BY <1>7, SameEnd
<1> QED
  BY <1>1, <1>8 DEF Midway, IsMap

\* uninitialized_fill
LEMMA ConstructsAll ==
  ASSUME NEW m, NEW e, NEW n \in Nat, NEW to \in Int,
         IsMap(m, DOMAIN m),
         RawCells(m, n, to)
  PROVE  /\ IsMap(ConstructAll(m, e, n, to), DOMAIN m)
         /\ \A j \in DOMAIN m : ConstructAll(m, e, n, to)[j] = IF j \in to..to + n - 1 THEN e ELSE m[j]
<1> DEFINE Step(f, i) == IF i = 0 THEN m ELSE Made(f[i - 1], to + (i - 1), e)
           Midway(i) == [j \in DOMAIN m |-> IF j \in to..to + i - 1 THEN e ELSE m[j]]
           R == [i \in 0..n |-> Midway(i)]
           A == CHOOSE f : f = [i \in 0..n |-> Step(f, i)]
<1>1. ConstructAll(m, e, n, to) = A[n]
  BY DEF ConstructAll, Loop
<1>2. Midway(0) = m
  BY DEF IsMap
<1>3. \A i \in 1..n : Midway(i) = Made(Midway(i - 1), to + (i - 1), e)
  <2> SUFFICES ASSUME NEW i \in 1..n
      PROVE  Midway(i) = Made(Midway(i - 1), to + (i - 1), e)
    OBVIOUS
  <2>1. to + (i - 1) \in DOMAIN m /\ Midway(i - 1)[to + (i - 1)] = RAW
    BY DEF RawCells
  <2>2. Made(Midway(i - 1), to + (i - 1), e)
               = [j \in DOMAIN m |-> IF j = to + (i - 1) THEN e ELSE Midway(i - 1)[j]]
    BY <2>1 DEF Made
  <2> QED
    BY <2>2
<1> HIDE DEF Midway
<1>4. \A i \in 0..n : R[i] = Step(R, i)
  BY <1>2, <1>3
<1>5. R = [i \in 0..n |-> Step(R, i)]
  BY <1>4
<1>6. A = [i \in 0..n |-> Step(A, i)]
  BY <1>5
<1>7. A[0] = R[0] /\ \A i \in 1..n : A[i - 1] = R[i - 1] => A[i] = R[i]
  <2> HIDE DEF R, A
  <2>1. \A i \in 0..n : A[i] = Step(A, i)
    BY <1>6
  <2> QED
    BY <2>1, <1>4
<1>8. A[n] = R[n]
  BY <1>7, SameEnd
<1> QED
  BY <1>1, <1>8 DEF Midway, IsMap

\* fill
LEMMA AssignsAll ==
  ASSUME NEW m, NEW e, NEW n \in Nat, NEW to \in Int,
         IsMap(m, DOMAIN m),
         Occupied(m, n, to)
  PROVE  /\ IsMap(AssignAll(m, e, n, to), DOMAIN m)
         /\ \A j \in DOMAIN m : AssignAll(m, e, n, to)[j] = IF j \in to..to + n - 1 THEN e ELSE m[j]
<1> DEFINE Step(f, i) == IF i = 0 THEN m ELSE Given(f[i - 1], to + (i - 1), e)
           Midway(i) == [j \in DOMAIN m |-> IF j \in to..to + i - 1 THEN e ELSE m[j]]
           R == [i \in 0..n |-> Midway(i)]
           A == CHOOSE f : f = [i \in 0..n |-> Step(f, i)]
<1>1. AssignAll(m, e, n, to) = A[n]
  BY DEF AssignAll, Loop
<1>2. Midway(0) = m
  BY DEF IsMap
<1>3. \A i \in 1..n : Midway(i) = Given(Midway(i - 1), to + (i - 1), e)
  <2> SUFFICES ASSUME NEW i \in 1..n
      PROVE  Midway(i) = Given(Midway(i - 1), to + (i - 1), e)
    OBVIOUS
  <2>1. to + (i - 1) \in DOMAIN m /\ Midway(i - 1)[to + (i - 1)] # RAW
    BY DEF Occupied
  <2>2. Given(Midway(i - 1), to + (i - 1), e)
               = [j \in DOMAIN m |-> IF j = to + (i - 1) THEN e ELSE Midway(i - 1)[j]]
    BY <2>1 DEF Given
  <2> QED
    BY <2>2
<1> HIDE DEF Midway
<1>4. \A i \in 0..n : R[i] = Step(R, i)
  BY <1>2, <1>3
<1>5. R = [i \in 0..n |-> Step(R, i)]
  BY <1>4
<1>6. A = [i \in 0..n |-> Step(A, i)]
  BY <1>5
<1>7. A[0] = R[0] /\ \A i \in 1..n : A[i - 1] = R[i - 1] => A[i] = R[i]
  <2> HIDE DEF R, A
  <2>1. \A i \in 0..n : A[i] = Step(A, i)
    BY <1>6
  <2> QED
    BY <2>1, <1>4
<1>8. A[n] = R[n]
  BY <1>7, SameEnd
<1> QED
  BY <1>1, <1>8 DEF Midway, IsMap

-----------------------------------------------------------------------------
(* Arr: the invariant *)

\* Objects up to n, and raw cells behind.
Filled(m, n) ==
  /\ m \in Seq(Elems \cup {RAW}) /\ n \in 0..Len(m)
  /\ \A j \in 1..n : m[j] \in Elems
  /\ \A j \in n + 1..Len(m) : m[j] = RAW

ArrayInv == Filled(mem, len)

LEMMA AsSeq ==
  ASSUME NEW S, NEW c \in Nat, NEW f \in [1..c -> S]
  PROVE  f \in Seq(S) /\ Len(f) = c /\ DOMAIN f = 1..c
  OBVIOUS

LEMMA SeqAs ==
  ASSUME NEW S, NEW q \in Seq(S), NEW r, r \in Seq(S), Len(r) = Len(q), \A j \in 1..Len(q) : q[j] = r[j]
  PROVE  q = r
  OBVIOUS

Concat(s, t) == s \o t

LEMMA ConcatIs ==
  ASSUME NEW S, NEW s \in Seq(S), NEW t \in Seq(S)
  PROVE  /\ Concat(s, t) \in Seq(S) /\ Len(s) \in Nat /\ Len(t) \in Nat /\ Len(Concat(s, t)) = Len(s) + Len(t)
         /\ \A j \in 1..Len(s) + Len(t) : Concat(s, t)[j] = IF j <= Len(s) THEN s[j] ELSE t[j - Len(s)]
  BY DEF Concat

\* The objects of filled memory, cell by cell.
LEMMA FilledIs ==
  ASSUME ArrayAssumption, NEW m, NEW n, Filled(m, n)
  PROVE  /\ IsMap(m, 1..Len(m)) /\ DOMAIN m = 1..Len(m) /\ Len(m) \in Nat /\ n \in Nat /\ n <= Len(m)
         /\ \A j \in 1..n : m[j] \in Elems /\ m[j] # RAW
         /\ \A j \in n + 1..Len(m) : m[j] = RAW
         /\ SubSeq(m, 1, n) \in Seq(Elems) /\ Len(SubSeq(m, 1, n)) = n
         /\ \A j \in 1..n : SubSeq(m, 1, n)[j] = m[j]
<1>1. m \in Seq(Elems \cup {RAW}) /\ n \in 0..Len(m) /\ RAW \notin Elems
  BY DEF Filled, ArrayAssumption
<1>2. SubSeq(m, 1, n) = [j \in 1..n |-> m[j]]
  BY <1>1
<1>3. [j \in 1..n |-> m[j]] \in [1..n -> Elems]
  BY DEF Filled
<1> QED
  BY <1>1, <1>2, <1>3, AsSeq DEF Filled, IsMap

\* Memory that is given cell by cell holds the objects q.
LEMMA FillsWith ==
  ASSUME ArrayAssumption, NEW c \in Nat, NEW q \in Seq(Elems), NEW n, n = Len(q), n <= c,
         NEW m, IsMap(m, 1..c), \A j \in 1..c : m[j] = IF j <= n THEN q[j] ELSE RAW
  PROVE  Filled(m, n) /\ SubSeq(m, 1, n) = q
<1>1. n \in Nat /\ \A j \in 1..n : q[j] \in Elems
  OBVIOUS
<1>2. m \in [1..c -> Elems \cup {RAW}]
  <2>1. \A j \in 1..c : m[j] \in Elems \cup {RAW}
    BY <1>1
  <2> QED
    BY <2>1 DEF IsMap
<1>3. m \in Seq(Elems \cup {RAW}) /\ Len(m) = c
  BY <1>2, AsSeq
<1>4. Filled(m, n)
  BY <1>1, <1>3 DEF Filled
<1>5. SubSeq(m, 1, n) \in Seq(Elems) /\ Len(SubSeq(m, 1, n)) = n /\ \A j \in 1..n : SubSeq(m, 1, n)[j] = m[j]
  BY <1>4, FilledIs
<1>6. \A j \in 1..n : SubSeq(m, 1, n)[j] = q[j]
  BY <1>1, <1>5
<1> HIDE <1>3
<1> DEFINE r == SubSeq(m, 1, n)
<1> HIDE DEF r
<1>7. r = q
  BY <1>1, <1>5, <1>6, SeqAs DEF r
<1> QED
  BY <1>4, <1>7 DEF r

\* _alloc_copy: a new block
LEMMA FreshIs ==
  ASSUME ArrayAssumption, NEW s \in Seq(Elems), NEW c \in Nat, c >= Len(s), NEW m, m = Fresh(s, c)
  PROVE  IsMap(m, 1..c) /\ \A j \in 1..c : m[j] = IF j <= Len(s) THEN s[j] ELSE RAW
<1> DEFINE r == [i \in 1..c - Len(s) |-> RAW]
<1>1. r \in Seq({RAW}) /\ Len(r) = c - Len(s) /\ \A i \in 1..c - Len(s) : r[i] = RAW
  BY AsSeq
<1>2. m = Concat(s, r)
  BY DEF Fresh, Raw, Concat
<1> HIDE DEF r
<1>3. s \in Seq(Elems \cup {RAW}) /\ r \in Seq(Elems \cup {RAW}) /\ Len(s) \in Nat /\ c = Len(s) + Len(r)
  BY <1>1
<1>4. /\ m \in Seq(Elems \cup {RAW}) /\ Len(m) = c
      /\ \A j \in 1..c : m[j] = IF j <= Len(s) THEN s[j] ELSE r[j - Len(s)]
  <2>1. /\ Concat(s, r) \in Seq(Elems \cup {RAW}) /\ Len(Concat(s, r)) = Len(s) + Len(r)
        /\ \A j \in 1..Len(s) + Len(r) : Concat(s, r)[j] = IF j <= Len(s) THEN s[j] ELSE r[j - Len(s)]
    BY <1>3, ConcatIs
  <2> QED
    BY <1>2, <1>3, <2>1
<1>5. m = [j \in 1..c |-> m[j]]
  BY <1>4
<1>6. ASSUME NEW j \in 1..c
      PROVE  m[j] = IF j <= Len(s) THEN s[j] ELSE RAW
  <2>1. CASE j <= Len(s)
    BY <1>4, <2>1
  <2>2. CASE j > Len(s)
    <3>1. j - Len(s) \in 1..c - Len(s)
      BY <1>3, <2>2
    <3> QED
      BY <1>1, <1>3, <1>4, <2>2, <3>1
  <2> QED
    BY <1>3, <2>1, <2>2
<1> QED
  BY <1>5, <1>6 DEF IsMap

\* The elements that a source gives.
LEMMA Reads ==
  ASSUME ArrayAssumption, ArrayInv, NEW x \in Readable
  PROVE  /\ x.n \in Nat
         /\ \A i \in 0..x.n - 1 : Read(mem, x, i) \in Elems
         /\ x.own => x.at \in 1..len /\ x.at + x.n - 1 <= len
         /\ ~x.own => x.list \in Seq(Elems) /\ Len(x.list) = x.n
         /\ ~x.own => \A m, i : Read(m, x, i) = x.list[i + 1]
         /\ ~x.own => \A k \in 0..x.n :
              /\ ~Drop(x, k).own
              /\ \A m : \A i \in 0..x.n - k - 1 : Read(m, Drop(x, k), i) = x.list[k + i + 1]
<1>1. len \in Nat /\ \A j \in 1..len : mem[j] \in Elems
  BY FilledIs DEF ArrayInv
<1>2. CASE x \in {[own |-> FALSE, list |-> l, at |-> 0, n |-> Len(l)] : l \in Lists}
  <2>1. PICK l \in Lists : x = [own |-> FALSE, list |-> l, at |-> 0, n |-> Len(l)]
    BY <1>2
  <2>2. l \in Seq(Elems)
    BY AsSeq DEF Lists, ArrayAssumption
  <2>3. ASSUME NEW k \in 0..Len(l)
        PROVE  /\ ~Drop(x, k).own
               /\ \A m : \A i \in 0..Len(l) - k - 1 : Read(m, Drop(x, k), i) = l[k + i + 1]
    <3>1. /\ Drop(x, k).own = FALSE
          /\ Drop(x, k).list = SubSeq(l, k + 1, Len(l))
      BY <2>1 DEF Drop
    <3>2. \A i \in 0..Len(l) - k - 1 : SubSeq(l, k + 1, Len(l))[i + 1] = l[k + i + 1]
      BY <2>2
    <3> QED
      BY <3>1, <3>2 DEF Read
  <2>4. \A m, i : Read(m, x, i) = l[i + 1]
    BY <2>1 DEF Read
  <2>5. \A i \in 0..Len(l) - 1 : l[i + 1] \in Elems
    BY <2>2
  <2>6. x.n = Len(l) /\ ~x.own /\ x.list = l
    BY <2>1
  <2> QED
    BY <2>2, <2>3, <2>4, <2>5, <2>6
<1>3. CASE x \in {[own |-> TRUE, list |-> <<>>, at |-> a, n |-> n] : a \in 1..len, n \in 0..len}
  <2>1. PICK a \in 1..len, n \in 0..len : x = [own |-> TRUE, list |-> <<>>, at |-> a, n |-> n]
    BY <1>3
  <2>2. a + n - 1 <= len
    BY <2>1 DEF Readable
  <2>3. x.n = n /\ x.own /\ x.at = a
    BY <2>1
  <2>4. \A i : Read(mem, x, i) = mem[a + i]
    BY <2>3 DEF Read
  <2>5. \A i \in 0..n - 1 : mem[a + i] \in Elems
    BY <1>1, <2>2
  <2> QED
    BY <1>1, <2>2, <2>3, <2>4, <2>5
<1> QED
  BY <1>2, <1>3 DEF Readable, Sources

LEMMA TakenIs ==
  ASSUME ArrayAssumption, ArrayInv, NEW x \in Readable
  PROVE  /\ Taken(x, x.n) \in Seq(Elems) /\ Len(Taken(x, x.n)) = x.n
         /\ \A j \in 1..x.n : Taken(x, x.n)[j] = Read(mem, x, j - 1)
<1>1. Taken(x, x.n) \in [1..x.n -> Elems]
  BY Reads DEF Taken
<1> QED
  BY <1>1, Reads, AsSeq DEF Taken

LEMMA GenSuffices ==
  ASSUME NEW n \in Nat
  PROVE  gen(n) \in Nat /\ gen(n) >= n
  BY DEF gen

-----------------------------------------------------------------------------
(* Arr: what each operation leaves *)

\* The objects q in a block of c cells are what the operation was asked for.
LEMMA EndsWith ==
  ASSUME ArrayAssumption, NEW c \in Nat, NEW q \in Seq(Elems), NEW n, n = Len(q), n <= c,
         NEW m, IsMap(m, 1..c), \A j \in 1..c : m[j] = IF j <= n THEN q[j] ELSE RAW, Leaves(m, n)
  PROVE  ArrayInv' /\ Own' = q
<1>1. Filled(m, n) /\ SubSeq(m, 1, n) = q
  BY FillsWith
<1>2. mem' = m /\ len' = n
  BY DEF Leaves
<1> QED
  BY <1>1, <1>2 DEF ArrayInv, Own, Filled

\* The sequence with the elements of x before place p.
Spliced(p, x) == SubSeq(Own, 1, p - 1) \o Taken(x, x.n) \o SubSeq(Own, p, len)

LEMMA OwnIs ==
  ASSUME ArrayAssumption, ArrayInv
  PROVE  /\ Own \in Seq(Elems) /\ Len(Own) = len /\ len \in Nat
         /\ \A j \in 1..len : Own[j] = mem[j]
  BY FilledIs DEF ArrayInv, Own

LEMMA SplicedIs ==
  ASSUME ArrayAssumption, ArrayInv, NEW x \in Readable, NEW p \in 1..len + 1, NEW q, q = Spliced(p, x)
  PROVE  /\ q \in Seq(Elems) /\ Len(q) = len + x.n
         /\ \A j \in 1..len + x.n : q[j] = IF j < p THEN mem[j]
                                           ELSE IF j < p + x.n THEN Read(mem, x, j - p) ELSE mem[j - x.n]
<1>0. len \in Nat /\ x.n \in Nat /\ p \in Nat /\ p >= 1 /\ p - 1 <= len
  BY OwnIs, Reads
<1> DEFINE a == SubSeq(Own, 1, p - 1)
           b == Taken(x, x.n)
           c == SubSeq(Own, p, len)
<1>1. a \in Seq(Elems) /\ Len(a) = p - 1 /\ \A j \in 1..p - 1 : a[j] = mem[j]
  BY <1>0, OwnIs
<1>2. b \in Seq(Elems) /\ Len(b) = x.n /\ \A j \in 1..x.n : b[j] = Read(mem, x, j - 1)
  BY TakenIs
<1>3. c \in Seq(Elems) /\ Len(c) = len + 1 - p /\ \A j \in 1..len + 1 - p : c[j] = mem[p + j - 1]
  BY <1>0, OwnIs
<1> HIDE DEF a, b, c
<1> DEFINE d == Concat(a, b)
<1>4. q = Concat(d, c)
  BY DEF Spliced, a, b, c, Concat
<1>5. /\ d \in Seq(Elems) /\ Len(d) = p - 1 + x.n
      /\ \A j \in 1..p - 1 + x.n : d[j] = IF j <= p - 1 THEN a[j] ELSE b[j - (p - 1)]
  <2>1. /\ Concat(a, b) \in Seq(Elems) /\ Len(Concat(a, b)) = Len(a) + Len(b)
        /\ \A j \in 1..Len(a) + Len(b) : Concat(a, b)[j] = IF j <= Len(a) THEN a[j] ELSE b[j - Len(a)]
    BY <1>1, <1>2, ConcatIs
  <2> QED
    BY <1>0, <1>1, <1>2, <2>1
<1> HIDE DEF d
<1>6. /\ q \in Seq(Elems) /\ Len(q) = len + x.n
      /\ \A j \in 1..len + x.n : q[j] = IF j <= p - 1 + x.n THEN d[j] ELSE c[j - (p - 1 + x.n)]
  <2>1. /\ Concat(d, c) \in Seq(Elems) /\ Len(Concat(d, c)) = Len(d) + Len(c)
        /\ \A j \in 1..Len(d) + Len(c) : Concat(d, c)[j] = IF j <= Len(d) THEN d[j] ELSE c[j - Len(d)]
    BY <1>3, <1>5, ConcatIs
  <2> QED
    BY SMTT(30), <1>0, <1>3, <1>4, <1>5, <2>1
<1>7. ASSUME NEW j \in 1..len + x.n
      PROVE  q[j] = IF j < p THEN mem[j] ELSE IF j < p + x.n THEN Read(mem, x, j - p) ELSE mem[j - x.n]
  <2>1. CASE j < p
    BY <1>0, <1>1, <1>5, <1>6, <2>1
  <2>2. CASE j >= p /\ j < p + x.n
    <3>1. q[j] = b[j - (p - 1)] /\ j - (p - 1) \in 1..x.n
      BY <1>0, <1>5, <1>6, <2>2
    <3>2. j - (p - 1) - 1 = j - p
      BY <1>0
    <3> QED
      BY <1>0, <1>2, <2>2, <3>1, <3>2
  <2>3. CASE j >= p + x.n
    <3>1. q[j] = c[j - (p - 1 + x.n)] /\ j - (p - 1 + x.n) \in 1..len + 1 - p
      BY SMTT(30), <1>0, <1>6, <2>3
    <3> DEFINE i == j - (p - 1 + x.n)
    <3>2. i \in 1..len + 1 - p /\ p + i - 1 = j - x.n
      BY <1>0, <3>1
    <3>3. c[i] = mem[p + i - 1]
      BY <1>3, <3>2
    <3>4. q[j] = mem[j - x.n]
      BY <3>1, <3>2, <3>3
    <3> QED
      BY <1>0, <2>3, <3>4
  <2> QED
    BY <1>0, <2>1, <2>2, <2>3
<1> QED
  BY <1>6, <1>7

\* To append is to insert behind the last one.
LEMMA AppendActs ==
  ASSUME ArrayAssumption, ArrayInv, NEW x \in Readable, Append_(x)
  PROVE  ArrayInv' /\ Own' = Spliced(len + 1, x)
<1> DEFINE q == Spliced(len + 1, x)
           n == len + x.n
<1>1. len \in Nat /\ x.n \in Nat /\ n \in Nat
  BY OwnIs, Reads
<1>2. /\ q \in Seq(Elems) /\ Len(q) = n
      /\ \A j \in 1..n : q[j] = IF j < len + 1 THEN mem[j] ELSE Read(mem, x, j - (len + 1))
  <2>1. len + 1 \in 1..len + 1
    BY <1>1
  <2> HIDE DEF q
  <2>2. /\ q \in Seq(Elems) /\ Len(q) = len + x.n
        /\ \A j \in 1..len + x.n : q[j] = IF j < len + 1 THEN mem[j]
                                         ELSE IF j < len + 1 + x.n THEN Read(mem, x, j - (len + 1)) ELSE mem[j - x.n]
    BY <2>1, SplicedIs DEF q
  <2> QED
    BY <1>1, <2>2
<1>3. CASE Len(mem) - len < x.n
  <2>1. Own \in Seq(Elems) /\ Taken(x, x.n) \in Seq(Elems) /\ Len(Own) = len
    BY OwnIs, TakenIs
  <2>2. q = Own \o Taken(x, x.n)
    <3> DEFINE b == Taken(x, x.n)
    <3>1. b \in Seq(Elems) /\ Len(b) = x.n /\ \A j \in 1..x.n : b[j] = Read(mem, x, j - 1)
      BY TakenIs
    <3>2. Own \in Seq(Elems) /\ Len(Own) = len /\ \A j \in 1..len : Own[j] = mem[j]
      BY OwnIs
    <3> HIDE DEF b, q, n
    <3> DEFINE s == Concat(Own, b)
    <3>3. /\ s \in Seq(Elems) /\ Len(s) = Len(Own) + Len(b)
          /\ \A j \in 1..Len(Own) + Len(b) : s[j] = IF j <= Len(Own) THEN Own[j] ELSE b[j - Len(Own)]
      BY <3>1, <3>2, ConcatIs
    <3> HIDE DEF s
    <3>4. ASSUME NEW j \in 1..n
          PROVE  q[j] = s[j]
      <4>1. CASE j <= len
        <5>1. j \in 1..len /\ j < len + 1 /\ j \in 1..Len(Own) + Len(b) /\ j <= Len(Own)
          BY <1>1, <3>1, <3>2, <4>1 DEF n
        <5>2. q[j] = mem[j] /\ s[j] = Own[j]
          BY <1>2, <3>3, <5>1
        <5> QED
          BY <3>2, <5>1, <5>2
      <4>2. CASE j > len
        <5>1. j - len \in 1..x.n /\ (j - len) - 1 = j - (len + 1)
          BY <1>1, <4>2 DEF n
        <5>2. s[j] = b[j - len] /\ q[j] = Read(mem, x, j - (len + 1))
          BY <1>1, <1>2, <3>1, <3>2, <3>3, <4>2 DEF n
        <5> QED
          BY <3>1, <5>1, <5>2
      <4> QED
        BY <1>1, <4>1, <4>2
    <3>5. q = s
      BY <1>1, <1>2, <3>1, <3>2, <3>3, <3>4, SeqAs DEF n
    <3> QED
      BY <3>5 DEF s, b, Concat
  <2>3. gen(n) \in Nat /\ gen(n) >= n
    BY <1>1, GenSuffices
  <2> DEFINE m == Fresh(q, gen(n))
  <2>4. Leaves(m, n)
    BY <1>3, <2>2 DEF Append_
  <2> HIDE DEF m, q, n
  <2>5. IsMap(m, 1..gen(n)) /\ \A j \in 1..gen(n) : m[j] = IF j <= n THEN q[j] ELSE RAW
    BY <1>2, <2>3, FreshIs DEF m
  <2>6. ArrayInv' /\ Own' = q
    BY <1>1, <1>2, <2>3, <2>4, <2>5, EndsWith
  <2> QED
    BY <2>6 DEF q
<1>4. CASE Len(mem) - len >= x.n
  <2> DEFINE m == Construct(mem, x, x.n, len + 1)
             c == Len(mem)
  <2>0. /\ c \in Nat /\ IsMap(mem, 1..c) /\ DOMAIN mem = 1..c /\ n <= c
        /\ \A j \in len + 1..c : mem[j] = RAW
    BY <1>1, <1>4, FilledIs DEF ArrayInv
  <2>1. Leaves(m, n)
    BY <1>1, <1>4, <2>0 DEF Append_
  <2> HIDE DEF m, c, q, n
  <2>2. /\ IsMap(m, 1..c)
        /\ \A j \in 1..c : m[j] = IF j \in len + 1..n THEN Read(mem, x, j - (len + 1)) ELSE mem[j]
    <3>1. RawCells(mem, x.n, len + 1)
      BY <1>1, <2>0 DEF n, RawCells
    <3>2. ReadsBefore(mem, x, x.n, len + 1)
      BY <1>1, <2>0, Reads DEF n, ReadsBefore
    <3>3. /\ IsMap(m, DOMAIN mem)
          /\ \A j \in DOMAIN mem : m[j] = IF j \in len + 1..len + 1 + x.n - 1
                                            THEN Read(mem, x, j - (len + 1)) ELSE mem[j]
      BY <1>1, <2>0, <3>1, <3>2, Constructs DEF m
    <3> QED
      BY <1>1, <2>0, <3>3 DEF n
  <2>3. \A j \in 1..c : m[j] = IF j <= n THEN q[j] ELSE RAW
    BY <1>1, <1>2, <2>0, <2>2 DEF n
  <2>4. ArrayInv' /\ Own' = q
    BY <1>1, <1>2, <2>0, <2>1, <2>2, <2>3, EndsWith
  <2> QED
    BY <2>4 DEF q
<1> QED
  BY <1>1, <1>3, <1>4, FilledIs DEF ArrayInv

LEMMA MemOf ==
  ASSUME ArrayAssumption, ArrayInv, NEW c, c = Len(mem)
  PROVE  /\ c \in Nat /\ len \in Nat /\ len <= c /\ IsMap(mem, 1..c) /\ DOMAIN mem = 1..c
         /\ \A j \in 1..len : mem[j] \in Elems /\ mem[j] # RAW
         /\ \A j \in len + 1..c : mem[j] = RAW
  BY FilledIs DEF ArrayInv

LEMMA DomainIs ==
  ASSUME NEW f, NEW D, IsMap(f, D)
  PROVE  DOMAIN f = D /\ IsMap(f, DOMAIN f)
<1>1. DOMAIN f = D
  BY DEF IsMap
<1> QED
  BY <1>1

\* A source from outside is read alike in every memory.
LEMMA ListReads ==
  ASSUME ArrayAssumption, ArrayInv, NEW x \in Readable, ~x.own, NEW m, NEW to
  PROVE  /\ \A i : Read(m, x, i) = Read(mem, x, i)
         /\ ReadsBefore(m, x, x.n, to) /\ \A n : ReadsAhead(m, x, n, to)
         /\ \A k \in 0..x.n : /\ ReadsBefore(m, Drop(x, k), x.n - k, to)
                              /\ \A i \in 0..x.n - k - 1 : Read(m, Drop(x, k), i) = Read(mem, x, k + i)
<1>1. /\ x.n \in Nat
      /\ \A w, i : Read(w, x, i) = x.list[i + 1]
      /\ \A k \in 0..x.n : /\ ~Drop(x, k).own
                           /\ \A w : \A i \in 0..x.n - k - 1 : Read(w, Drop(x, k), i) = x.list[k + i + 1]
  BY Reads
<1> QED
  BY <1>1 DEF ReadsBefore, ReadsAhead

\* insert, in a new block
LEMMA GrowActs ==
  ASSUME ArrayAssumption, ArrayInv, NEW x \in Readable, NEW p \in 1..len, Grow(p, x)
  PROVE  ArrayInv' /\ Own' = Spliced(p, x)
<1> DEFINE q == Spliced(p, x)
           n == len + x.n
           m == Fresh(q, gen(n))
<1>1. len \in Nat /\ x.n \in Nat /\ n \in Nat
  BY OwnIs, Reads
<1>2. q \in Seq(Elems) /\ Len(q) = n
  <2>1. p \in 1..len + 1
    BY <1>1
  <2> HIDE DEF q
  <2> QED
    BY <2>1, SplicedIs DEF q
<1>3. gen(n) \in Nat /\ gen(n) >= n
  BY <1>1, GenSuffices
<1>4. Leaves(m, n)
  BY DEF Grow, Spliced
<1> HIDE DEF m, q, n
<1>5. IsMap(m, 1..gen(n)) /\ \A j \in 1..gen(n) : m[j] = IF j <= n THEN q[j] ELSE RAW
  BY <1>2, <1>3, FreshIs DEF m
<1>6. ArrayInv' /\ Own' = q
  BY <1>1, <1>2, <1>3, <1>4, <1>5, EndsWith
<1> QED
  BY <1>6 DEF q

\* insert, where the new elements fit between the place and the end
LEMMA ShiftActs ==
  ASSUME ArrayAssumption, ArrayInv, NEW x \in Readable, NEW p \in 1..len,
         ~x.own, Len(mem) - len >= x.n, p + x.n <= len + 1, Shift(p, x)
  PROVE  ArrayInv' /\ Own' = Spliced(p, x)
<1> DEFINE q  == Spliced(p, x)
           n  == x.n
           c  == Len(mem)
           dd == len + 1 - (p + n)
           m1 == Construct(mem, Cells(p + dd), n, len + 1)
           m2 == AssignDown(m1, p, dd, p + n)
           m3 == Assign(m2, x, n, p)
<1>1. /\ len \in Nat /\ n \in Nat /\ p \in Nat /\ p >= 1 /\ p <= len /\ dd \in Nat /\ len + n <= c
      /\ p + dd = len + 1 - n /\ p + n + dd = len + 1 /\ p + n <= len + 1 /\ c \in Nat
  BY MemOf, Reads
<1>2. /\ q \in Seq(Elems) /\ Len(q) = len + n
      /\ \A j \in 1..len + n : q[j] = IF j < p THEN mem[j] ELSE IF j < p + n THEN Read(mem, x, j - p) ELSE mem[j - n]
  <2>1. p \in 1..len + 1
    BY <1>1
  <2> HIDE DEF q
  <2> QED
    BY <2>1, SplicedIs DEF q
<1>3. Leaves(m3, len + n)
  BY DEF Shift
<1> HIDE DEF q, n, c, dd, m1, m2, m3
<1>4. /\ IsMap(mem, 1..c) /\ DOMAIN mem = 1..c /\ IsMap(mem, DOMAIN mem)
      /\ \A j \in 1..len : mem[j] \in Elems /\ mem[j] # RAW
      /\ \A j \in len + 1..c : mem[j] = RAW
  BY MemOf, DomainIs DEF c
<1>5. /\ IsMap(m1, 1..c)
      /\ \A j \in 1..c : m1[j] = IF j > len /\ j <= len + n THEN mem[j - n] ELSE mem[j]
  <2>1. RawCells(mem, n, len + 1)
    BY <1>1, <1>4 DEF RawCells
  <2>2. ReadsBefore(mem, Cells(p + dd), n, len + 1)
    BY <1>1, <1>4 DEF Cells, ReadsBefore
  <2>3. /\ IsMap(m1, DOMAIN mem)
        /\ \A j \in DOMAIN mem : m1[j] = IF j \in len + 1..len + 1 + n - 1
                                           THEN Read(mem, Cells(p + dd), j - (len + 1)) ELSE mem[j]
    BY <1>1, <1>4, <2>1, <2>2, Constructs DEF m1
  <2>4. \A j \in len + 1..len + n : Read(mem, Cells(p + dd), j - (len + 1)) = mem[j - n]
    <3>1. \A i : Read(mem, Cells(p + dd), i) = mem[p + dd + i]
      BY DEF Read, Cells
    <3>2. \A j \in len + 1..len + n : p + dd + (j - (len + 1)) = j - n
      BY <1>1
    <3> QED
      BY <3>1, <3>2
  <2>5. ASSUME NEW j \in 1..c
        PROVE  m1[j] = IF j > len /\ j <= len + n THEN mem[j - n] ELSE mem[j]
    <3>1. j \in DOMAIN mem /\ (j \in len + 1..len + 1 + n - 1 <=> j > len /\ j <= len + n)
      BY <1>1, <1>4
    <3>2. m1[j] = IF j \in len + 1..len + 1 + n - 1 THEN Read(mem, Cells(p + dd), j - (len + 1)) ELSE mem[j]
      BY <2>3, <3>1
    <3>3. j \in len + 1..len + 1 + n - 1 => Read(mem, Cells(p + dd), j - (len + 1)) = mem[j - n]
      BY <1>1, <2>4
    <3> QED
      BY <3>1, <3>2, <3>3
  <2> QED
    BY <1>4, <2>3, <2>5
<1>6. \A j \in 1..len + n : m1[j] # RAW
  BY <1>1, <1>4, <1>5
<1>7. /\ IsMap(m2, 1..c)
      /\ \A j \in 1..c : m2[j] = IF j >= p + n /\ j <= len THEN mem[j - n] ELSE m1[j]
  <2>1. DOMAIN m1 = 1..c /\ IsMap(m1, DOMAIN m1)
    BY <1>5, DomainIs
  <2>2. Occupied(m1, dd, p + n)
    BY <1>1, <1>6, <2>1 DEF Occupied
  <2>3. p..p + dd - 1 \subseteq DOMAIN m1
    BY <1>1, <2>1
  <2>4. /\ IsMap(m2, DOMAIN m1)
        /\ \A j \in DOMAIN m1 : m2[j] = IF j \in p + n + dd - dd..p + n + dd - 1 THEN m1[p + (j - (p + n))] ELSE m1[j]
    <3>1. p \in Int /\ p + n \in Int /\ p <= p + n
      BY <1>1
    <3> QED
      BY <1>1, <2>1, <2>2, <2>3, <3>1, AssignsDown DEF m2
  <2>5. \A j \in p + n..len : m1[p + (j - (p + n))] = mem[j - n]
    <3> TAKE j \in p + n..len
    <3>1. p + (j - (p + n)) = j - n /\ j - n \in 1..c /\ ~(j - n > len)
      BY <1>1
    <3>2. m1[j - n] = IF j - n > len /\ j - n <= len + n THEN mem[j - n - n] ELSE mem[j - n]
      BY <1>5, <3>1
    <3>3. m1[p + (j - (p + n))] = m1[j - n]
      BY <3>1
    <3> QED
      BY <3>1, <3>2, <3>3
  <2> QED
    BY <1>1, <2>1, <2>4, <2>5
<1>8. /\ IsMap(m3, 1..c)
      /\ \A j \in 1..c : m3[j] = IF j >= p /\ j < p + n THEN Read(mem, x, j - p) ELSE m2[j]
  <2>1. DOMAIN m2 = 1..c /\ IsMap(m2, DOMAIN m2)
    BY <1>7, DomainIs
  <2>2. Occupied(m2, n, p)
    <3>1. \A j \in p..p + n - 1 : j \in 1..c /\ j \in 1..len + n /\ m2[j] = m1[j]
      BY <1>1, <1>7
    <3> QED
      BY <1>6, <2>1, <3>1 DEF Occupied
  <2>3. ReadsAhead(m2, x, n, p) /\ \A i : Read(m2, x, i) = Read(mem, x, i)
    BY ListReads
  <2>4. /\ IsMap(m3, DOMAIN m2)
        /\ \A j \in DOMAIN m2 : m3[j] = IF j \in p..p + n - 1 THEN Read(m2, x, j - p) ELSE m2[j]
    BY <1>1, <2>1, <2>2, <2>3, Assigns DEF m3
  <2> QED
    BY <1>1, <2>1, <2>3, <2>4
<1>9. \A j \in 1..c : m3[j] = IF j <= len + n THEN q[j] ELSE RAW
  <2> TAKE j \in 1..c
  <2>1. CASE j < p
    <3>1. m3[j] = m2[j] /\ m2[j] = m1[j] /\ m1[j] = mem[j]
      BY <1>1, <1>5, <1>7, <1>8, <2>1
    <3>2. q[j] = mem[j] /\ j <= len + n
      BY <1>1, <1>2, <2>1
    <3> QED
      BY <3>1, <3>2
  <2>2. CASE j >= p /\ j < p + n
    BY SMTT(30), <1>1, <1>2, <1>8, <2>2
  <2>3. CASE j >= p + n /\ j <= len
    <3>1. m3[j] = m2[j] /\ m2[j] = mem[j - n]
      BY <1>1, <1>7, <1>8, <2>3
    <3>2. q[j] = mem[j - n] /\ j <= len + n
      BY <1>1, <1>2, <2>3
    <3> QED
      BY <3>1, <3>2
  <2>4. CASE j > len /\ j <= len + n
    BY <1>1, <1>2, <1>5, <1>7, <1>8, <2>4
  <2>5. CASE j > len + n
    <3>1. m3[j] = m2[j] /\ m2[j] = m1[j] /\ m1[j] = mem[j]
      BY <1>1, <1>5, <1>7, <1>8, <2>5
    <3>2. mem[j] = RAW
      BY <1>1, <1>4, <2>5
    <3> QED
      BY <1>1, <2>5, <3>1, <3>2
  <2> QED
    BY <1>1, <2>1, <2>2, <2>3, <2>4, <2>5
<1>10. ArrayInv' /\ Own' = q
  BY <1>1, <1>2, <1>3, <1>8, <1>9, EndsWith
<1> QED
  BY <1>10 DEF q

\* insert, where some of the new elements come behind the end
LEMMA StraddleActs ==
  ASSUME ArrayAssumption, ArrayInv, NEW x \in Readable, NEW p \in 1..len,
         ~x.own, Len(mem) - len >= x.n, p + x.n > len + 1, Straddle(p, x)
  PROVE  ArrayInv' /\ Own' = Spliced(p, x)
<1> DEFINE q  == Spliced(p, x)
           n  == x.n
           c  == Len(mem)
           k  == len + 1 - p
           m1 == Construct(mem, Drop(x, k), n - k, len + 1)
           m2 == Construct(m1, Cells(p), k, len + 1 + n - k)
           m3 == Assign(m2, x, k, p)
<1>1. /\ len \in Nat /\ n \in Nat /\ p \in Nat /\ p >= 1 /\ p <= len /\ len + n <= c /\ c \in Nat
      /\ k \in Nat /\ k \in 0..n /\ n - k \in Nat /\ p + k = len + 1 /\ len + 1 + n - k = p + n /\ k > 0
  <2>1. len \in Nat /\ x.n \in Nat /\ Len(mem) \in Nat /\ p \in Nat /\ p >= 1 /\ p <= len
    BY MemOf, Reads
  <2> QED
    BY <2>1
<1>2. /\ q \in Seq(Elems) /\ Len(q) = len + n
      /\ \A j \in 1..len + n : q[j] = IF j < p THEN mem[j] ELSE IF j < p + n THEN Read(mem, x, j - p) ELSE mem[j - n]
  <2>1. p \in 1..len + 1
    BY <1>1
  <2> HIDE DEF q
  <2> QED
    BY <2>1, SplicedIs DEF q
<1>3. Leaves(m3, len + n)
  BY DEF Straddle
<1>4. /\ IsMap(mem, 1..c) /\ DOMAIN mem = 1..c /\ IsMap(mem, DOMAIN mem)
      /\ \A j \in 1..len : mem[j] \in Elems /\ mem[j] # RAW
      /\ \A j \in len + 1..c : mem[j] = RAW
  <2> HIDE DEF c
  <2> QED
    BY MemOf, DomainIs DEF c
<1> HIDE DEF q, n, c, k, m1, m2, m3
<1>5. /\ IsMap(m1, 1..c)
      /\ \A j \in 1..c : m1[j] = IF j > len /\ j < p + n THEN Read(mem, x, j - p) ELSE mem[j]
  <2>1. RawCells(mem, n - k, len + 1)
    BY <1>1, <1>4 DEF RawCells
  <2>2. /\ ReadsBefore(mem, Drop(x, k), n - k, len + 1)
        /\ \A i \in 0..n - k - 1 : Read(mem, Drop(x, k), i) = Read(mem, x, k + i)
    BY <1>1, ListReads DEF n
  <2>3. /\ IsMap(m1, DOMAIN mem)
        /\ \A j \in DOMAIN mem : m1[j] = IF j \in len + 1..len + 1 + (n - k) - 1
                                           THEN Read(mem, Drop(x, k), j - (len + 1)) ELSE mem[j]
    BY <1>1, <1>4, <2>1, <2>2, Constructs DEF m1
  <2>4. ASSUME NEW j \in 1..c
        PROVE  m1[j] = IF j > len /\ j < p + n THEN Read(mem, x, j - p) ELSE mem[j]
    <3>1. j \in DOMAIN mem /\ (j \in len + 1..len + 1 + (n - k) - 1 <=> j > len /\ j < p + n)
      BY <1>1, <1>4
    <3>2. m1[j] = IF j \in len + 1..len + 1 + (n - k) - 1 THEN Read(mem, Drop(x, k), j - (len + 1)) ELSE mem[j]
      BY <2>3, <3>1
    <3>3. ASSUME j > len, j < p + n PROVE Read(mem, Drop(x, k), j - (len + 1)) = Read(mem, x, j - p)
      <4>1. j - (len + 1) \in 0..n - k - 1 /\ k + (j - (len + 1)) = j - p
        BY <1>1, <3>3
      <4> QED
        BY <2>2, <4>1
    <3> QED
      BY <3>1, <3>2, <3>3
  <2> QED
    BY <1>4, <2>3, <2>4
<1>6. /\ IsMap(m2, 1..c)
      /\ \A j \in 1..c : m2[j] = IF j >= p + n /\ j <= len + n THEN mem[j - n] ELSE m1[j]
  <2>1. DOMAIN m1 = 1..c /\ IsMap(m1, DOMAIN m1)
    BY <1>5, DomainIs
  <2>2. RawCells(m1, k, p + n)
    <3> SUFFICES ASSUME NEW j \in p + n..p + n + k - 1 PROVE j \in 1..c /\ m1[j] = RAW
      BY <2>1 DEF RawCells
    <3>1. j \in 1..c /\ j \in len + 1..c /\ ~(j < p + n)
      BY <1>1
    <3> QED
      BY <1>4, <1>5, <3>1
  <2>3. ReadsBefore(m1, Cells(p), k, p + n)
    BY <1>1, <2>1 DEF Cells, ReadsBefore
  <2>4. /\ IsMap(m2, DOMAIN m1)
        /\ \A j \in DOMAIN m1 : m2[j] = IF j \in p + n..p + n + k - 1 THEN Read(m1, Cells(p), j - (p + n)) ELSE m1[j]
    <3>1. m2 = Construct(m1, Cells(p), k, p + n) /\ p + n \in Int
      BY <1>1 DEF m2
    <3> QED
      BY <1>1, <2>1, <2>2, <2>3, <3>1, Constructs
  <2>5. ASSUME NEW j \in 1..c
        PROVE  m2[j] = IF j >= p + n /\ j <= len + n THEN mem[j - n] ELSE m1[j]
    <3>1. j \in DOMAIN m1 /\ (j \in p + n..p + n + k - 1 <=> j >= p + n /\ j <= len + n)
      BY <1>1, <2>1
    <3>2. m2[j] = IF j \in p + n..p + n + k - 1 THEN Read(m1, Cells(p), j - (p + n)) ELSE m1[j]
      BY <2>4, <3>1
    <3>3. ASSUME j >= p + n, j <= len + n PROVE Read(m1, Cells(p), j - (p + n)) = mem[j - n]
      <4>1. Read(m1, Cells(p), j - (p + n)) = m1[p + (j - (p + n))]
        BY DEF Read, Cells
      <4>2. p + (j - (p + n)) = j - n /\ j - n \in 1..c /\ ~(j - n > len)
        BY <1>1, <3>3
      <4> QED
        BY <1>5, <4>1, <4>2
    <3> QED
      BY <3>1, <3>2, <3>3
  <2> QED
    BY <2>1, <2>4, <2>5
<1>7. /\ IsMap(m3, 1..c)
      /\ \A j \in 1..c : m3[j] = IF j >= p /\ j <= len THEN Read(mem, x, j - p) ELSE m2[j]
  <2>1. DOMAIN m2 = 1..c /\ IsMap(m2, DOMAIN m2)
    BY <1>6, DomainIs
  <2>2. Occupied(m2, k, p)
    <3> SUFFICES ASSUME NEW j \in p..p + k - 1 PROVE j \in 1..c /\ m2[j] # RAW
      BY <2>1 DEF Occupied
    <3>1. j \in 1..c /\ j \in 1..len /\ ~(j >= p + n) /\ ~(j > len)
      BY <1>1
    <3>2. m2[j] = m1[j] /\ m1[j] = mem[j]
      BY <1>5, <1>6, <3>1
    <3> QED
      BY <1>4, <3>1, <3>2
  <2>3. ReadsAhead(m2, x, k, p) /\ \A i : Read(m2, x, i) = Read(mem, x, i)
    BY ListReads
  <2>4. /\ IsMap(m3, DOMAIN m2)
        /\ \A j \in DOMAIN m2 : m3[j] = IF j \in p..p + k - 1 THEN Read(m2, x, j - p) ELSE m2[j]
    BY <1>1, <2>1, <2>2, <2>3, Assigns DEF m3
  <2> QED
    BY <1>1, <2>1, <2>3, <2>4
<1>8. \A j \in 1..c : m3[j] = IF j <= len + n THEN q[j] ELSE RAW
  <2> TAKE j \in 1..c
  <2>1. CASE j < p
    <3>1. m3[j] = m2[j] /\ m2[j] = m1[j] /\ m1[j] = mem[j]
      BY <1>1, <1>5, <1>6, <1>7, <2>1
    <3>2. q[j] = mem[j] /\ j <= len + n
      BY <1>1, <1>2, <2>1
    <3> QED
      BY <3>1, <3>2
  <2>2. CASE j >= p /\ j <= len
    <3>1. m3[j] = Read(mem, x, j - p)
      BY <1>1, <1>7, <2>2
    <3>2. q[j] = Read(mem, x, j - p) /\ j <= len + n
      BY <1>1, <1>2, <2>2
    <3> QED
      BY <3>1, <3>2
  <2>3. CASE j > len /\ j < p + n
    <3>1. m3[j] = m2[j] /\ m2[j] = m1[j] /\ m1[j] = Read(mem, x, j - p)
      BY <1>1, <1>5, <1>6, <1>7, <2>3
    <3>2. q[j] = Read(mem, x, j - p) /\ j <= len + n
      BY SMTT(30), <1>1, <1>2, <2>3
    <3> QED
      BY <3>1, <3>2
  <2>4. CASE j >= p + n /\ j <= len + n
    <3>1. m3[j] = m2[j] /\ m2[j] = mem[j - n]
      BY <1>1, <1>6, <1>7, <2>4
    <3>2. q[j] = mem[j - n]
      BY <1>1, <1>2, <2>4
    <3> QED
      BY <2>4, <3>1, <3>2
  <2>5. CASE j > len + n
    <3>1. m3[j] = m2[j] /\ m2[j] = m1[j] /\ m1[j] = mem[j]
      BY <1>1, <1>5, <1>6, <1>7, <2>5
    <3>2. mem[j] = RAW
      BY <1>1, <1>4, <2>5
    <3> QED
      BY <1>1, <2>5, <3>1, <3>2
  <2> QED
    BY <1>1, <2>1, <2>2, <2>3, <2>4, <2>5
<1>9. ArrayInv' /\ Own' = q
  BY <1>1, <1>2, <1>3, <1>7, <1>8, EndsWith
<1> QED
  BY <1>9 DEF q

LEMMA InsertActs ==
  ASSUME ArrayAssumption, ArrayInv, NEW x \in Readable, NEW p \in 1..len + 1, Insert(p, x)
  PROVE  ArrayInv' /\ Own' = Spliced(p, x)
<1>1. len \in Nat /\ x.n \in Nat /\ Len(mem) \in Nat
  BY MemOf, Reads
<1>2. CASE p = len + 1 /\ Append_(x)
  BY <1>2, AppendActs
<1>3. CASE p <= len /\ Grow(p, x)
  <2>1. p \in 1..len
    BY <1>1, <1>3
  <2> QED
    BY <1>3, <2>1, GrowActs
<1>4. CASE p <= len /\ ~x.own /\ Len(mem) - len >= x.n /\ p + x.n <= len + 1 /\ Shift(p, x)
  <2>1. p \in 1..len
    BY <1>1, <1>4
  <2> QED
    BY <1>4, <2>1, ShiftActs
<1>5. CASE p <= len /\ ~x.own /\ Len(mem) - len >= x.n /\ ~(p + x.n <= len + 1) /\ Straddle(p, x)
  <2>1. p \in 1..len /\ p + x.n > len + 1
    BY <1>1, <1>5
  <2> QED
    BY <1>5, <2>1, StraddleActs
<1> QED
  BY <1>2, <1>3, <1>4, <1>5 DEF Insert, Inside

\* No cell of a .. b is raw.
NoRaw(m, a, b) == \A j \in DOMAIN m : j \in a..b => m[j] # RAW

LEMMA DestroyIs ==
  ASSUME NEW m, NEW a \in Int, NEW b \in Int, IsMap(m, DOMAIN m), NoRaw(m, a, b)
  PROVE  /\ IsMap(Destroy(m, a, b), DOMAIN m)
         /\ \A j \in DOMAIN m : Destroy(m, a, b)[j] = IF j \in a..b THEN RAW ELSE m[j]
  BY DEF Destroy, IsMap, NoRaw

\* The objects behind the first n ones are destroyed.
LEMMA TailGoes ==
  ASSUME ArrayAssumption, NEW c \in Nat, len \in Nat, len <= c, NEW q \in Seq(Elems), NEW n, n = Len(q), n <= len,
         NEW m, IsMap(m, 1..c), \A j \in 1..n : m[j] = q[j],
         \A j \in n + 1..len : m[j] # RAW, \A j \in len + 1..c : m[j] = RAW,
         Leaves(Destroy(m, n + 1, len), n)
  PROVE  ArrayInv' /\ Own' = q
<1> DEFINE r == Destroy(m, n + 1, len)
<1>1. n \in Nat /\ n <= c /\ n + 1 \in Int /\ len \in Int
  OBVIOUS
<1>2. DOMAIN m = 1..c /\ IsMap(m, DOMAIN m)
  BY DomainIs
<1>3. NoRaw(m, n + 1, len)
  BY DEF NoRaw
<1> HIDE DEF r
<1>4. /\ IsMap(r, DOMAIN m)
      /\ \A j \in DOMAIN m : r[j] = IF j \in n + 1..len THEN RAW ELSE m[j]
  BY <1>1, <1>2, <1>3, DestroyIs DEF r
<1>5. \A j \in 1..c : r[j] = IF j <= n THEN q[j] ELSE RAW
  <2> TAKE j \in 1..c
  <2>1. r[j] = IF j \in n + 1..len THEN RAW ELSE m[j]
    BY <1>2, <1>4
  <2>2. CASE j <= n
    <3>1. j \in 1..n /\ ~(j \in n + 1..len)
      BY <1>1, <2>2
    <3> QED
      BY <2>1, <2>2, <3>1
  <2>3. CASE j > n /\ j <= len
    <3>1. j \in n + 1..len /\ ~(j <= n)
      BY <1>1, <2>3
    <3> QED
      BY <2>1, <3>1
  <2>4. CASE j > len
    <3>1. j \in len + 1..c /\ ~(j \in n + 1..len) /\ ~(j <= n)
      BY <1>1, <2>4
    <3> QED
      BY <2>1, <3>1
  <2> QED
    BY <1>1, <2>2, <2>3, <2>4
<1>6. Leaves(r, n)
  BY DEF r
<1> QED
  BY <1>1, <1>2, <1>4, <1>5, <1>6, EndsWith

\* The elements that come from x, in a block that just holds them.
LEMMA TakenActs ==
  ASSUME ArrayAssumption, ArrayInv, NEW x \in Readable, Leaves(Taken(x, x.n), x.n)
  PROVE  ArrayInv' /\ Own' = Taken(x, x.n)
<1> DEFINE q == Taken(x, x.n)
           n == x.n
<1>1. n \in Nat /\ q \in Seq(Elems) /\ Len(q) = n
  BY Reads, TakenIs
<1>2. IsMap(q, 1..n)
  BY DEF Taken, IsMap
<1>3. \A j \in 1..n : q[j] = IF j <= n THEN q[j] ELSE RAW
  BY <1>1
<1>4. Leaves(q, n)
  OBVIOUS
<1> HIDE DEF q, n
<1>5. ArrayInv' /\ Own' = q
  BY <1>1, <1>2, <1>3, <1>4, EndsWith
<1> QED
  BY <1>5 DEF q

LEMMA AssignRangeActs ==
  ASSUME ArrayAssumption, ArrayInv, NEW x \in Readable, AssignRange(x)
  PROVE  ArrayInv' /\ Own' = Taken(x, x.n)
<1> DEFINE q == Taken(x, x.n)
           n == x.n
           c == Len(mem)
<1>1. /\ len \in Nat /\ n \in Nat /\ c \in Nat /\ len <= c
      /\ q \in Seq(Elems) /\ Len(q) = n /\ \A j \in 1..n : q[j] = Read(mem, x, j - 1)
  BY MemOf, Reads, TakenIs
<1>2. CASE Leaves(q, n)
  BY <1>2, TakenActs
<1>3. /\ IsMap(mem, 1..c) /\ DOMAIN mem = 1..c /\ IsMap(mem, DOMAIN mem)
      /\ \A j \in 1..len : mem[j] \in Elems /\ mem[j] # RAW
      /\ \A j \in len + 1..c : mem[j] = RAW
  <2> HIDE DEF c
  <2> QED
    BY MemOf, DomainIs DEF c
<1>4. \A k \in 0..len : Occupied(mem, k, 1)
  <2> HIDE DEF c
  <2> SUFFICES ASSUME NEW k \in 0..len, NEW j \in 1..1 + k - 1 PROVE j \in 1..c /\ mem[j] # RAW
    BY <1>3 DEF Occupied
  <2> QED
    BY <1>1, <1>3
<1>5. CASE ~x.own /\ len >= n /\ Leaves(Destroy(Assign(mem, x, n, 1), n + 1, len), n)
  <2> DEFINE m1 == Assign(mem, x, n, 1)
             m2 == Destroy(m1, n + 1, len)
  <2>1. Leaves(m2, n)
    BY <1>5
  <2> HIDE DEF q, n, c, m1, m2
  <2>2. /\ IsMap(m1, 1..c)
        /\ \A j \in 1..c : m1[j] = IF j \in 1..1 + n - 1 THEN Read(mem, x, j - 1) ELSE mem[j]
    <3>1. ReadsAhead(mem, x, n, 1) /\ Occupied(mem, n, 1)
      BY <1>1, <1>4, <1>5, ListReads
    <3>2. /\ IsMap(m1, DOMAIN mem)
          /\ \A j \in DOMAIN mem : m1[j] = IF j \in 1..1 + n - 1 THEN Read(mem, x, j - 1) ELSE mem[j]
      BY <1>1, <1>3, <3>1, Assigns DEF m1
    <3> QED
      BY <1>3, <3>2
  <2>3. \A j \in 1..c : m1[j] = IF j <= n THEN q[j] ELSE mem[j]
    <3> TAKE j \in 1..c
    <3>1. j \in 1..1 + n - 1 <=> j <= n
      BY <1>1
    <3>2. j <= n => j \in 1..n
      BY <1>1
    <3> QED
      BY <1>1, <2>2, <3>1, <3>2
  <2>4. n <= len /\ (\A j \in 1..n : m1[j] = q[j])
    BY <1>1, <1>5, <2>3 DEF n
  <2>5. (\A j \in n + 1..len : m1[j] # RAW) /\ (\A j \in len + 1..c : m1[j] = RAW)
    <3>1. ASSUME NEW j \in n + 1..c PROVE m1[j] = mem[j] /\ (j <= len => mem[j] # RAW) /\ (j > len => mem[j] = RAW)
      <4>1. j \in 1..c /\ ~(j <= n) /\ (j <= len => j \in 1..len) /\ (j > len => j \in len + 1..c)
        BY <1>1
      <4> QED
        BY <1>3, <2>3, <4>1
    <3> QED
      BY <1>1, <2>4, <3>1
  <2>6. ArrayInv' /\ Own' = q
    BY <1>1, <2>1, <2>2, <2>4, <2>5, TailGoes DEF m2
  <2> QED
    BY <2>6 DEF q
<1>6. CASE ~x.own /\ len < n /\ c >= n /\ Leaves(Construct(Assign(mem, x, len, 1), Drop(x, len), n - len, len + 1), n)
  <2> DEFINE m1 == Assign(mem, x, len, 1)
             m2 == Construct(m1, Drop(x, len), n - len, len + 1)
  <2>1. Leaves(m2, n) /\ ~x.own /\ len < n /\ n <= c
    BY <1>1, <1>6
  <2> HIDE DEF q, n, c, m1, m2
  <2>2. /\ IsMap(m1, 1..c)
        /\ \A j \in 1..c : m1[j] = IF j \in 1..1 + len - 1 THEN Read(mem, x, j - 1) ELSE mem[j]
    <3>1. ReadsAhead(mem, x, len, 1) /\ Occupied(mem, len, 1)
      BY <1>1, <1>4, <2>1, ListReads
    <3>2. /\ IsMap(m1, DOMAIN mem)
          /\ \A j \in DOMAIN mem : m1[j] = IF j \in 1..1 + len - 1 THEN Read(mem, x, j - 1) ELSE mem[j]
      <4>1. len \in Nat /\ IsMap(mem, DOMAIN mem) /\ 1 \in Int
        BY <1>1, <1>3
      <4> QED
        BY <3>1, <4>1, Assigns DEF m1
    <3> QED
      BY <1>3, <3>2
  <2>3. \A j \in 1..c : m1[j] = IF j <= len THEN q[j] ELSE RAW
    <3> TAKE j \in 1..c
    <3>1. CASE j <= len
      <4>1. j \in 1..n /\ j \in 1..1 + len - 1
        BY <1>1, <2>1, <3>1
      <4> QED
        BY <1>1, <2>2, <3>1, <4>1
    <3>2. CASE j > len
      <4>1. ~(j \in 1..1 + len - 1) /\ j \in len + 1..c /\ ~(j <= len)
        BY <1>1, <3>2
      <4> QED
        BY <1>3, <2>2, <4>1
    <3> QED
      BY <1>1, <3>1, <3>2
  <2>4. DOMAIN m1 = 1..c /\ IsMap(m1, DOMAIN m1)
    BY <2>2, DomainIs
  <2>5. RawCells(m1, n - len, len + 1)
    <3> SUFFICES ASSUME NEW j \in len + 1..len + 1 + (n - len) - 1 PROVE j \in 1..c /\ m1[j] = RAW
      BY <2>4 DEF RawCells
    <3>1. j \in 1..c /\ ~(j <= len)
      BY <1>1, <2>1
    <3> QED
      BY <2>3, <3>1
  <2>6. /\ ReadsBefore(m1, Drop(x, len), n - len, len + 1)
        /\ \A i \in 0..n - len - 1 : Read(m1, Drop(x, len), i) = Read(mem, x, len + i)
    <3>1. len \in 0..n
      BY <1>1, <2>1
    <3> QED
      BY <2>1, <3>1, ListReads DEF n
  <2>7. /\ IsMap(m2, 1..c)
        /\ \A j \in 1..c : m2[j] = IF j \in len + 1..len + 1 + (n - len) - 1
                                     THEN Read(m1, Drop(x, len), j - (len + 1)) ELSE m1[j]
    <3>1. n - len \in Nat /\ len + 1 \in Int
      BY <1>1, <2>1
    <3>2. /\ IsMap(m2, DOMAIN m1)
          /\ \A j \in DOMAIN m1 : m2[j] = IF j \in len + 1..len + 1 + (n - len) - 1
                                            THEN Read(m1, Drop(x, len), j - (len + 1)) ELSE m1[j]
      <4>1. ReadsBefore(m1, Drop(x, len), n - len, len + 1) /\ IsMap(m1, DOMAIN m1)
        BY <2>4, <2>6
      <4> QED
        BY <2>5, <3>1, <4>1, Constructs DEF m2
    <3> QED
      BY <2>4, <3>2
  <2>8. \A j \in 1..c : m2[j] = IF j <= n THEN q[j] ELSE RAW
    <3> TAKE j \in 1..c
    <3>1. CASE j <= len
      <4>1. ~(j \in len + 1..len + 1 + (n - len) - 1) /\ j <= n
        BY <1>1, <2>1, <3>1
      <4> QED
        BY <2>3, <2>7, <3>1, <4>1
    <3>2. CASE j > len /\ j <= n
      <4>1. /\ j \in len + 1..len + 1 + (n - len) - 1 /\ j \in 1..n
            /\ j - (len + 1) \in 0..n - len - 1 /\ len + (j - (len + 1)) = j - 1
        BY <1>1, <2>1, <3>2
      <4>2. m2[j] = Read(m1, Drop(x, len), j - (len + 1)) /\ q[j] = Read(mem, x, j - 1)
        BY <1>1, <2>7, <4>1
      <4>3. Read(m1, Drop(x, len), j - (len + 1)) = Read(mem, x, j - 1)
        BY <2>6, <4>1
      <4> QED
        BY <3>2, <4>2, <4>3
    <3>3. CASE j > n
      <4>1. ~(j \in len + 1..len + 1 + (n - len) - 1) /\ ~(j <= len) /\ ~(j <= n)
        BY <1>1, <2>1, <3>3
      <4> QED
        BY <2>3, <2>7, <4>1
    <3> QED
      BY <1>1, <3>1, <3>2, <3>3
  <2>9. ArrayInv' /\ Own' = q
    BY <1>1, <2>1, <2>7, <2>8, EndsWith
  <2> QED
    BY <2>9 DEF q
<1> QED
  BY <1>2, <1>5, <1>6 DEF AssignRange, Inside

\* What the operations without a source start from.
LEMMA OldMem ==
  ASSUME ArrayAssumption, ArrayInv, NEW c, c = Len(mem)
  PROVE  /\ c \in Nat /\ len \in Nat /\ len <= c
         /\ IsMap(mem, 1..c) /\ DOMAIN mem = 1..c /\ IsMap(mem, DOMAIN mem)
         /\ \A j \in 1..len : mem[j] \in Elems /\ mem[j] # RAW
         /\ \A j \in len + 1..c : mem[j] = RAW
         /\ \A k \in 0..len : Occupied(mem, k, 1)
         /\ \A n \in Nat : n <= c => RawCells(mem, n - len, len + 1)
<1>1. /\ c \in Nat /\ len \in Nat /\ len <= c
      /\ IsMap(mem, 1..c) /\ DOMAIN mem = 1..c
      /\ \A j \in 1..len : mem[j] \in Elems /\ mem[j] # RAW
      /\ \A j \in len + 1..c : mem[j] = RAW
  BY MemOf
<1>2. IsMap(mem, DOMAIN mem)
  BY <1>1, DomainIs
<1>3. ASSUME NEW k \in 0..len PROVE Occupied(mem, k, 1)
  <2> SUFFICES ASSUME NEW j \in 1..1 + k - 1 PROVE j \in 1..c /\ mem[j] # RAW
    BY <1>1 DEF Occupied
  <2> QED
    BY <1>1
<1>4. ASSUME NEW n \in Nat, n <= c PROVE RawCells(mem, n - len, len + 1)
  <2> SUFFICES ASSUME NEW j \in len + 1..len + 1 + (n - len) - 1 PROVE j \in 1..c /\ mem[j] = RAW
    BY <1>1 DEF RawCells
  <2>1. j \in 1..c /\ j \in len + 1..c
    BY <1>1, <1>4
  <2> QED
    BY <1>1, <2>1
<1> QED
  BY <1>1, <1>2, <1>3, <1>4

LEMMA AssignValActs ==
  ASSUME ArrayAssumption, ArrayInv, NEW n \in Nat, NEW e \in Elems, AssignVal(n, e)
  PROVE  ArrayInv' /\ Own' = [i \in 1..n |-> e]
<1> DEFINE q == [i \in 1..n |-> e]
           c == Len(mem)
<1>1. q \in Seq(Elems) /\ Len(q) = n /\ IsMap(q, 1..n) /\ \A j \in 1..n : q[j] = e
  <2>1. q \in [1..n -> Elems]
    OBVIOUS
  <2> QED
    BY <2>1, AsSeq DEF IsMap
<1> HIDE DEF c
<1>2. /\ c \in Nat /\ len \in Nat /\ len <= c /\ e # RAW
      /\ IsMap(mem, 1..c) /\ DOMAIN mem = 1..c /\ IsMap(mem, DOMAIN mem)
      /\ \A j \in 1..len : mem[j] # RAW
      /\ \A j \in len + 1..c : mem[j] = RAW
  BY OldMem DEF c, ArrayAssumption
<1>3. CASE len >= n /\ Leaves(Destroy(AssignAll(mem, e, n, 1), n + 1, len), n)
  <2> DEFINE m1 == AssignAll(mem, e, n, 1)
  <2>1. Leaves(Destroy(m1, n + 1, len), n) /\ n <= len
    BY <1>2, <1>3
  <2> HIDE DEF q, m1
  <2>2. /\ IsMap(m1, DOMAIN mem)
        /\ \A j \in DOMAIN mem : m1[j] = IF j \in 1..1 + n - 1 THEN e ELSE mem[j]
    <3>1. Occupied(mem, n, 1) /\ IsMap(mem, DOMAIN mem) /\ 1 \in Int
      BY <1>2, <2>1, OldMem
    <3> QED
      BY <3>1, AssignsAll DEF m1
  <2>3. ASSUME NEW j \in 1..n PROVE m1[j] = q[j]
    <3>1. j \in DOMAIN mem /\ j \in 1..1 + n - 1
      BY <1>2, <2>1
    <3> QED
      BY <1>1, <2>2, <3>1
  <2>4. ASSUME NEW j \in n + 1..c PROVE m1[j] = mem[j]
    <3>1. j \in DOMAIN mem /\ ~(j \in 1..1 + n - 1)
      BY <1>2, <2>1
    <3> QED
      BY <2>2, <3>1
  <2>5. \A j \in n + 1..len : m1[j] # RAW
    <3> TAKE j \in n + 1..len
    <3>1. j \in 1..len /\ j \in n + 1..c
      BY <1>2
    <3> QED
      BY <1>2, <2>4, <3>1
  <2>6. \A j \in len + 1..c : m1[j] = RAW
    <3> TAKE j \in len + 1..c
    <3>1. j \in n + 1..c
      BY <1>2, <2>1
    <3> QED
      BY <1>2, <2>4, <3>1
  <2>7. IsMap(m1, 1..c)
    BY <1>2, <2>2
  <2>8. ArrayInv' /\ Own' = q
    BY <1>1, <1>2, <2>1, <2>3, <2>5, <2>6, <2>7, TailGoes
  <2> QED
    BY <2>8 DEF q
<1>4. CASE len < n /\ c >= n /\ Leaves(AssignAll(ConstructAll(mem, e, n - len, len + 1), e, len, 1), n)
  <2> DEFINE m1 == ConstructAll(mem, e, n - len, len + 1)
             m2 == AssignAll(m1, e, len, 1)
  <2>1. Leaves(m2, n) /\ len < n /\ n <= c /\ n - len \in Nat /\ len + 1 \in Int
    BY <1>2, <1>4
  <2> HIDE DEF q, m1, m2
  <2>2. /\ IsMap(m1, DOMAIN mem)
        /\ \A j \in DOMAIN mem : m1[j] = IF j \in len + 1..len + 1 + (n - len) - 1 THEN e ELSE mem[j]
    <3>1. RawCells(mem, n - len, len + 1)
      BY <2>1, OldMem DEF c
    <3> QED
      BY <1>2, <2>1, <3>1, ConstructsAll DEF m1
  <2>3. DOMAIN m1 = 1..c /\ IsMap(m1, DOMAIN m1)
    BY <1>2, <2>2, DomainIs
  <2>4. Occupied(m1, len, 1)
    <3> SUFFICES ASSUME NEW j \in 1..1 + len - 1 PROVE j \in 1..c /\ m1[j] # RAW
      BY <2>3 DEF Occupied
    <3>1. j \in DOMAIN mem /\ j \in 1..len /\ ~(j \in len + 1..len + 1 + (n - len) - 1)
      BY <1>2
    <3> QED
      BY <1>2, <2>2, <3>1
  <2>5. /\ IsMap(m2, DOMAIN m1)
        /\ \A j \in DOMAIN m1 : m2[j] = IF j \in 1..1 + len - 1 THEN e ELSE m1[j]
    BY <1>2, <2>3, <2>4, AssignsAll DEF m2
  <2>6. \A j \in 1..c : m2[j] = IF j <= n THEN q[j] ELSE RAW
    <3> TAKE j \in 1..c
    <3>1. CASE j <= len
      <4>1. j \in 1..1 + len - 1 /\ j \in 1..n
        BY <1>2, <2>1, <3>1
      <4> QED
        BY <1>1, <2>3, <2>5, <4>1
    <3>2. CASE j > len /\ j <= n
      <4>1. ~(j \in 1..1 + len - 1) /\ j \in 1..n /\ j \in len + 1..len + 1 + (n - len) - 1
        BY <1>2, <2>1, <3>2
      <4>2. m2[j] = m1[j] /\ m1[j] = e
        BY <1>2, <2>2, <2>3, <2>5, <4>1
      <4> QED
        BY <1>1, <3>2, <4>1, <4>2
    <3>3. CASE j > n
      <4>1. ~(j \in 1..1 + len - 1) /\ j \in len + 1..c /\ ~(j \in len + 1..len + 1 + (n - len) - 1) /\ ~(j <= n)
        BY <1>2, <2>1, <3>3
      <4>2. m2[j] = m1[j] /\ m1[j] = mem[j]
        BY <1>2, <2>2, <2>3, <2>5, <4>1
      <4> QED
        BY <1>2, <4>1, <4>2
    <3> QED
      BY <1>2, <3>1, <3>2, <3>3
  <2>7. IsMap(m2, 1..c)
    BY <2>3, <2>5
  <2>8. ArrayInv' /\ Own' = q
    BY <1>1, <1>2, <2>1, <2>6, <2>7, EndsWith
  <2> QED
    BY <2>8 DEF q
<1>5. CASE Leaves(q, n)
  <2> HIDE DEF q
  <2>1. \A j \in 1..n : q[j] = IF j <= n THEN q[j] ELSE RAW
    OBVIOUS
  <2>2. ArrayInv' /\ Own' = q
    BY <1>1, <1>5, <2>1, EndsWith
  <2> QED
    BY <2>2 DEF q
<1> QED
  BY <1>3, <1>4, <1>5 DEF AssignVal, c

LEMMA ResizeActs ==
  ASSUME ArrayAssumption, ArrayInv, NEW n \in Nat, NEW e \in Elems, Resize(n, e)
  PROVE  ArrayInv' /\ Own' = [i \in 1..n |-> IF i <= len THEN mem[i] ELSE e]
<1> DEFINE q == [i \in 1..n |-> IF i <= len THEN mem[i] ELSE e]
           c == Len(mem)
<1> HIDE DEF c
<1>1. /\ c \in Nat /\ len \in Nat /\ len <= c
      /\ IsMap(mem, 1..c) /\ DOMAIN mem = 1..c /\ IsMap(mem, DOMAIN mem)
      /\ \A j \in 1..len : mem[j] \in Elems /\ mem[j] # RAW
      /\ \A j \in len + 1..c : mem[j] = RAW
  BY OldMem DEF c
<1>2. q \in Seq(Elems) /\ Len(q) = n /\ \A j \in 1..n : q[j] = IF j <= len THEN mem[j] ELSE e
  <2>1. \A j \in 1..n : (IF j <= len THEN mem[j] ELSE e) \in Elems
    BY <1>1
  <2>2. q \in [1..n -> Elems]
    BY <2>1
  <2> QED
    BY <2>2, AsSeq
<1>3. CASE len >= n /\ Leaves(Destroy(mem, n + 1, len), n)
  <2> HIDE DEF q
  <2>1. \A j \in 1..n : mem[j] = q[j]
    BY <1>1, <1>2, <1>3
  <2>2. \A j \in n + 1..len : mem[j] # RAW
    BY <1>1
  <2>3. ArrayInv' /\ Own' = q
    BY <1>1, <1>2, <1>3, <2>1, <2>2, TailGoes
  <2> QED
    BY <2>3 DEF q
\* A block of d cells holds the objects of the array, those up to n are added.
<1>4. ASSUME NEW b, NEW d \in Nat, len < n, n <= d, IsMap(b, 1..d),
             \A j \in 1..d : b[j] = IF j <= len THEN mem[j] ELSE RAW,
             Leaves(ConstructAll(b, e, n - len, len + 1), n)
      PROVE  ArrayInv' /\ Own' = q
  <2> DEFINE m == ConstructAll(b, e, n - len, len + 1)
  <2>1. Leaves(m, n) /\ n - len \in Nat /\ len + 1 \in Int
    BY <1>1, <1>4
  <2> HIDE DEF q, m
  <2>2. DOMAIN b = 1..d /\ IsMap(b, DOMAIN b)
    BY <1>4, DomainIs
  <2>3. RawCells(b, n - len, len + 1)
    <3> SUFFICES ASSUME NEW j \in len + 1..len + 1 + (n - len) - 1 PROVE j \in 1..d /\ b[j] = RAW
      BY <2>2 DEF RawCells
    <3>1. j \in 1..d /\ ~(j <= len)
      BY <1>1, <1>4
    <3> QED
      BY <1>4, <3>1
  <2>4. /\ IsMap(m, DOMAIN b)
        /\ \A j \in DOMAIN b : m[j] = IF j \in len + 1..len + 1 + (n - len) - 1 THEN e ELSE b[j]
    BY <2>1, <2>2, <2>3, ConstructsAll DEF m
  <2>5. \A j \in 1..d : m[j] = IF j <= n THEN q[j] ELSE RAW
    <3> TAKE j \in 1..d
    <3>0. /\ b[j] = IF j <= len THEN mem[j] ELSE RAW
          /\ m[j] = IF j \in len + 1..len + 1 + (n - len) - 1 THEN e ELSE b[j]
      BY <1>4, <2>2, <2>4
    <3>1. CASE j <= len
      <4>1. j \in 1..n /\ ~(j \in len + 1..len + 1 + (n - len) - 1) /\ j <= n
        BY <1>1, <1>4, <3>1
      <4> QED
        BY <1>2, <3>0, <3>1, <4>1
    <3>2. CASE j > len /\ j <= n
      <4>1. j \in 1..n /\ j \in len + 1..len + 1 + (n - len) - 1 /\ ~(j <= len)
        BY <1>1, <1>4, <3>2
      <4> QED
        BY <1>2, <3>0, <3>2, <4>1
    <3>3. CASE j > n
      <4>1. ~(j \in len + 1..len + 1 + (n - len) - 1) /\ ~(j <= len) /\ ~(j <= n)
        BY <1>1, <1>4, <3>3
      <4> QED
        BY <3>0, <4>1
    <3> QED
      BY <1>1, <3>1, <3>2, <3>3
  <2>6. IsMap(m, 1..d)
    BY <2>2, <2>4
  <2> QED
    BY <1>2, <1>4, <2>1, <2>5, <2>6, EndsWith
<1>5. CASE len < n /\ c >= n /\ Leaves(ConstructAll(mem, e, n - len, len + 1), n)
  <2> HIDE DEF q
  <2>1. \A j \in 1..c : mem[j] = IF j <= len THEN mem[j] ELSE RAW
    BY <1>1
  <2>2. n <= c
    BY <1>1, <1>5
  <2>3. ArrayInv' /\ Own' = q
    BY <1>1, <1>4, <1>5, <2>1, <2>2
  <2> QED
    BY <2>3 DEF q
<1>6. CASE c < n /\ Leaves(ConstructAll(Fresh(Own, n), e, n - len, len + 1), n)
  <2> DEFINE b == Fresh(Own, n)
  <2> HIDE DEF q, b
  <2>1. Own \in Seq(Elems) /\ Len(Own) = len /\ \A j \in 1..len : Own[j] = mem[j]
    BY OwnIs
  <2>2. len < n /\ n <= n /\ n >= Len(Own)
    BY <1>1, <1>6, <2>1
  <2>3. IsMap(b, 1..n) /\ \A j \in 1..n : b[j] = IF j <= Len(Own) THEN Own[j] ELSE RAW
    BY <2>1, <2>2, FreshIs DEF b
  <2>4. \A j \in 1..n : b[j] = IF j <= len THEN mem[j] ELSE RAW
    <3> TAKE j \in 1..n
    <3>1. CASE j <= len
      <4>1. j \in 1..len
        BY <1>1, <3>1
      <4> QED
        BY <2>1, <2>3, <3>1, <4>1
    <3>2. CASE ~(j <= len)
      BY <2>1, <2>3, <3>2
    <3> QED
      BY <3>1, <3>2
  <2>5. Leaves(ConstructAll(b, e, n - len, len + 1), n)
    BY <1>6 DEF b
  <2>6. ArrayInv' /\ Own' = q
    BY <1>4, <2>2, <2>3, <2>4, <2>5
  <2> QED
    BY <2>6 DEF q
<1> QED
  BY <1>3, <1>5, <1>6 DEF Resize, c

\* What erase leaves.
CutOut(p, n) == SubSeq(Own, 1, p - 1) \o SubSeq(Own, p + n, len)

LEMMA EraseActs ==
  ASSUME ArrayAssumption, ArrayInv, NEW p \in 1..len, NEW n \in Nat, p + n <= len + 1, Erase(p, n)
  PROVE  ArrayInv' /\ Own' = CutOut(p, n)
<1> DEFINE c == Len(mem)
           k == len + 1 - p - n
           a == SubSeq(Own, 1, p - 1)
           b == SubSeq(Own, p + n, len)
           q == Concat(a, b)
           m == Assign(mem, Cells(p + n), k, p)
<1>1. /\ c \in Nat /\ len \in Nat /\ len <= c
      /\ IsMap(mem, 1..c) /\ DOMAIN mem = 1..c /\ IsMap(mem, DOMAIN mem)
      /\ \A j \in 1..len : mem[j] \in Elems /\ mem[j] # RAW
      /\ \A j \in len + 1..c : mem[j] = RAW
  <2> HIDE DEF c
  <2> QED
    BY OldMem DEF c
<1>2. p \in Nat /\ p >= 1 /\ p <= len /\ k \in Nat /\ p + n + k = len + 1 /\ p + n <= len + 1 /\ n <= len /\ len - n \in Nat
  BY <1>1
<1>3. a \in Seq(Elems) /\ Len(a) = p - 1 /\ \A j \in 1..p - 1 : a[j] = mem[j]
  BY <1>1, <1>2, OwnIs
<1>4. b \in Seq(Elems) /\ Len(b) = k /\ \A j \in 1..k : b[j] = mem[p + n + j - 1]
  BY <1>1, <1>2, OwnIs
<1>5. Leaves(Destroy(m, len + 1 - n, len), len - n)
  BY DEF Erase
<1> HIDE DEF c, k, a, b, m
<1>6. /\ q \in Seq(Elems) /\ Len(q) = Len(a) + Len(b)
      /\ \A j \in 1..Len(a) + Len(b) : q[j] = IF j <= Len(a) THEN a[j] ELSE b[j - Len(a)]
  BY <1>3, <1>4, ConcatIs
<1> HIDE DEF q
<1>7. /\ Len(q) = len - n
      /\ \A j \in 1..len - n : q[j] = IF j < p THEN mem[j] ELSE mem[j + n]
  <2>1. Len(q) = len - n
    BY <1>1, <1>2, <1>3, <1>4, <1>6
  <2>2. ASSUME NEW j \in 1..len - n
        PROVE  q[j] = IF j < p THEN mem[j] ELSE mem[j + n]
    <3>1. j \in 1..Len(a) + Len(b) /\ (j <= Len(a) <=> j < p)
      BY <1>1, <1>2, <1>3, <1>4
    <3>2. CASE j < p
      <4>1. j \in 1..p - 1
        BY <1>2, <3>2
      <4> QED
        BY <1>3, <1>6, <3>1, <3>2, <4>1
    <3>3. CASE ~(j < p)
      <4>1. j - Len(a) \in 1..k /\ p + n + (j - Len(a)) - 1 = j + n
        BY <1>1, <1>2, <1>3, <3>3
      <4>2. q[j] = b[j - Len(a)]
        BY <1>6, <3>1, <3>3
      <4>3. b[j - Len(a)] = mem[p + n + (j - Len(a)) - 1]
        BY <1>4, <4>1
      <4> QED
        BY <3>3, <4>1, <4>2, <4>3
    <3> QED
      BY <3>2, <3>3
  <2> QED
    BY <2>1, <2>2
<1>8. /\ IsMap(m, DOMAIN mem)
      /\ \A j \in DOMAIN mem : m[j] = IF j \in p..p + k - 1 THEN Read(mem, Cells(p + n), j - p) ELSE mem[j]
  <2>1. Occupied(mem, k, p)
    <3> SUFFICES ASSUME NEW j \in p..p + k - 1 PROVE j \in DOMAIN mem /\ mem[j] # RAW
      BY DEF Occupied
    <3>1. j \in 1..c /\ j \in 1..len
      BY <1>1, <1>2
    <3> QED
      BY <1>1, <3>1
  <2>2. ReadsAhead(mem, Cells(p + n), k, p)
    BY <1>1, <1>2 DEF ReadsAhead, Cells
  <2>3. IsMap(mem, DOMAIN mem) /\ k \in Nat /\ p \in Int
    BY <1>1, <1>2
  <2> QED
    BY <2>1, <2>2, <2>3, Assigns DEF m
<1>9. ASSUME NEW j \in 1..c
      PROVE  m[j] = IF j >= p /\ j <= len - n THEN mem[j + n] ELSE mem[j]
  <2>1. j \in DOMAIN mem /\ (j \in p..p + k - 1 <=> j >= p /\ j <= len - n)
    BY <1>1, <1>2
  <2>2. m[j] = IF j \in p..p + k - 1 THEN Read(mem, Cells(p + n), j - p) ELSE mem[j]
    BY <1>8, <2>1
  <2>3. j \in p..p + k - 1 => Read(mem, Cells(p + n), j - p) = mem[j + n]
    <3>1. Read(mem, Cells(p + n), j - p) = mem[p + n + (j - p)]
      BY DEF Read, Cells
    <3>2. p + n + (j - p) = j + n
      BY <1>2
    <3> QED
      BY <3>1, <3>2
  <2> QED
    BY <2>1, <2>2, <2>3
<1>10. \A j \in 1..len - n : m[j] = q[j]
  <2> TAKE j \in 1..len - n
  <2>1. j \in 1..c /\ (j >= p /\ j <= len - n <=> ~(j < p))
    BY <1>1, <1>2
  <2> QED
    BY <1>7, <1>9, <2>1
<1>11. \A j \in len - n + 1..len : m[j] # RAW
  <2> TAKE j \in len - n + 1..len
  <2>1. j \in 1..c /\ j \in 1..len /\ ~(j >= p /\ j <= len - n)
    BY <1>1, <1>2
  <2> QED
    BY <1>1, <1>9, <2>1
<1>12. \A j \in len + 1..c : m[j] = RAW
  <2> TAKE j \in len + 1..c
  <2>1. j \in 1..c /\ ~(j >= p /\ j <= len - n)
    BY <1>1, <1>2
  <2> QED
    BY <1>1, <1>9, <2>1
<1>13. Leaves(Destroy(m, (len - n) + 1, len), len - n)
  <2>1. len + 1 - n = (len - n) + 1
    BY <1>1
  <2> QED
    BY <1>5, <2>1
<1>14. IsMap(m, 1..c) /\ len - n <= len
  BY <1>1, <1>2, <1>8
<1> DEFINE l == len - n
<1>15. ArrayInv' /\ Own' = q
  <2>1. /\ l = Len(q) /\ l <= len /\ Leaves(Destroy(m, l + 1, len), l)
        /\ \A j \in 1..l : m[j] = q[j]
        /\ \A j \in l + 1..len : m[j] # RAW
    BY <1>7, <1>10, <1>11, <1>13, <1>14
  <2> HIDE DEF l
  <2> QED
    BY <1>1, <1>6, <1>12, <1>14, <2>1, TailGoes
<1> QED
  BY <1>15 DEF q, a, b, Concat, CutOut

\* pop_back and clear: only a tail is destroyed.
LEMMA TailActs ==
  ASSUME ArrayAssumption, ArrayInv, NEW n \in 0..len, Leaves(Destroy(mem, n + 1, len), n)
  PROVE  ArrayInv'
<1> DEFINE c == Len(mem)
           q == SubSeq(Own, 1, n)
<1> HIDE DEF c
<1>1. /\ c \in Nat /\ len \in Nat /\ len <= c /\ n \in Nat /\ n <= len
      /\ IsMap(mem, 1..c)
      /\ \A j \in 1..len : mem[j] \in Elems /\ mem[j] # RAW
      /\ \A j \in len + 1..c : mem[j] = RAW
  BY OldMem DEF c
<1>2. q \in Seq(Elems) /\ n = Len(q) /\ \A j \in 1..n : mem[j] = q[j]
  BY <1>1, OwnIs
<1> HIDE DEF q
<1>3. \A j \in n + 1..len : mem[j] # RAW
  BY <1>1
<1> QED
  BY <1>1, <1>2, <1>3, TailGoes

\* reserve and shrink_to_fit: the same objects in another block.
LEMMA BlockActs ==
  ASSUME ArrayAssumption, ArrayInv, NEW d \in Nat, d >= len, NEW m, m = Fresh(Own, d), Leaves(m, len)
  PROVE  ArrayInv'
<1>1. Own \in Seq(Elems) /\ len = Len(Own) /\ len <= d
  BY OwnIs
<1>2. IsMap(m, 1..d) /\ \A j \in 1..d : m[j] = IF j <= len THEN Own[j] ELSE RAW
  BY <1>1, FreshIs
<1> QED
  BY <1>1, <1>2, EndsWith

LEMMA ArrayInit_Inv == ASSUME ArrayAssumption, ArrayInit PROVE ArrayInv
<1>1. mem \in Seq(Elems \cup {RAW}) /\ Len(mem) = 0 /\ len = 0
  BY DEF ArrayInit
<1> QED
  BY <1>1 DEF ArrayInv, Filled

LEMMA ArrayNext_Inv ==
  ASSUME ArrayAssumption, ArrayInv, [ArrayNext]_arrayVars
  PROVE  ArrayInv'
<1>1. len \in Nat /\ MaxLen \in Nat /\ Len(mem) \in Nat /\ len <= Len(mem)
  BY OldMem DEF ArrayAssumption
<1>2. ASSUME NEW x \in Readable, NEW p \in 1..len + 1, Insert(p, x) PROVE ArrayInv'
  BY <1>2, InsertActs
<1>3. ASSUME NEW x \in Readable, AssignRange(x) PROVE ArrayInv'
  BY <1>3, AssignRangeActs
<1>4. ASSUME NEW n \in 0..MaxLen, NEW e \in Elems, AssignVal(n, e) \/ Resize(n, e) PROVE ArrayInv'
  <2>1. n \in Nat
    BY <1>1
  <2> QED
    BY <1>4, <2>1, AssignValActs, ResizeActs
<1>5. ASSUME NEW p \in 1..len, NEW n \in 0..len, p + n <= len + 1, Erase(p, n) PROVE ArrayInv'
  <2>1. n \in Nat
    BY <1>1
  <2> QED
    BY <1>5, <2>1, EraseActs
<1>6. CASE PopBack
  <2>1. len - 1 \in 0..len /\ len - 1 + 1 = len
    BY <1>1, <1>6 DEF PopBack
  <2>2. Leaves(Destroy(mem, len - 1 + 1, len), len - 1)
    BY <1>6, <2>1 DEF PopBack
  <2> DEFINE n == len - 1
  <2> HIDE DEF n
  <2>3. n \in 0..len /\ Leaves(Destroy(mem, n + 1, len), n)
    BY <2>1, <2>2 DEF n
  <2> QED
    BY <2>3, TailActs
<1>7. CASE Clear
  <2>1. 0 \in 0..len /\ Leaves(Destroy(mem, 0 + 1, len), 0)
    BY <1>1, <1>7 DEF Clear
  <2> QED
    BY <2>1, TailActs
<1>8. ASSUME NEW n \in 1..MaxLen, Reserve(n) PROVE ArrayInv'
  <2>1. n \in Nat /\ n >= len /\ Leaves(Fresh(Own, n), len)
    BY <1>1, <1>8 DEF Reserve
  <2> QED
    BY <2>1, BlockActs
<1>9. CASE ShrinkToFit
  <2>1. Own \in Seq(Elems) /\ Len(Own) = len
    BY OwnIs
  <2> DEFINE m == Fresh(Own, len)
  <2>2. m = Own
    <3>1. Raw(len - Len(Own)) = <<>>
      BY <1>1, <2>1 DEF Raw
    <3>2. \A s \in Seq(Elems) : s \o <<>> = s
      OBVIOUS
    <3> QED
      BY <2>1, <3>1, <3>2 DEF Fresh
  <2>3. Leaves(m, len) /\ len >= len
    BY <1>1, <1>9, <2>2 DEF ShrinkToFit
  <2> HIDE DEF m
  <2> QED
    BY <1>1, <2>3, BlockActs DEF m
<1>10. CASE UNCHANGED arrayVars
  BY <1>10 DEF arrayVars, ArrayInv, Filled
<1> QED
  BY <1>2, <1>3, <1>4, <1>5, <1>6, <1>7, <1>8, <1>9, <1>10 DEF ArrayNext

LEMMA ArrayActs ==
  ASSUME ArrayAssumption, ArrayInv, ArrayInv'
  PROVE  Acts
<1>1. MaxLen \in Nat
  BY DEF ArrayAssumption
<1>2. ASSUME NEW x \in Readable, NEW p \in 1..len + 1, Insert(p, x)
      PROVE  Own' = SubSeq(Own, 1, p - 1) \o Taken(x, x.n) \o SubSeq(Own, p, len)
  BY <1>2, InsertActs, Zenon DEF Spliced
<1>3. ASSUME NEW x \in Readable, AssignRange(x)
      PROVE  Own' = Taken(x, x.n)
  BY <1>3, AssignRangeActs
<1>4. ASSUME NEW n \in 0..MaxLen, NEW e \in Elems
      PROVE  /\ AssignVal(n, e) => Own' = [i \in 1..n |-> e]
             /\ Resize(n, e) => Own' = [i \in 1..n |-> IF i <= len THEN mem[i] ELSE e]
             /\ \A p \in 1..len :
                  p + n <= len + 1 /\ Erase(p, n)
                    => Own' = SubSeq(Own, 1, p - 1) \o SubSeq(Own, p + n, len)
  <2>1. n \in Nat
    BY <1>1
  <2>2. AssignVal(n, e) => Own' = [i \in 1..n |-> e]
    BY <2>1, AssignValActs, Zenon
  <2>3. Resize(n, e) => Own' = [i \in 1..n |-> IF i <= len THEN mem[i] ELSE e]
    BY <2>1, ResizeActs, Zenon
  <2>4. ASSUME NEW p \in 1..len, Erase(p, n), p + n <= len + 1
        PROVE  Own' = SubSeq(Own, 1, p - 1) \o SubSeq(Own, p + n, len)
    BY <2>1, <2>4, EraseActs, Zenon DEF CutOut
  <2> QED
    BY <2>2, <2>3, <2>4
<1>5. /\ ~(\E i \in DOMAIN mem' : mem'[i] = BAD)
      /\ \A i \in DOMAIN mem' : (mem'[i] = RAW) = (i > len')
  <2>1. /\ mem' \in Seq(Elems \cup {RAW}) /\ len' \in 0..Len(mem')
        /\ \A j \in 1..len' : mem'[j] \in Elems
        /\ \A j \in len' + 1..Len(mem') : mem'[j] = RAW
    BY DEF ArrayInv, Filled
  <2>2. RAW \notin Elems /\ BAD \notin Elems /\ RAW # BAD
    BY DEF ArrayAssumption, RAW, BAD
  <2>3. DOMAIN mem' = 1..Len(mem') /\ Len(mem') \in Nat /\ len' \in Nat
    BY <2>1
  <2>4. ASSUME NEW i \in DOMAIN mem'
        PROVE  mem'[i] # BAD /\ (mem'[i] = RAW) = (i > len')
    <3>1. CASE i <= len'
      <4>1. i \in 1..len' /\ ~(i > len')
        BY <2>3, <3>1
      <4> QED
        BY <2>1, <2>2, <4>1
    <3>2. CASE i > len'
      <4>1. i \in len' + 1..Len(mem')
        BY <2>3, <3>2
      <4> QED
        BY <2>1, <2>2, <3>2, <4>1
    <3> QED
      BY <2>3, <3>1, <3>2
  <2> QED
    BY <2>4
<1> QED
  BY <1>2, <1>3, <1>4, <1>5 DEF Acts

\* Each operation of arr_container leaves the sequence it is asked for, also when the elements it
\* adds are the array's own, and constructs and destroys each object once.
THEOREM ArrayActsOnSequence == ASSUME ArrayAssumption PROVE ArraySpec => ActsOnSequence
<1>1. ArrayInit => ArrayInv
  BY ArrayInit_Inv
<1>2. ArrayInv /\ [ArrayNext]_arrayVars => ArrayInv'
  BY ArrayNext_Inv
<1>3. ArrayInv /\ ArrayInv' => (arrayVars' # arrayVars => Acts)
  BY ArrayActs
<1> QED
  BY <1>1, <1>2, <1>3, PTL DEF ArraySpec, ActsOnSequence

-----------------------------------------------------------------------------
(* Indexer: what the chains hold *)

\* The chain ch holds each number of S in one place, and no other ones.
Holds(ch, S) ==
  /\ ch \in Seq(S)
  /\ \A j, l \in 1..Len(ch) : ch[j] = ch[l] => j = l
  /\ \A i \in S : \E j \in 1..Len(ch) : ch[j] = i

\* The indices up to n that belong in chain c.
Home(vs, n, m, c) == {i \in 1..n : Slot(vs[i][1], m) = c}

\* The chains of bs are those of the pairs vs.
Tabled(bs, m, vs) ==
  /\ m \in Nat
  /\ bs = [c \in 1..m + 1 |-> bs[c]]
  /\ \A c \in 1..m + 1 : Holds(bs[c], Home(vs, Len(vs), m, c))

\* Pairs with different keys.
Pairs(vs) ==
  /\ vs \in Seq(Keys \X Vals)
  /\ \A i, j \in 1..Len(vs) : vs[i][1] = vs[j][1] => i = j

\* The table leads to the pairs, or there is none.
IndexerInv ==
  /\ Pairs(values)
  /\ load \in Nat \ {0}
  /\ (buckets = <<>> /\ mask = 0) \/ Tabled(buckets, mask, values)

LEMMA MinIn ==
  ASSUME NEW I \in SUBSET Nat, I # {}
  PROVE  Min(I) \in I
BY LeastNumber DEF Min

\* Where key k is.
KeyAt(vs, k) == SelectInSeq(vs, LAMBDA x : x[1] = k)

LEMMA KeyAtIs ==
  ASSUME NEW vs, Pairs(vs), NEW k
  PROVE  /\ KeyAt(vs, k) \in 0..Len(vs)
         /\ KeyAt(vs, k) # 0 => vs[KeyAt(vs, k)][1] = k
         /\ \A i \in 1..Len(vs) : vs[i][1] = k => KeyAt(vs, k) = i
<1> DEFINE I == {i \in 1..Len(vs) : vs[i][1] = k}
<1>1. KeyAt(vs, k) = IF I # {} THEN Min(I) ELSE 0
  BY DEF KeyAt, SelectInSeq
<1>2. Len(vs) \in Nat /\ \A i, j \in 1..Len(vs) : vs[i][1] = vs[j][1] => i = j
  BY DEF Pairs
<1>3. I # {} => Min(I) \in I
  <2>1. I \in SUBSET Nat
    OBVIOUS
  <2> QED
    BY <2>1, MinIn
<1>4. CASE I # {}
  <2>1. /\ KeyAt(vs, k) \in 1..Len(vs)
        /\ vs[KeyAt(vs, k)][1] = k
    BY <1>1, <1>3, <1>4
  <2>2. \A i \in 1..Len(vs) : vs[i][1] = k => KeyAt(vs, k) = i
    BY <1>2, <2>1
  <2> QED
    BY <1>2, <2>1, <2>2
<1>5. CASE I = {}
  BY <1>1, <1>2, <1>5
<1> QED
  BY <1>4, <1>5

\* chunk_find
LEMMA FindsInChain ==
  ASSUME NEW vs, Pairs(vs), NEW k, NEW m, NEW ch, Holds(ch, Home(vs, Len(vs), m, Slot(k, m)))
  PROVE  InChain(ch, vs, k) = KeyAt(vs, k)
<1> DEFINE I == {i \in 1..Len(ch) : vs[ch[i]][1] = k}
           at == IF I # {} THEN Min(I) ELSE 0
<1>1. InChain(ch, vs, k) = IF at = 0 THEN 0 ELSE ch[at]
  BY DEF InChain, SelectInSeq, invalid_pos
<1>2. Len(ch) \in Nat /\ \A i \in 1..Len(ch) : ch[i] \in 1..Len(vs)
  BY DEF Holds, Home
<1>3. I # {} => Min(I) \in I
  <2>1. I \in SUBSET Nat
    BY <1>2
  <2> QED
    BY <2>1, MinIn
<1>4. CASE I # {}
  <2>1. Min(I) \in 1..Len(ch) /\ vs[ch[Min(I)]][1] = k
    BY <1>3, <1>4
  <2>2. at = Min(I) /\ at # 0
    BY <1>4, <2>1
  <2>3. ch[at] \in 1..Len(vs) /\ vs[ch[at]][1] = k
    BY <1>2, <2>1, <2>2
  <2> HIDE DEF at
  <2> QED
    BY <1>1, <2>2, <2>3, KeyAtIs
<1>5. CASE I = {}
  <2>1. ASSUME NEW i \in 1..Len(vs), vs[i][1] = k PROVE FALSE
    <3>1. i \in Home(vs, Len(vs), m, Slot(k, m))
      BY <2>1 DEF Home
    <3>2. PICK j \in 1..Len(ch) : ch[j] = i
      BY <3>1 DEF Holds
    <3> QED
      BY <1>5, <2>1, <3>2
  <2>2. KeyAt(vs, k) = 0
    BY <2>1, KeyAtIs
  <2> QED
    BY <1>1, <1>5, <2>2
<1> QED
  BY <1>4, <1>5

\* chunk_insert
LEMMA PushHolds ==
  ASSUME NEW ch, NEW S, Holds(ch, S), NEW n, n \notin S
  PROVE  Holds(<<n>> \o ch, S \cup {n})
<1> DEFINE d == <<n>> \o ch
<1>1. /\ ch \in Seq(S) /\ Len(ch) \in Nat
      /\ \A j \in 1..Len(ch) : ch[j] \in S
  BY DEF Holds
<1>2. d \in Seq(S \cup {n}) /\ Len(d) = Len(ch) + 1
  BY <1>1
<1>3. \A j \in 1..Len(ch) + 1 : d[j] = IF j = 1 THEN n ELSE ch[j - 1]
  BY <1>1
<1> HIDE DEF d
<1>4. ASSUME NEW j \in 1..Len(d), NEW l \in 1..Len(d), d[j] = d[l] PROVE j = l
  <2>1. CASE j = 1 \/ l = 1
    BY <1>1, <1>2, <1>3, <1>4, <2>1
  <2>2. CASE j # 1 /\ l # 1
    <3>1. j - 1 \in 1..Len(ch) /\ l - 1 \in 1..Len(ch)
      BY <1>1, <1>2, <2>2
    <3>2. d[j] = ch[j - 1] /\ d[l] = ch[l - 1]
      BY <1>1, <1>2, <1>3, <2>2
    <3>3. j - 1 = l - 1
      BY <1>4, <3>1, <3>2 DEF Holds
    <3> QED
      BY <3>1, <3>3
  <2> QED
    BY <2>1, <2>2
<1>5. ASSUME NEW i \in S \cup {n} PROVE \E j \in 1..Len(d) : d[j] = i
  <2>1. CASE i = n
    <3>1. 1 \in 1..Len(d) /\ d[1] = n
      BY <1>1, <1>2, <1>3
    <3> QED
      BY <2>1, <3>1
  <2>2. CASE i \in S
    <3>1. PICK j \in 1..Len(ch) : ch[j] = i
      BY <2>2 DEF Holds
    <3>2. j + 1 \in 1..Len(d) /\ d[j + 1] = i
      BY <1>1, <1>2, <1>3, <3>1
    <3> QED
      BY <3>2
  <2> QED
    BY <2>1, <2>2
<1> QED
  BY <1>2, <1>4, <1>5 DEF Holds, d

\* chunk_replace
LEMMA RenamedHolds ==
  ASSUME NEW ch, NEW S, Holds(ch, S), NEW i \in S, NEW n, n \notin S
  PROVE  Holds(Renamed(ch, i, n), (S \ {i}) \cup {n})
<1> DEFINE d == Renamed(ch, i, n)
<1>1. /\ ch \in Seq(S) /\ Len(ch) \in Nat /\ DOMAIN ch = 1..Len(ch)
      /\ \A j \in 1..Len(ch) : ch[j] \in S
  BY DEF Holds
<1>2. \A j \in 1..Len(ch) : d[j] = IF ch[j] = i THEN n ELSE ch[j]
  BY <1>1 DEF Renamed
<1>3. d \in Seq((S \ {i}) \cup {n}) /\ Len(d) = Len(ch)
  <2>1. d \in [1..Len(ch) -> (S \ {i}) \cup {n}]
    BY <1>1 DEF Renamed
  <2> QED
    BY <1>1, <2>1
<1> HIDE DEF d
<1>4. ASSUME NEW j \in 1..Len(d), NEW l \in 1..Len(d), d[j] = d[l] PROVE j = l
  <2>1. ch[j] = ch[l]
    BY <1>1, <1>2, <1>3, <1>4
  <2> QED
    BY <1>3, <2>1 DEF Holds
<1>5. ASSUME NEW e \in (S \ {i}) \cup {n} PROVE \E j \in 1..Len(d) : d[j] = e
  <2>1. PICK j \in 1..Len(ch) : ch[j] = IF e = n THEN i ELSE e
    BY DEF Holds
  <2> QED
    BY <1>2, <1>3, <2>1
<1> QED
  BY <1>3, <1>4, <1>5 DEF Holds, d

\* chunk_erase
LEMMA RemoveHolds ==
  ASSUME NEW ch, NEW S, Holds(ch, S), NEW i \in S
  PROVE  Holds(RemoveFirst(ch, i), S \ {i})
<1> DEFINE I == {j \in 1..Len(ch) : ch[j] = i}
           d == RemoveFirst(ch, i)
<1>1. /\ ch \in Seq(S) /\ Len(ch) \in Nat
      /\ \A j \in 1..Len(ch) : ch[j] \in S
  BY DEF Holds
<1>2. PICK p \in 1..Len(ch) : ch[p] = i
  BY DEF Holds
<1>3. I = {p}
  BY <1>2 DEF Holds
<1>4. Min(I) = p
  BY <1>1, <1>3 DEF Min
<1>5. d = SubSeq(ch, 1, p - 1) \o SubSeq(ch, p + 1, Len(ch))
  <2>1. SelectInSeq(ch, LAMBDA v : v = i) = p
    BY <1>3, <1>4 DEF SelectInSeq
  <2> QED
    BY <1>2, <2>1 DEF RemoveFirst, RemoveAt
<1>6. /\ SubSeq(ch, 1, p - 1) \in Seq(S) /\ Len(SubSeq(ch, 1, p - 1)) = p - 1
      /\ \A j \in 1..p - 1 : SubSeq(ch, 1, p - 1)[j] = ch[j]
  BY <1>1
<1>7. /\ SubSeq(ch, p + 1, Len(ch)) \in Seq(S) /\ Len(SubSeq(ch, p + 1, Len(ch))) = Len(ch) - p
      /\ \A j \in 1..Len(ch) - p : SubSeq(ch, p + 1, Len(ch))[j] = ch[p + j]
  BY <1>1
<1>8. /\ d \in Seq(S) /\ Len(d) = Len(ch) - 1
      /\ \A j \in 1..Len(ch) - 1 : d[j] = IF j < p THEN ch[j] ELSE ch[j + 1]
  <2> DEFINE a == SubSeq(ch, 1, p - 1)
             b == SubSeq(ch, p + 1, Len(ch))
  <2>1. d = a \o b /\ a \in Seq(S) /\ b \in Seq(S)
    BY <1>5, <1>6, <1>7
  <2>2. Len(a) = p - 1 /\ Len(b) = Len(ch) - p /\ p \in 1..Len(ch)
    BY <1>6, <1>7
  <2>3. /\ \A j \in 1..p - 1 : a[j] = ch[j]
        /\ \A j \in 1..Len(ch) - p : b[j] = ch[p + j]
    BY <1>6, <1>7
  <2> HIDE DEF a, b, d
  <2>4. d \in Seq(S) /\ Len(d) = Len(a) + Len(b)
    BY <2>1
  <2>5. \A j \in 1..Len(a) + Len(b) : d[j] = IF j <= Len(a) THEN a[j] ELSE b[j - Len(a)]
    BY <2>1
  <2>6. ASSUME NEW j \in 1..Len(ch) - 1 PROVE d[j] = IF j < p THEN ch[j] ELSE ch[j + 1]
    <3>1. d[j] = IF j <= p - 1 THEN a[j] ELSE b[j - (p - 1)]
      BY <1>1, <2>2, <2>5
    <3>2. CASE j < p
      BY <1>1, <2>2, <2>3, <3>1, <3>2
    <3>3. CASE ~(j < p)
      <4>1. j - (p - 1) \in 1..Len(ch) - p
        BY <1>1, <2>2, <3>3
      <4>2. b[j - (p - 1)] = ch[p + (j - (p - 1))]
        BY <2>3, <4>1
      <4>3. p + (j - (p - 1)) = j + 1
        BY <1>1, <2>2
      <4> QED
        BY <1>1, <2>2, <3>1, <3>3, <4>2, <4>3
    <3> QED
      BY <3>2, <3>3
  <2> QED
    BY <1>1, <2>2, <2>4, <2>6
<1> HIDE DEF d
\* Where the jth index of what is left was.
<1> DEFINE was(j) == IF j < p THEN j ELSE j + 1
<1>9. \A j \in 1..Len(d) : was(j) \in 1..Len(ch) /\ was(j) # p /\ d[j] = ch[was(j)]
  BY <1>1, <1>8
<1>10. d \in Seq(S \ {i})
  <2>1. ASSUME NEW j \in 1..Len(d) PROVE d[j] \in S \ {i}
    <3> HIDE DEF was
    <3>1. was(j) \in 1..Len(ch) /\ was(j) # p /\ d[j] = ch[was(j)]
      BY <1>9
    <3>2. ch[was(j)] # ch[p]
      BY <1>2, <3>1 DEF Holds
    <3> QED
      BY <1>1, <1>2, <3>1, <3>2
  <2>2. d \in [1..Len(d) -> S \ {i}] /\ Len(d) \in Nat
    BY <1>8, <2>1
  <2> QED
    BY <2>2
<1>11. ASSUME NEW j \in 1..Len(d), NEW l \in 1..Len(d), d[j] = d[l] PROVE j = l
  <2>1. was(j) = was(l)
    <3> HIDE DEF was
    <3>1. was(j) \in 1..Len(ch) /\ was(l) \in 1..Len(ch) /\ ch[was(j)] = ch[was(l)]
      BY <1>9, <1>11
    <3> QED
      BY <3>1 DEF Holds
  <2>2. j \in Nat /\ l \in Nat /\ p \in Nat
    BY <1>1, <1>8
  <2> QED
    BY <2>1, <2>2
<1>12. ASSUME NEW e \in S \ {i} PROVE \E j \in 1..Len(d) : d[j] = e
  <2>1. PICK j \in 1..Len(ch) : ch[j] = e /\ j # p
    BY <1>2 DEF Holds
  <2>2. CASE j < p
    BY <1>1, <1>8, <2>1, <2>2
  <2>3. CASE j > p
    <3>1. j - 1 \in 1..Len(d) /\ d[j - 1] = e
      BY <1>1, <1>8, <2>1, <2>3
    <3> QED
      BY <3>1
  <2> QED
    BY <1>1, <2>1, <2>2, <2>3
<1> QED
  BY <1>10, <1>11, <1>12 DEF Holds, d
-----------------------------------------------------------------------------
(* Indexer: the tables that are built *)

\* A number has a power of two above it.
LEMMA n2pIs ==
  ASSUME NEW n \in Nat
  PROVE  n2p(n) \in Nat \ {0}
<1> DEFINE Step(f, i) == IF i = 0 THEN 1 ELSE 2 * f[i - 1]
           k == CHOOSE f : f = [i \in 0..n |-> Step(f, i)]
           S == {k[i] : i \in {j \in 0..n : k[j] >= n}}
<1>1. n2p(n) = Min(S)
  BY DEF n2p
<1>2. \E f : f = [i \in 0..n |-> Step(f, i)]
  <2> DEFINE There(N) == \E f : f = [i \in 0..N |-> Step(f, i)]
             T == {N \in Nat : ~There(N)}
  <2> SUFFICES ASSUME T # {} PROVE FALSE
    OBVIOUS
  <2>1. PICK N \in T : \A M \in T : N <= M
    <3> HIDE DEF T
    <3>1. T \in SUBSET Nat
      BY DEF T
    <3> QED
      BY <3>1, LeastNumber
  <2>2. There(0)
    <3> DEFINE f == [i \in 0..0 |-> 1]
    <3>1. f = [i \in 0..0 |-> Step(f, i)]
      OBVIOUS
    <3> QED
      BY <3>1
  <2>3. N - 1 \in Nat /\ There(N - 1)
    <3> HIDE DEF There
    <3>1. N # 0 /\ N \in Nat
      BY <2>1, <2>2
    <3>2. N - 1 \in Nat /\ N - 1 \notin T
      BY <2>1, <3>1
    <3> QED
      BY <3>2
  <2>4. PICK f : f = [i \in 0..N - 1 |-> Step(f, i)]
    BY <2>3
  <2> DEFINE g == [i \in 0..N |-> IF i = N THEN 2 * f[N - 1] ELSE f[i]]
  <2>5. ASSUME NEW i \in 0..N PROVE g[i] = Step(g, i)
    <3>1. CASE i = N
      BY <2>3, <3>1
    <3>2. CASE i # N
      <4>1. i \in 0..N - 1 /\ f[i] = Step(f, i)
        BY <2>3, <2>4, <3>2
      <4>2. i # 0 => g[i - 1] = f[i - 1]
        BY <2>3, <4>1
      <4> QED
        BY <3>2, <4>1, <4>2
    <3> QED
      BY <3>1, <3>2
  <2>6. g = [i \in 0..N |-> Step(g, i)]
    BY <2>5
  <2> QED
    BY <2>1, <2>6
<1>3. \A i \in 0..n : k[i] = Step(k, i)
  <2>1. k = [i \in 0..n |-> Step(k, i)]
    BY <1>2
  <2> HIDE DEF k
  <2> QED
    BY <2>1
<1> HIDE DEF k
<1>4. \A i \in 0..n : k[i] \in Nat /\ k[i] > i
  <2> DEFINE T == {i \in 0..n : ~(k[i] \in Nat /\ k[i] > i)}
  <2> SUFFICES ASSUME T # {} PROVE FALSE
    OBVIOUS
  <2>1. PICK i \in T : \A j \in T : i <= j
    <3> HIDE DEF T
    <3>1. T \in SUBSET Nat
      BY DEF T
    <3> QED
      BY <3>1, LeastNumber
  <2>2. i # 0
    BY <1>3, <2>1
  <2>3. i - 1 \in 0..n /\ k[i - 1] \in Nat /\ k[i - 1] > i - 1
    BY <2>1, <2>2
  <2>4. k[i] = 2 * k[i - 1]
    BY <1>3, <2>1, <2>2
  <2> QED
    BY <2>1, <2>3, <2>4
<1>5. S \in SUBSET (Nat \ {0})
  BY <1>4
<1>6. S # {}
  <2>1. n \in 0..n /\ k[n] >= n
    BY <1>4
  <2> QED
    BY <2>1
<1> HIDE DEF S
<1> QED
  BY <1>1, <1>5, <1>6, MinIn

\* The chain that a key belongs in is one of the table.
LEMMA SlotIn ==
  ASSUME NEW k \in Nat, NEW m \in Nat
  PROVE  Slot(k, m) \in 1..m + 1
<1>1. (k % (m + 1)) \in 0..m
  OBVIOUS
<1> QED
  BY <1>1 DEF Slot

\* chunk_insert for every pair: each index is in its chain.
LEMMA ChainsTabled ==
  ASSUME IndexerAssumption, NEW vs, Pairs(vs), NEW sz \in Nat \ {0}
  PROVE  Tabled(Chains(vs, sz), sz - 1, vs)
<1> DEFINE Put(f, n) == [f EXCEPT ![Slot(vs[n][1], sz - 1)] = <<n>> \o @]
           None == [c \in 1..sz |-> <<>>]
           Step(f, n) == IF n = 0 THEN None ELSE Put(f[n - 1], n)
           L == Len(vs)
           cks == CHOOSE f : f = [n \in 0..L |-> Step(f, n)]
           Good(f, n) == /\ f = [c \in 1..sz |-> f[c]]
                         /\ \A c \in 1..sz : Holds(f[c], Home(vs, n, sz - 1, c))
<1>1. Chains(vs, sz) = cks[L]
  BY DEF Chains
<1>2. L \in Nat /\ \A n \in 1..L : vs[n][1] \in Nat
  <2>1. L \in Nat /\ \A n \in 1..L : vs[n] \in Keys \X Vals
    BY DEF Pairs
  <2> QED
    BY <2>1 DEF IndexerAssumption
<1> HIDE DEF L
<1>3. \E f : f = [n \in 0..L |-> Step(f, n)]
  <2> DEFINE There(N) == \E f : f = [n \in 0..N |-> Step(f, n)]
             T == {N \in Nat : ~There(N)}
  <2> HIDE DEF Put, None
  <2> SUFFICES ASSUME T # {} PROVE FALSE
    BY <1>2
  <2>1. PICK N \in T : \A M \in T : N <= M
    <3> HIDE DEF T
    <3>1. T \in SUBSET Nat
      BY DEF T
    <3> QED
      BY <3>1, LeastNumber
  <2>2. There(0)
    <3> DEFINE f == [n \in 0..0 |-> None]
    <3>1. f = [n \in 0..0 |-> Step(f, n)]
      OBVIOUS
    <3> QED
      BY <3>1
  <2>3. N - 1 \in Nat /\ There(N - 1)
    <3> HIDE DEF There
    <3>1. N # 0 /\ N \in Nat
      BY <2>1, <2>2
    <3>2. N - 1 \in Nat /\ N - 1 \notin T
      BY <2>1, <3>1
    <3> QED
      BY <3>2
  <2>4. PICK f : f = [n \in 0..N - 1 |-> Step(f, n)]
    BY <2>3
  <2> DEFINE g == [n \in 0..N |-> IF n = N THEN Put(f[N - 1], N) ELSE f[n]]
  <2>5. ASSUME NEW n \in 0..N PROVE g[n] = Step(g, n)
    <3>1. CASE n = N
      BY <2>3, <3>1
    <3>2. CASE n # N
      <4>1. n \in 0..N - 1 /\ f[n] = Step(f, n)
        BY <2>3, <2>4, <3>2
      <4>2. n # 0 => g[n - 1] = f[n - 1]
        BY <2>3, <4>1
      <4> QED
        BY <3>2, <4>1, <4>2
    <3> QED
      BY <3>1, <3>2
  <2>6. g = [n \in 0..N |-> Step(g, n)]
    BY <2>5
  <2> QED
    BY <2>1, <2>6
<1>4. \A n \in 0..L : cks[n] = Step(cks, n)
  <2>1. cks = [n \in 0..L |-> Step(cks, n)]
    BY <1>3
  <2> HIDE DEF cks, Put, None
  <2> QED
    BY <2>1
<1> HIDE DEF cks
<1>5. Good(None, 0)
  <2>1. \A c \in 1..sz : Home(vs, 0, sz - 1, c) = {}
    BY DEF Home
  <2>2. Holds(<<>>, {})
    BY DEF Holds
  <2> QED
    BY <2>1, <2>2
<1>6. ASSUME NEW n \in 1..L, NEW f, Good(f, n - 1) PROVE Good(Put(f, n), n)
  <2> DEFINE s == Slot(vs[n][1], sz - 1)
  <2>1. s \in 1..sz
    <3>1. sz - 1 \in Nat /\ (sz - 1) + 1 = sz /\ vs[n][1] \in Nat
      BY <1>2
    <3> QED
      BY <3>1, SlotIn
  <2>2. \A c \in 1..sz : Put(f, n)[c] = IF c = s THEN <<n>> \o f[c] ELSE f[c]
    BY <1>6, <2>1
  <2>3. Put(f, n) = [c \in 1..sz |-> Put(f, n)[c]]
    BY <1>6
  <2> HIDE DEF Put
  <2>4. ASSUME NEW c \in 1..sz PROVE Holds(Put(f, n)[c], Home(vs, n, sz - 1, c))
    <3>1. Holds(f[c], Home(vs, n - 1, sz - 1, c))
      BY <1>6
    <3>2. CASE c = s
      <4>1. Home(vs, n, sz - 1, c) = Home(vs, n - 1, sz - 1, c) \cup {n} /\ n \notin Home(vs, n - 1, sz - 1, c)
        BY <1>2, <3>2 DEF Home
      <4>2. Holds(<<n>> \o f[c], Home(vs, n - 1, sz - 1, c) \cup {n})
        BY <3>1, <4>1, PushHolds
      <4> QED
        BY <2>2, <3>2, <4>1, <4>2
    <3>3. CASE c # s
      <4>1. Home(vs, n, sz - 1, c) = Home(vs, n - 1, sz - 1, c)
        BY <1>2, <3>3 DEF Home
      <4> QED
        BY <2>2, <3>1, <3>3, <4>1
    <3> QED
      BY <3>2, <3>3
  <2> QED
    BY <2>3, <2>4
<1> HIDE DEF Good, Put, None
<1>7. \A n \in 0..L : Good(cks[n], n)
  <2> DEFINE T == {n \in 0..L : ~Good(cks[n], n)}
  <2> SUFFICES ASSUME T # {} PROVE FALSE
    OBVIOUS
  <2>1. PICK n \in T : \A j \in T : n <= j
    <3> HIDE DEF T
    <3>1. T \in SUBSET Nat
      BY DEF T
    <3> QED
      BY <3>1, LeastNumber
  <2>2. n # 0
    BY <1>4, <1>5, <2>1
  <2>3. n \in 1..L /\ Good(cks[n - 1], n - 1)
    <3>1. n \in 1..L
      BY <1>2, <2>1, <2>2
    <3>2. n - 1 \in 0..L /\ n - 1 \notin T
      BY <1>2, <2>1, <3>1
    <3> QED
      BY <3>1, <3>2
  <2>4. Good(Put(cks[n - 1], n), n)
    BY <1>6, <2>3
  <2>5. cks[n] = Put(cks[n - 1], n)
    BY <1>4, <2>2, <2>3
  <2> QED
    BY <2>1, <2>4, <2>5
<1>8. Good(Chains(vs, sz), L)
  BY <1>1, <1>2, <1>7
<1>9. sz - 1 \in Nat /\ (sz - 1) + 1 = sz
  OBVIOUS
<1> QED
  BY <1>8, <1>9 DEF Good, Tabled, L

\* rehash
LEMMA RehashTabled ==
  ASSUME IndexerAssumption, NEW vs, Pairs(vs), NEW n \in Nat, load \in Nat \ {0}, n # 0 \/ vs # <<>>
  PROVE  Tabled(Rehashed(n, vs)[1], Rehashed(n, vs)[2], vs)
<1> DEFINE min == (2 * Len(vs) + load) \div (2 * load)
           sz  == n2p(IF n > min THEN n ELSE min)
<1>1. Rehashed(n, vs) = <<Chains(vs, sz), sz - 1, sz * load>>
  BY DEF Rehashed
<1>2. Len(vs) \in Nat
  BY DEF Pairs
<1>3. min \in Nat
  <2>1. 2 * Len(vs) + load \in Nat /\ 2 * load \in Nat \ {0}
    BY <1>2
  <2> QED
    BY <2>1
<1>4. sz \in Nat \ {0}
  <2> HIDE DEF min
  <2> QED
    BY <1>3, n2pIs
<1> HIDE DEF sz
<1> QED
  BY <1>1, <1>4, ChainsTabled
-----------------------------------------------------------------------------
(* Indexer: what each operation leaves *)

LEMMA PairIn ==
  ASSUME IndexerAssumption, NEW vs, Pairs(vs)
  PROVE  /\ Len(vs) \in Nat
         /\ \A i \in 1..Len(vs) : vs[i] \in Keys \X Vals /\ vs[i][1] \in Nat
<1>1. Len(vs) \in Nat /\ \A i \in 1..Len(vs) : vs[i] \in Keys \X Vals
  BY DEF Pairs
<1> QED
  BY <1>1 DEF IndexerAssumption

\* The search of find, insert and find2.
LEMMA Finds ==
  ASSUME IndexerAssumption, NEW bs, NEW m, NEW vs, Pairs(vs), Tabled(bs, m, vs), NEW k \in Keys
  PROVE  InChain(bs[Slot(k, m)], vs, k) = KeyAt(vs, k)
<1>1. m \in Nat /\ k \in Nat
  BY DEF Tabled, IndexerAssumption
<1>2. Holds(bs[Slot(k, m)], Home(vs, Len(vs), m, Slot(k, m)))
  BY <1>1, SlotIn DEF Tabled
<1> QED
  BY <1>2, FindsInChain

\* The table that insert and find2 look into.
LEMMA ReadyTabled ==
  ASSUME IndexerAssumption, IndexerInv
  PROVE  Tabled(Ready[1], Ready[2], values)
<1>1. CASE mask = 0
  <2>1. Ready = Rehashed(InitialBuckets, values) /\ InitialBuckets \in Nat \ {0}
    BY <1>1 DEF Ready, IndexerAssumption
  <2> QED
    BY <2>1, RehashTabled DEF IndexerInv
<1>2. CASE mask # 0
  <2>1. Ready = <<buckets, mask, hint>>
    BY <1>2 DEF Ready, Table
  <2> QED
    BY <1>2, <2>1 DEF IndexerInv
<1> QED
  BY <1>1, <1>2

LEMMA AppendPairs ==
  ASSUME NEW vs, Pairs(vs), NEW k \in Keys, NEW v \in Vals, KeyAt(vs, k) = 0
  PROVE  Pairs(Append(vs, <<k, v>>))
<1> DEFINE ws == Append(vs, <<k, v>>)
<1>1. /\ vs \in Seq(Keys \X Vals) /\ Len(vs) \in Nat
      /\ \A i, j \in 1..Len(vs) : vs[i][1] = vs[j][1] => i = j
  BY DEF Pairs
<1>2. ws \in Seq(Keys \X Vals) /\ Len(ws) = Len(vs) + 1
  BY <1>1
<1>3. /\ ws[Len(vs) + 1] = <<k, v>>
      /\ \A i \in 1..Len(vs) : ws[i] = vs[i]
  BY <1>1
<1>4. \A i \in 1..Len(vs) : vs[i][1] # k
  <2>1. 0 \notin 1..Len(vs)
    BY <1>1
  <2> QED
    BY <2>1, KeyAtIs
<1> DEFINE key(i) == ws[i][1]
           n == Len(vs) + 1
<1>5. \A i \in 1..n : IF i = n THEN key(i) = k ELSE i \in 1..Len(vs) /\ key(i) = vs[i][1]
  BY <1>1, <1>3
<1> HIDE DEF ws, key, n
<1>6. \A i, j \in 1..n : key(i) = key(j) => i = j
  BY <1>1, <1>4, <1>5
<1>7. \A i, j \in 1..Len(ws) : ws[i][1] = ws[j][1] => i = j
  BY <1>2, <1>6 DEF key, n
<1> QED
  BY <1>2, <1>7 DEF Pairs, ws

\* chunk_push below the load factor
LEMMA PushTabled ==
  ASSUME IndexerAssumption, NEW bs, NEW m, NEW vs, Pairs(vs), Tabled(bs, m, vs), NEW k \in Keys, NEW v
  PROVE  Tabled([bs EXCEPT ![Slot(k, m)] = <<Len(vs) + 1>> \o @], m, Append(vs, <<k, v>>))
<1> DEFINE ws == Append(vs, <<k, v>>)
           n  == Len(vs) + 1
           s  == Slot(k, m)
           ds == [bs EXCEPT ![s] = <<n>> \o @]
<1>1. vs \in Seq(Keys \X Vals) /\ Len(vs) \in Nat /\ m \in Nat /\ k \in Nat
  BY DEF Pairs, Tabled, IndexerAssumption
<1>2. Len(ws) = n /\ ws[n] = <<k, v>> /\ \A i \in 1..Len(vs) : ws[i] = vs[i]
  BY <1>1
<1>3. s \in 1..m + 1
  BY <1>1, SlotIn
<1>4. /\ ds = [c \in 1..m + 1 |-> ds[c]]
      /\ \A c \in 1..m + 1 : ds[c] = IF c = s THEN <<n>> \o bs[c] ELSE bs[c]
  <2>1. bs = [c \in 1..m + 1 |-> bs[c]]
    BY DEF Tabled
  <2> HIDE DEF n, s
  <2> QED
    BY <1>3, <2>1
<1>5. Slot(ws[n][1], m) = s
  BY <1>2
<1>6. \A i \in 1..n : i # n => ws[i] = vs[i]
  BY <1>1, <1>2
<1>7. 1..n = (1..Len(vs)) \cup {n} /\ n \notin 1..Len(vs)
  BY <1>1
<1> HIDE DEF ws, ds, n, s
<1>8. ASSUME NEW c \in 1..m + 1 PROVE Holds(ds[c], Home(ws, n, m, c))
  <2>1. Holds(bs[c], Home(vs, Len(vs), m, c))
    BY DEF Tabled
  <2>2. CASE c = s
    <3>1. Home(ws, n, m, c) = Home(vs, Len(vs), m, c) \cup {n} /\ n \notin Home(vs, Len(vs), m, c)
      BY <1>2, <1>5, <1>7, <2>2 DEF Home
    <3>2. Holds(<<n>> \o bs[c], Home(vs, Len(vs), m, c) \cup {n})
      BY <2>1, <3>1, PushHolds
    <3> QED
      BY <1>4, <2>2, <3>1, <3>2
  <2>3. CASE c # s
    <3>1. Home(ws, n, m, c) = Home(vs, Len(vs), m, c)
      BY <1>2, <1>5, <1>7, <2>3 DEF Home
    <3> QED
      BY <1>4, <2>1, <2>3, <3>1
  <2> QED
    BY <2>2, <2>3
<1>9. Tabled(ds, m, ws)
  BY <1>1, <1>2, <1>4, <1>8 DEF Tabled
<1> QED
  BY <1>9 DEF ds, ws, n, s

\* chunk_push, into a table that is there
LEMMA PushKeeps ==
  ASSUME IndexerAssumption, IndexerInv, NEW k \in Keys, NEW v \in Vals, KeyAt(values, k) = 0,
         Push(k, v), UNCHANGED load
  PROVE  IndexerInv'
<1> DEFINE ws == Append(values, <<k, v>>)
           t  == Ready
<1>1. values' = ws /\ Set(Pushed(t, k, ws))
  BY DEF Push
<1>2. Pairs(ws)
  BY AppendPairs DEF IndexerInv
<1>3. Len(ws) = Len(values) + 1 /\ Len(ws) \in Nat /\ ws # <<>>
  <2>1. values \in Seq(Keys \X Vals)
    BY DEF IndexerInv, Pairs
  <2> QED
    BY <2>1
<1>4. Tabled(buckets', mask', ws)
  <2>1. CASE Len(ws) > t[3]
    <3> DEFINE n == (2 * Len(ws)) \div load
    <3>1. n \in Nat
      BY <1>3 DEF IndexerInv
    <3>2. Tabled(Rehashed(n, ws)[1], Rehashed(n, ws)[2], ws)
      BY <1>2, <1>3, <3>1, RehashTabled DEF IndexerInv
    <3>3. Pushed(t, k, ws) = Rehashed(n, ws)
      BY <2>1 DEF Pushed
    <3> QED
      BY <1>1, <3>2, <3>3 DEF Set
  <2>2. CASE ~(Len(ws) > t[3])
    <3> DEFINE bs == [t[1] EXCEPT ![Slot(k, t[2])] = <<Len(ws)>> \o @]
    <3>1. Pushed(t, k, ws) = <<bs, t[2], t[3]>>
      BY <2>2 DEF Pushed
    <3>2. Tabled(t[1], t[2], values)
      BY ReadyTabled
    <3> HIDE DEF t
    <3>3. Tabled(bs, t[2], ws)
      BY <1>3, <3>2, PushTabled DEF IndexerInv
    <3> QED
      BY <1>1, <3>1, <3>3 DEF Set
  <2> QED
    BY <2>1, <2>2
<1> HIDE DEF ws
<1> QED
  BY <1>1, <1>2, <1>4 DEF IndexerInv

\* A table that is made ready, and nothing pushed.
LEMMA ReadyKeeps ==
  ASSUME IndexerAssumption, IndexerInv, Set(Ready), UNCHANGED <<values, load>>
  PROVE  IndexerInv'
BY ReadyTabled DEF IndexerInv, Set

\* insert
LEMMA InsertPairKeeps ==
  ASSUME IndexerAssumption, IndexerInv, NEW k \in Keys, NEW v \in Vals, InsertPair(k, v)
  PROVE  IndexerInv' /\ IF KeyAt(values, k) = 0 THEN values' = Append(values, <<k, v>>) ELSE values' = values
<1> DEFINE id == InChain(Ready[1][Slot(k, Ready[2])], values, k)
<1>1. id = KeyAt(values, k)
  BY ReadyTabled, Finds DEF IndexerInv
<1> HIDE DEF id
<1>2. /\ IF id = 0 THEN Push(k, v) ELSE Set(Ready) /\ UNCHANGED <<values, lost>>
      /\ UNCHANGED load
  BY DEF InsertPair, id, invalid_pos
<1>3. CASE id = 0
  <2>1. IndexerInv'
    BY <1>1, <1>2, <1>3, PushKeeps
  <2>2. values' = Append(values, <<k, v>>)
    BY <1>2, <1>3 DEF Push
  <2> QED
    BY <1>1, <1>3, <2>1, <2>2
<1>4. CASE id # 0
  BY <1>1, <1>2, <1>4, ReadyKeeps
<1> QED
  BY <1>3, <1>4

\* A mapped value is written: the keys stay.
LEMMA WrittenKeeps ==
  ASSUME IndexerAssumption, NEW bs, NEW m, NEW vs, Pairs(vs), Tabled(bs, m, vs),
         NEW k \in Keys, NEW v \in Vals, KeyAt(vs, k) # 0
  PROVE  /\ Pairs([vs EXCEPT ![KeyAt(vs, k)] = <<k, v>>])
         /\ Tabled(bs, m, [vs EXCEPT ![KeyAt(vs, k)] = <<k, v>>])
<1> DEFINE id == KeyAt(vs, k)
           ws == [vs EXCEPT ![id] = <<k, v>>]
<1>1. vs \in Seq(Keys \X Vals) /\ Len(vs) \in Nat /\ id \in 1..Len(vs) /\ vs[id][1] = k
  BY KeyAtIs DEF Pairs
<1> HIDE DEF id
<1>2. ws \in Seq(Keys \X Vals) /\ Len(ws) = Len(vs)
  BY <1>1
<1>3. \A i \in 1..Len(vs) : ws[i][1] = vs[i][1]
  BY <1>1
<1> HIDE DEF ws
<1>4. Pairs(ws)
  BY <1>2, <1>3 DEF Pairs
<1>5. \A c : Home(ws, Len(ws), m, c) = Home(vs, Len(vs), m, c)
  BY <1>2, <1>3 DEF Home
<1>6. Tabled(bs, m, ws)
  BY <1>5 DEF Tabled
<1> QED
  BY <1>4, <1>6 DEF ws, id

\* operator[] of indexer_map
LEMMA WritePairKeeps ==
  ASSUME IndexerAssumption, IndexerInv, NEW k \in Keys, NEW v \in Vals, WritePair(k, v)
  PROVE  /\ IndexerInv'
         /\ values' = IF KeyAt(values, k) = 0 THEN Append(values, <<k, v>>)
                      ELSE [values EXCEPT ![KeyAt(values, k)] = <<k, v>>]
<1> DEFINE id == InChain(Ready[1][Slot(k, Ready[2])], values, k)
<1>1. id = KeyAt(values, k)
  BY ReadyTabled, Finds DEF IndexerInv
<1> HIDE DEF id
<1>2. /\ IF id = 0 THEN Push(k, v)
         ELSE Set(Ready) /\ values' = [values EXCEPT ![id] = <<k, v>>] /\ UNCHANGED lost
      /\ UNCHANGED load
  BY DEF WritePair, id, invalid_pos
<1>3. CASE id = 0
  <2>1. IndexerInv'
    BY <1>1, <1>2, <1>3, PushKeeps
  <2>2. values' = Append(values, <<k, v>>)
    BY <1>2, <1>3 DEF Push
  <2> QED
    BY <1>1, <1>3, <2>1, <2>2
<1>4. CASE id # 0
  <2>1. Set(Ready) /\ values' = [values EXCEPT ![KeyAt(values, k)] = <<k, v>>] /\ load' = load
    BY <1>1, <1>2, <1>4
  <2>2. Pairs(values') /\ Tabled(Ready[1], Ready[2], values')
    BY <1>1, <1>4, <2>1, ReadyTabled, WrittenKeeps DEF IndexerInv
  <2>3. IndexerInv'
    BY <2>1, <2>2 DEF IndexerInv, Set
  <2> QED
    BY <1>1, <1>4, <2>1, <2>3
<1> QED
  BY <1>3, <1>4

\* What erase leaves of the pairs: the last one in the place id.
Erased(vs, id) == Front([vs EXCEPT ![id] = vs[Len(vs)]])

LEMMA ErasedIs ==
  ASSUME NEW vs, Pairs(vs), NEW id \in 1..Len(vs)
  PROVE  /\ Len(vs) \in Nat
         /\ Len(Erased(vs, id)) = Len(vs) - 1
         /\ \A i \in 1..Len(vs) - 1 : Erased(vs, id)[i] = vs[IF i = id THEN Len(vs) ELSE i]
         /\ Pairs(Erased(vs, id))
<1> DEFINE N == Len(vs)
           us == [vs EXCEPT ![id] = vs[N]]
           ws == Erased(vs, id)
           was(i) == IF i = id THEN N ELSE i
<1>1. /\ vs \in Seq(Keys \X Vals) /\ N \in Nat /\ id \in 1..N
      /\ \A i, j \in 1..N : vs[i][1] = vs[j][1] => i = j
      /\ \A i \in 1..N : vs[i] \in Keys \X Vals
  BY DEF Pairs
<1>2. us \in Seq(Keys \X Vals) /\ Len(us) = N /\ \A i \in 1..N : us[i] = vs[was(i)]
  BY <1>1
<1>3. ws = SubSeq(us, 1, N - 1)
  <2>1. Front(us) = SubSeq(us, 1, N - 1)
    BY <1>2 DEF Front
  <2> QED
    BY <2>1 DEF Erased
<1> HIDE DEF us, ws
<1>4. ws \in Seq(Keys \X Vals) /\ Len(ws) = N - 1 /\ \A i \in 1..N - 1 : ws[i] = us[i]
  BY <1>1, <1>2, <1>3
<1>5. \A i \in 1..N - 1 : ws[i] = vs[was(i)] /\ was(i) \in 1..N
  BY <1>1, <1>2, <1>4
<1>6. \A i, j \in 1..N - 1 : was(i) = was(j) => i = j
  BY <1>1
<1>7. ASSUME NEW i \in 1..N - 1, NEW j \in 1..N - 1, ws[i][1] = ws[j][1] PROVE i = j
  <2> HIDE DEF was, N
  <2>1. /\ was(i) \in 1..N /\ ws[i] = vs[was(i)]
        /\ was(j) \in 1..N /\ ws[j] = vs[was(j)]
    BY <1>5
  <2>2. was(i) = was(j)
    BY <1>1, <1>7, <2>1
  <2> QED
    BY <1>6, <2>2
<1> QED
  BY <1>1, <1>4, <1>5, <1>7 DEF Pairs, ws

\* erase: the table without id, in which the last index has become id.
LEMMA EraseTabled ==
  ASSUME IndexerAssumption, NEW vs, Pairs(vs), Tabled(buckets, mask, vs), NEW id \in 1..Len(vs)
  PROVE  Tabled(Moved([buckets EXCEPT ![Slot(vs[id][1], mask)] = RemoveFirst(@, id)], vs, id, Len(vs)),
                mask, Erased(vs, id))
<1> DEFINE N == Len(vs)
           a == Slot(vs[id][1], mask)
           b == Slot(vs[N][1], mask)
           cs == [buckets EXCEPT ![a] = RemoveFirst(@, id)]
           ds == Moved(cs, vs, id, N)
           ws == Erased(vs, id)
           H(c) == Home(vs, N, mask, c)
<1>1. N \in Nat /\ N \in 1..N /\ mask \in Nat /\ vs[id][1] \in Nat /\ vs[N][1] \in Nat
  BY PairIn DEF Tabled
<1>2. a \in 1..mask + 1 /\ b \in 1..mask + 1
  BY <1>1, SlotIn
<1>3. id \in 1..N /\ Len(ws) = N - 1 /\ \A i \in 1..N - 1 : ws[i] = vs[IF i = id THEN N ELSE i]
  BY ErasedIs
<1>4. \A c \in 1..mask + 1 : Holds(buckets[c], H(c))
  BY DEF Tabled
<1>5. \A c : \A i \in 1..N : i \in H(c) <=> Slot(vs[i][1], mask) = c
  BY DEF Home
<1>6. \A c : H(c) \subseteq 1..N
  BY DEF Home
<1>7. /\ cs = [c \in 1..mask + 1 |-> cs[c]]
      /\ \A c \in 1..mask + 1 : cs[c] = IF c = a THEN RemoveFirst(buckets[c], id) ELSE buckets[c]
  <2>1. buckets = [c \in 1..mask + 1 |-> buckets[c]]
    BY DEF Tabled
  <2> HIDE DEF a
  <2> QED
    BY <1>2, <2>1
<1>8. /\ id = N => ds = cs
      /\ id # N => /\ ds = [c \in 1..mask + 1 |-> ds[c]]
                   /\ \A c \in 1..mask + 1 : ds[c] = IF c = b THEN Renamed(cs[c], N, id) ELSE cs[c]
  <2>1. ds = IF id = N THEN cs ELSE [cs EXCEPT ![b] = Renamed(@, N, id)]
    BY DEF Moved
  <2> HIDE DEF a, b, cs, ds
  <2> QED
    BY <1>2, <1>7, <2>1
<1>9. ASSUME NEW c \in 1..mask + 1 PROVE Holds(cs[c], H(c) \ {id})
  <2>1. CASE c = a
    BY <1>3, <1>4, <1>5, <1>7, <2>1, RemoveHolds
  <2>2. CASE c # a
    <3>1. H(c) \ {id} = H(c)
      BY <1>3, <1>5, <2>2
    <3> QED
      BY <1>4, <1>7, <2>2, <3>1
  <2> QED
    BY <2>1, <2>2
<1>10. \A i, c : i \in Home(ws, N - 1, mask, c) <=>
                   i \in 1..N - 1 /\ (IF i = id THEN N ELSE i) \in H(c)
  BY <1>1, <1>3, <1>5 DEF Home
<1> HIDE DEF a, cs, ds, ws, H
<1>11. ASSUME NEW c \in 1..mask + 1 PROVE Holds(ds[c], Home(ws, N - 1, mask, c))
  <2>1. CASE id = N
    <3>1. Home(ws, N - 1, mask, c) = H(c) \ {id}
      BY <1>1, <1>3, <1>6, <1>10, <2>1
    <3> QED
      BY <1>8, <1>9, <2>1, <3>1
  <2>2. CASE id # N /\ c = b
    <3>1. N \in H(c) \ {id}
      BY <1>1, <1>5, <2>2
    <3>2. Holds(Renamed(cs[c], N, id), ((H(c) \ {id}) \ {N}) \cup {id})
      BY <1>9, <3>1, RenamedHolds
    <3>3. Home(ws, N - 1, mask, c) = ((H(c) \ {id}) \ {N}) \cup {id}
      BY <1>1, <1>3, <1>6, <1>10, <2>2, <3>1
    <3> QED
      BY <1>8, <2>2, <3>2, <3>3
  <2>3. CASE id # N /\ c # b
    <3>1. N \notin H(c)
      BY <1>1, <1>5, <2>3
    <3>2. Home(ws, N - 1, mask, c) = H(c) \ {id}
      BY <1>1, <1>3, <1>6, <1>10, <2>3, <3>1
    <3> QED
      BY <1>8, <1>9, <2>3, <3>2
  <2> QED
    BY <2>1, <2>2, <2>3
<1>12. ds = [c \in 1..mask + 1 |-> ds[c]]
  BY <1>7, <1>8
<1>13. Tabled(ds, mask, ws)
  BY <1>1, <1>3, <1>11, <1>12 DEF Tabled
<1> QED
  BY <1>13 DEF ds, cs, ws, a

\* find: by the table, when there is one
LEMMA FindIs ==
  ASSUME IndexerAssumption, IndexerInv, mask # 0, NEW k \in Keys
  PROVE  Find(k) = KeyAt(values, k)
BY Finds DEF Find, IndexerInv

\* erase
LEMMA ErasePairKeeps ==
  ASSUME IndexerAssumption, IndexerInv, NEW k \in Keys, ErasePair(k)
  PROVE  IndexerInv' /\ KeyAt(values, k) # 0 /\ values' = Erased(values, KeyAt(values, k))
<1> DEFINE id == KeyAt(values, k)
<1>1. mask # 0 /\ Find(k) # 0
  BY DEF ErasePair, Find, invalid_pos
<1>2. Find(k) = id /\ id # 0
  BY <1>1, FindIs
<1>3. Pairs(values) /\ Tabled(buckets, mask, values)
  BY <1>1 DEF IndexerInv
<1>4. id \in 1..Len(values) /\ values[id][1] = k
  BY <1>2, <1>3, KeyAtIs, PairIn
<1> HIDE DEF id
<1>5. /\ buckets' = Moved([buckets EXCEPT ![Slot(values[id][1], mask)] = RemoveFirst(@, id)], values, id, Len(values))
      /\ values' = Erased(values, id) /\ mask' = mask /\ load' = load
  BY <1>2, <1>4 DEF ErasePair, Erased
<1>6. Pairs(values') /\ Tabled(buckets', mask', values')
  BY <1>3, <1>4, <1>5, ErasedIs, EraseTabled
<1>7. IndexerInv'
  BY <1>5, <1>6 DEF IndexerInv
<1> QED
  BY <1>2, <1>5, <1>7 DEF id

\* rehash, reserve and the copy constructor
LEMMA RehashKeeps ==
  ASSUME IndexerAssumption, IndexerInv, NEW n \in Nat, Set(Rehashed(n, values)), UNCHANGED <<values, load>>
  PROVE  IndexerInv'
<1>1. CASE n = 0 /\ values = <<>>
  <2>1. buckets' = <<>> /\ mask' = 0
    BY <1>1 DEF Set, Rehashed
  <2> QED
    BY <2>1 DEF IndexerInv
<1>2. CASE ~(n = 0 /\ values = <<>>)
  <2>1. Tabled(Rehashed(n, values)[1], Rehashed(n, values)[2], values)
    BY <1>2, RehashTabled DEF IndexerInv
  <2> QED
    BY <2>1 DEF IndexerInv, Set
<1> QED
  BY <1>1, <1>2

\* clear
LEMMA ClearKeeps ==
  ASSUME IndexerAssumption, IndexerInv, ClearPairs
  PROVE  IndexerInv' /\ values' = <<>>
<1>1. values' = <<>> /\ buckets' = [c \in DOMAIN buckets |-> <<>>] /\ mask' = mask /\ load' = load
  BY DEF ClearPairs
<1>2. Pairs(<<>>)
  BY DEF Pairs
<1>3. CASE buckets = <<>> /\ mask = 0
  <2>1. buckets' = <<>>
    BY <1>1, <1>3
  <2> QED
    BY <1>1, <1>2, <1>3, <2>1 DEF IndexerInv
<1>4. CASE Tabled(buckets, mask, values)
  <2>1. mask \in Nat /\ DOMAIN buckets = 1..mask + 1
    <3>1. mask \in Nat /\ buckets = [c \in 1..mask + 1 |-> buckets[c]]
      BY <1>4 DEF Tabled
    <3> QED
      BY <3>1
  <2>2. \A c : Home(<<>>, Len(<<>>), mask, c) = {}
    BY DEF Home
  <2>3. Holds(<<>>, {})
    BY DEF Holds
  <2>4. Tabled([c \in 1..mask + 1 |-> <<>>], mask, <<>>)
    BY <2>1, <2>2, <2>3 DEF Tabled
  <2> QED
    BY <1>1, <1>2, <2>1, <2>4 DEF IndexerInv
<1> QED
  BY <1>3, <1>4 DEF IndexerInv

LEMMA IndexerInit_Inv == ASSUME IndexerAssumption, IndexerInit PROVE IndexerInv
BY DEF IndexerInit, IndexerInv, Pairs, IndexerAssumption

\* Each step keeps the invariant and is a step of a map with indices, or leaves the pairs as they are.
LEMMA IndexerNext_Inv ==
  ASSUME IndexerAssumption, IndexerInv, [IndexerNext]_indexerVars
  PROVE  IndexerInv' /\ [Abstract!Next]_values
<1>0. \A k : Abstract!Index(k) = KeyAt(values, k)
  BY DEF Abstract!Index, KeyAt, SelectInSeq, Abstract!SelectInSeq, Min, Abstract!Min
<1>1. ASSUME NEW k \in Keys, NEW v \in Vals, InsertPair(k, v)
      PROVE  IndexerInv' /\ (values' = values \/ Abstract!Insert(k, v))
  BY <1>0, <1>1, InsertPairKeeps DEF Abstract!Insert
<1>2. ASSUME NEW k \in Keys, NEW v \in Vals, WritePair(k, v)
      PROVE  IndexerInv' /\ Abstract!Write(k, v)
  BY <1>0, <1>2, WritePairKeeps DEF Abstract!Write
<1>3. ASSUME NEW k \in Keys, ErasePair(k)
      PROVE  IndexerInv' /\ Abstract!Erase(k)
  <2>1. IndexerInv' /\ KeyAt(values, k) # 0 /\ values' = Erased(values, KeyAt(values, k))
    BY <1>3, ErasePairKeeps
  <2> QED
    BY <1>0, <2>1 DEF Abstract!Erase, Erased, Front, Last, Abstract!Front, Abstract!Last
<1>4. ASSUME NEW n \in 0..MaxBuckets, Rehash(n) \/ ReserveBuckets(n)
      PROVE  IndexerInv' /\ values' = values
  <2>1. n \in Nat /\ load \in Nat \ {0}
    BY DEF IndexerAssumption, IndexerInv
  <2>2. Ceil(n, load) \in Nat
    <3>1. n + load - 1 \in Nat
      BY <2>1
    <3> QED
      BY <2>1, <3>1 DEF Ceil
  <2>3. PICK r \in Nat : Rehash(r)
    BY <1>4, <2>1, <2>2 DEF ReserveBuckets
  <2> QED
    BY <2>3, RehashKeeps DEF Rehash
<1>5. CASE ClearPairs
  BY <1>5, ClearKeeps DEF Abstract!Next, Abstract!Clear
<1>6. CASE CopyPairs
  <2>1. values' = values /\ load' = load
    BY <1>6 DEF CopyPairs
  <2>2. CASE values = <<>>
    <3>1. buckets' = <<>> /\ mask' = 0
      BY <1>6, <2>2 DEF CopyPairs, Set
    <3> QED
      BY <2>1, <3>1 DEF IndexerInv
  <2>3. CASE values # <<>>
    BY <1>6, <2>1, <2>3, RehashKeeps DEF CopyPairs
  <2> QED
    BY <2>1, <2>2, <2>3
<1>7. ASSUME NEW z \in Loads, SetLoad(z)
      PROVE  IndexerInv' /\ values' = values
  BY <1>7 DEF SetLoad, IndexerInv, IndexerAssumption
<1>8. CASE UNCHANGED indexerVars
  BY <1>8 DEF indexerVars, IndexerInv
<1>9. (\E k \in Keys, v \in Vals : Abstract!Insert(k, v) \/ Abstract!Write(k, v))
      \/ (\E k \in Keys : Abstract!Erase(k)) => Abstract!Next
  BY DEF Abstract!Next
<1> QED
  BY <1>1, <1>2, <1>3, <1>4, <1>5, <1>6, <1>7, <1>8, <1>9 DEF IndexerNext

LEMMA IndexerAgrees == ASSUME IndexerAssumption, IndexerInv PROVE ChainsAgree /\ KeysFound
<1>1. CASE buckets = <<>> /\ mask = 0
  BY <1>1 DEF ChainsAgree, KeysFound
<1>2. CASE Tabled(buckets, mask, values)
  <2>1. /\ DOMAIN buckets = 1..mask + 1 /\ mask \in Nat
        /\ \A c \in DOMAIN buckets : Holds(buckets[c], Home(values, Len(values), mask, c))
    <3>1. buckets = [c \in 1..mask + 1 |-> buckets[c]]
      BY <1>2 DEF Tabled
    <3> QED
      BY <1>2, <3>1 DEF Tabled
  <2>2. \A c \in DOMAIN buckets : /\ DOMAIN buckets[c] = 1..Len(buckets[c])
                                  /\ \A j \in DOMAIN buckets[c] :
                                       buckets[c][j] \in Home(values, Len(values), mask, c)
    BY <2>1 DEF Holds
  <2>3. DOMAIN values = 1..Len(values)
    BY DEF IndexerInv, Pairs
  <2>4. ASSUME NEW c \in DOMAIN buckets, NEW j \in DOMAIN buckets[c]
        PROVE  /\ buckets[c][j] \in DOMAIN values
               /\ \A d \in DOMAIN buckets : \A l \in DOMAIN buckets[d] :
                    buckets[c][j] = buckets[d][l] => c = d /\ j = l
    <3>1. buckets[c][j] \in Home(values, Len(values), mask, c)
      BY <2>2
    <3>2. ASSUME NEW d \in DOMAIN buckets, NEW l \in DOMAIN buckets[d], buckets[c][j] = buckets[d][l]
          PROVE  c = d /\ j = l
      <4>1. buckets[d][l] \in Home(values, Len(values), mask, d)
        BY <2>2
      <4>2. c = d
        BY <3>1, <3>2, <4>1 DEF Home
      <4> QED
        BY <2>1, <2>2, <3>2, <4>2 DEF Holds
    <3> QED
      BY <2>3, <3>1, <3>2 DEF Home
  <2>5. ASSUME NEW i \in DOMAIN values PROVE \E c \in DOMAIN buckets : \E j \in DOMAIN buckets[c] : buckets[c][j] = i
    <3>1. Slot(values[i][1], mask) \in DOMAIN buckets
      BY <2>1, <2>3, PairIn, SlotIn DEF IndexerInv
    <3>2. i \in Home(values, Len(values), mask, Slot(values[i][1], mask))
      BY <2>3 DEF Home
    <3> QED
      BY <2>1, <2>2, <3>1, <3>2 DEF Holds
  <2>6. mask # 0 => \A k \in Keys : Find(k) = SelectInSeq(values, LAMBDA x : x[1] = k)
    BY FindIs DEF KeyAt
  <2> QED
    BY <2>4, <2>5, <2>6 DEF ChainsAgree, KeysFound
<1> QED
  BY <1>1, <1>2 DEF IndexerInv

\* indexer_base.h: whatever is inserted, written, erased, rehashed, reserved, cleared and copied,
\* with whatever load factors, the array holds what a map with indices holds, and the table
\* leads to each pair by its key (IndexesKept).
THEOREM IndexerKeepsIndexes == ASSUME IndexerAssumption PROVE IndexerSpec => IndexesKept
<1>1. IndexerInit => IndexerInv /\ Abstract!Init
  BY IndexerInit_Inv DEF IndexerInit, Abstract!Init
<1>2. IndexerInv /\ [IndexerNext]_indexerVars => IndexerInv' /\ [Abstract!Next]_values
  BY IndexerNext_Inv
<1>3. IndexerInv => ChainsAgree /\ KeysFound
  BY IndexerAgrees
<1> QED
  BY <1>1, <1>2, <1>3, PTL DEF IndexerSpec, IndexesKept, Abstract!Spec
=============================================================================
