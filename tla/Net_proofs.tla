-------------------------- MODULE Net_proofs ------------------------------
(***************************************************************************)
(* What NET checks, for all constants.  SRSW_Queue implements a bounded    *)
(* FIFO for every size and every set of values, and frees its ring once,   *)
(* when the last handle lets go.  The numbers of the pool's table are in   *)
(* one place each: Register, svc_del and a failed registration move a      *)
(* number, and none is ever in two.  No operation outlives its session;    *)
(* the argument for the session on Windows is in SessionIocp_proofs.       *)
(*                                                                         *)
(* Q2Packet cuts a stream into the packets that were sent, for packets and *)
(* pieces of every size and any alignment (PacketsKept): the bytes between *)
(* its positions begin the next packet, the packets kept lie before.       *)
(***************************************************************************)
EXTENDS MCNet, Q2Packet, TLAPS, SequenceTheorems, FiniteSetTheorems

(* Indices modulo the size N of the ring. *)

\* A sum or difference of two ring indices is brought back by at most one N.
LEMMA ModFold ==
  ASSUME NEW N \in Nat \ {0}, NEW x \in (-N)..(2*N-1)
  PROVE  x % N = IF x < 0 THEN x + N ELSE IF x < N THEN x ELSE x - N
<1>1. CASE x \in (-N)..(-1) BY <1>1
<1>2. CASE x \in 0..N-1 BY <1>2
<1>3. CASE x \in N..2*N-1 BY <1>3
<1> QED BY <1>1, <1>2, <1>3

\* The index after the last one is 0.
LEMMA ModSucc ==
  ASSUME NEW N \in Nat \ {0}, NEW i \in 0..N-1
  PROVE  (i + 1) % N = (IF i + 1 = N THEN 0 ELSE i + 1)
BY ModFold

\* The number of steps from index y forward to index x.
LEMMA ModDiff ==
  ASSUME NEW N \in Nat \ {0}, NEW x \in 0..N-1, NEW y \in 0..N-1
  PROVE  (x - y) % N = (IF x >= y THEN x - y ELSE x - y + N)
<1>1. CASE x >= y
  BY <1>1
<1>2. CASE x < y
  BY <1>2
<1> QED BY <1>1, <1>2

\* The index of the i-th element from index x on.
LEMMA ModSum ==
  ASSUME NEW N \in Nat \ {0}, NEW x \in 0..N-1, NEW i \in 1..N
  PROVE  (x + i - 1) % N = (IF x + (i - 1) < N THEN x + (i - 1) ELSE x + (i - 1) - N)
<1>1. CASE x + (i - 1) < N
  BY <1>1
<1>2. CASE x + (i - 1) >= N
  BY <1>2
<1> QED BY <1>1, <1>2

\* An index modulo N is in the ring.
LEMMA ModRange ==
  ASSUME NEW N \in Nat \ {0}, NEW x \in Int
  PROVE  x % N \in 0..N-1
OBVIOUS

-----------------------------------------------------------------------------
(* The positions and the slots *)

\* Types without the count of references (its bound needs CountInv).
Types ==
  /\ rd_pos \in 0..Size-1 /\ wr_pos \in 0..Size-1
  /\ data \in [0..Size-1 -> Values]
  /\ nref \in Int /\ freed \in BOOLEAN
  /\ attached \subseteq Handles
  /\ pc \in [Handles -> {"idle", "store", "load", "publish", "return", "free", "drop"}]
  /\ pushing \in Values \cup {Nil} /\ popped \in Values \cup {Nil}
  /\ DOMAIN ret = {"reader", "writer"}

\* One position further round the ring.
Succ(i) == IF i + 1 = Size THEN 0 ELSE i + 1

\* Who may be where, what the locals hold, and what the test before a store (a
\* copy) still guarantees when the store (the publication) happens.
RingInv ==
  /\ pc["writer"] \in {"store", "publish"} => pushing \in Values /\ Succ(wr_pos) # rd_pos
  /\ pc["writer"] = "publish" => data[wr_pos] = pushing
  /\ pc["reader"] \in {"load", "publish"} => rd_pos # wr_pos
  /\ pc["reader"] = "publish" => popped = data[rd_pos]
  /\ \A h \in Handles : pc[h] \in {"store", "load", "publish", "return"} => h \in {"reader", "writer"}
  /\ pc["writer"] # "load" /\ pc["reader"] # "store"
  /\ \A h \in {"reader", "writer"} : pc[h] # "return" => ret[h] = None

Inv == Types /\ RingInv

\* (i+1)%nSize, the code's next position, is the next place of the ring.
LEMMA SuccIsMod == ASSUME NEW i \in 0..Size-1 PROVE (i + 1) % Size = Succ(i) /\ Succ(i) \in 0..Size-1
<1>1. Size \in Nat \ {0}
  BY SizeAssumption
<1>2. (i + 1) % Size = Succ(i)
  BY <1>1, ModSucc DEF Succ
<1>3. Succ(i) \in 0..Size-1
  BY <1>1 DEF Succ
<1> QED BY <1>2, <1>3

\* The constructor establishes the invariant.
LEMMA InvInit == Init => Inv
<1> SUFFICES ASSUME Init PROVE Inv
  OBVIOUS
<1>1. Types
  <2>1. data \in [0..Size-1 -> Values]
    BY DEF Init
  <2>2. DOMAIN ret = {"reader", "writer"}
    BY DEF Init
  <2>3. attached \subseteq Handles
    BY DEF Init, Handles
  <2>4. pc \in [Handles -> {"idle", "store", "load", "publish", "return", "free", "drop"}]
    BY DEF Init
  <2>5. rd_pos \in 0..Size-1 /\ wr_pos \in 0..Size-1
    BY SizeAssumption DEF Init
  <2>6. nref \in Int /\ pushing = Nil /\ popped = Nil
    BY DEF Init
  <2>7. freed \in BOOLEAN
    BY Zenon DEF Init
  <2> QED BY <2>1, <2>2, <2>3, <2>4, <2>5, <2>6, <2>7 DEF Types
<1>2. RingInv
  BY DEF Init, RingInv, Handles
<1> QED BY <1>1, <1>2 DEF Inv

\* Every step of push(), popq() and of the handles keeps it.
LEMMA InvNext == Inv /\ [Next]_vars => Inv'
<1> SUFFICES ASSUME Inv, [Next]_vars PROVE Inv'
  OBVIOUS
<1> USE SizeAssumption DEF Inv, Types, RingInv, Goto, Handles, None, ring, refs
<1>f. /\ RingFull <=> Succ(wr_pos) = rd_pos
      /\ Succ(wr_pos) \in 0..Size-1 /\ (wr_pos + 1) % Size = Succ(wr_pos)
      /\ Succ(rd_pos) \in 0..Size-1 /\ (rd_pos + 1) % Size = Succ(rd_pos)
  BY SuccIsMod DEF RingFull
<1>b. CASE UNCHANGED freed
  <2>f. freed' \in BOOLEAN
    BY <1>b, Zenon
  <2>1. ASSUME NEW v \in Values, PushTest(v) PROVE Inv'
    <3>1. CASE RingFull
      BY <2>1, <3>1, <2>f DEF PushTest, Answer, Succ
    <3>2. CASE ~RingFull
      <4>1. pc' = [pc EXCEPT !["writer"] = "store"] /\ pushing' = v /\ Succ(wr_pos) # rd_pos
        BY <2>1, <3>2, <1>f DEF PushTest
      <4>2. UNCHANGED <<rd_pos, wr_pos, data, nref, attached, popped, ret>> /\ ret["writer"] = None
        BY <2>1, <3>2 DEF PushTest
      <4> QED BY <2>f, <4>1, <4>2 DEF Succ
    <3> QED BY <3>1, <3>2
  <2>2. CASE PushStore
    BY <2>2, <2>f DEF PushStore, Succ
  <2>3. CASE PushPublish
    BY <2>3, <2>f, <1>f DEF PushPublish, Answer
  <2>4. CASE PopTest
    <3>1. CASE rd_pos = wr_pos
      BY <2>4, <3>1, <2>f DEF PopTest, Answer, Succ
    <3>2. CASE rd_pos # wr_pos
      BY <2>4, <3>2, <2>f DEF PopTest, Succ
    <3> QED BY <3>1, <3>2
  <2>5. CASE PopLoad
    BY <2>5, <2>f DEF PopLoad, Succ
  <2>6. CASE PopPublish
    BY <2>6, <2>f, <1>f DEF PopPublish, Answer, Succ
  <2>7. ASSUME NEW h \in {"reader", "writer"}, Return(h) PROVE Inv'
    BY <2>7, <2>f DEF Return, Succ
  <2>8. ASSUME NEW h \in Handles, Copy(h) PROVE Inv'
    BY <2>8, <2>f DEF Copy, Succ
  <2>9. ASSUME NEW h \in Handles, ClearDecrement(h) \/ ClearDrop(h) PROVE Inv'
    <3>1. CASE ClearDecrement(h)
      <4>1. \E l \in {"free", "drop"} : pc' = [pc EXCEPT ![h] = l]
        BY <3>1 DEF ClearDecrement
      <4> QED BY <3>1, <4>1, <2>f DEF ClearDecrement, Succ
    <3>2. CASE ClearDrop(h)
      BY <3>2, <2>f DEF ClearDrop, Succ
    <3> QED BY <2>9, <3>1, <3>2
  <2>10. CASE UNCHANGED vars
    BY <2>10, <2>f DEF vars, Succ
  <2>11. ASSUME NEW h \in Handles, ClearFree(h) PROVE Inv'
    BY <2>11, <2>f DEF ClearFree, Succ
  <2> QED
    BY <2>1, <2>2, <2>3, <2>4, <2>5, <2>6, <2>7, <2>8, <2>9, <2>10, <2>11
       DEF Next, Writer, Reader, Clear
<1>c. CASE \E h \in Handles : ClearFree(h)
  <2>1. freed' \in BOOLEAN
    BY <1>c, Zenon DEF ClearFree
  <2> QED BY <1>c, <2>1 DEF ClearFree, Succ
<1> QED
  BY <1>b, <1>c DEF Next, Writer, Reader, Clear, PushTest, PushStore, PushPublish, PopTest,
     PopLoad, PopPublish, Return, Copy, ClearDecrement, ClearDrop, vars

-----------------------------------------------------------------------------
(* The list, without modulo. *)
Dist(r, w) == IF w >= r THEN w - r ELSE w - r + Size
Place(r, k) == IF r + k < Size THEN r + k ELSE r + k - Size

\* size()'s difference modulo nSize is the distance from rd_pos to wr_pos.
LEMMA CountIsDist ==
  ASSUME NEW r \in 0..Size-1, NEW w \in 0..Size-1
  PROVE  (w - r) % Size = Dist(r, w) /\ Dist(r, w) \in 0..Size-1
<1>1. Size \in Nat \ {0}
  BY SizeAssumption
<1>3. (w - r) % Size = Dist(r, w)
  BY <1>1, ModDiff DEF Dist
<1>4. Dist(r, w) \in 0..Size-1
  BY <1>1 DEF Dist
<1> QED BY <1>3, <1>4

\* The slot of the k-th element lies within the ring.
LEMMA IndexIsPlace ==
  ASSUME NEW r \in 0..Size-1, NEW i \in 1..Size
  PROVE  (r + i - 1) % Size = Place(r, i - 1) /\ Place(r, i - 1) \in 0..Size-1
<1>1. Size \in Nat \ {0}
  BY SizeAssumption
<1>3. (r + i - 1) % Size = Place(r, i - 1)
  BY <1>1, ModSum DEF Place
<1>4. Place(r, i - 1) \in 0..Size-1
  BY <1>1 DEF Place
<1> QED BY <1>3, <1>4

\* The list as a function of the positions and the slots.
List(r, w, d) == [i \in 1..Dist(r, w) |-> d[Place(r, i - 1)]]

\* The list is a sequence of as many values as the distance says.
LEMMA ListFacts ==
  ASSUME NEW r \in 0..Size-1, NEW w \in 0..Size-1, NEW d \in [0..Size-1 -> Values]
  PROVE  /\ [i \in 1..((w - r) % Size) |-> d[(r + i - 1) % Size]] = List(r, w, d)
         /\ List(r, w, d) \in Seq(Values) /\ Len(List(r, w, d)) = Dist(r, w)
         /\ Dist(r, w) \in 0..Size-1
<1>1. (w - r) % Size = Dist(r, w) /\ Dist(r, w) \in 0..Size-1
  BY CountIsDist
<1>2. \A i \in 1..Dist(r, w) : /\ (r + i - 1) % Size = Place(r, i - 1)
                               /\ Place(r, i - 1) \in 0..Size-1
  <2>1. \A i \in 1..Dist(r, w) : i \in 1..Size
    BY <1>1, SizeAssumption
  <2> QED BY <2>1, IndexIsPlace
<1>3. [i \in 1..((w - r) % Size) |-> d[(r + i - 1) % Size]] = List(r, w, d)
  BY <1>1, <1>2 DEF List
<1>4. \A i \in 1..Dist(r, w) : List(r, w, d)[i] \in Values
  BY <1>2 DEF List
<1>5. List(r, w, d) = [i \in 1..Dist(r, w) |-> List(r, w, d)[i]] /\ Dist(r, w) \in Nat
  BY <1>1 DEF List
<1> QED BY <1>1, <1>3, <1>4, <1>5

\* The list of the refinement mapping is the one without modulo.
LEMMA ItemsIsList ==
  /\ Types => Items = List(rd_pos, wr_pos, data)
  /\ Types' => Items' = List(rd_pos', wr_pos', data')
BY ListFacts DEF Types, Items, Count

-----------------------------------------------------------------------------
(* Every step of the queue is a step of the list, or none. *)

\* A store goes to a slot that no element occupies.
LEMMA StoreOutside ==
  ASSUME Inv, PushStore
  PROVE  Items' = Items
<1>1. Types /\ Types'
  BY InvNext DEF Inv, Next, Writer
<1>2. Items = List(rd_pos, wr_pos, data) /\ Items' = List(rd_pos, wr_pos, data')
  BY <1>1, ItemsIsList DEF PushStore
<1>3. ASSUME NEW i \in 1..Dist(rd_pos, wr_pos)
      PROVE  data'[Place(rd_pos, i - 1)] = data[Place(rd_pos, i - 1)]
  BY <1>1, <1>3, SizeAssumption DEF PushStore, Types, Dist, Place
<1> QED BY <1>2, <1>3 DEF List

\* A publication of the writer appends what it stored.
LEMMA PublishAppends ==
  ASSUME Inv, PushPublish
  PROVE  /\ Items \in Seq(Values) /\ Len(Items) + 1 <= Size - 1
         /\ pushing \in Values
         /\ Items' = Items \o <<pushing>>
<1>1. Types /\ Types' /\ RingInv
  BY InvNext DEF Inv, Next, Writer
<1> DEFINE r == rd_pos  w == wr_pos  w2 == Succ(wr_pos)
           n == Dist(r, w)  s == List(r, w, data)  t == List(r, w2, data)
<1>2. Items = s /\ s \in Seq(Values) /\ Len(s) = n
  BY <1>1, ItemsIsList, ListFacts DEF Types
<1>3. Items' = t /\ t \in Seq(Values) /\ Len(t) = Dist(r, w2)
  BY <1>1, ItemsIsList, ListFacts, SuccIsMod DEF PushPublish, Types
<1>4. Dist(r, w2) = n + 1 /\ Place(r, n) = w /\ n \in Nat /\ n + 1 <= Size - 1
  BY <1>1, SizeAssumption DEF Types, RingInv, PushPublish, Dist, Place, Succ
<1>5. pushing \in Values /\ data[w] = pushing
  BY <1>1 DEF RingInv, PushPublish
<1>6. \A i \in 1..n+1 : t[i] = IF i = n + 1 THEN pushing ELSE s[i]
  BY <1>4, <1>5 DEF List
<1> HIDE DEF n, s, t
<1>7. /\ Append(s, pushing) \in Seq(Values) /\ Len(Append(s, pushing)) = n + 1
      /\ \A i \in 1..n : Append(s, pushing)[i] = s[i]
      /\ Append(s, pushing)[n + 1] = pushing
  BY <1>2, <1>5, AppendProperties
<1>8. \A i \in 1..n+1 : t[i] = Append(s, pushing)[i]
  BY <1>4, <1>6, <1>7
<1>9. t = Append(s, pushing)
  BY <1>3, <1>4, <1>7, <1>8, SeqEqual
<1> QED
  BY <1>2, <1>3, <1>4, <1>5, <1>9, AppendIsConcat

\* A publication of the reader removes the element it copied.
LEMMA PublishRemoves ==
  ASSUME Inv, PopPublish
  PROVE  /\ Items \in Seq(Values) /\ Len(Items) >= 1
         /\ Items' = SubSeq(Items, 2, Len(Items))
         /\ <<popped>> = SubSeq(Items, 1, 1)
<1>1. Types /\ Types' /\ RingInv
  BY InvNext DEF Inv, Next, Reader
<1> DEFINE r == rd_pos  w == wr_pos  r2 == Succ(rd_pos)
           n == Dist(r, w)  s == List(r, w, data)  t == List(r2, w, data)
<1>2. Items = s /\ s \in Seq(Values) /\ Len(s) = n
  BY <1>1, ItemsIsList, ListFacts DEF Types
<1>3. Items' = t /\ t \in Seq(Values) /\ Len(t) = Dist(r2, w)
  BY <1>1, ItemsIsList, ListFacts, SuccIsMod DEF PopPublish, Types
<1>4. Dist(r2, w) = n - 1 /\ n \in Nat /\ n >= 1 /\ n <= Size - 1
      /\ Place(r, 0) = r
  BY <1>1, SizeAssumption DEF Types, RingInv, PopPublish, Dist, Place, Succ
<1>5. popped = data[r]
  BY <1>1 DEF RingInv, PopPublish
<1>6. \A i \in 1..n-1 : Place(r2, i - 1) = Place(r, i)
  BY <1>1, <1>4, SizeAssumption DEF Types, Place, Succ
<1>7. \A i \in 1..n-1 : t[i] = s[i + 1]
  BY <1>4, <1>6 DEF List
<1>8. s[1] = popped
  BY <1>4, <1>5 DEF List
<1> HIDE DEF n, s, t
<1>9. \A i \in 1..n : s[i] \in Values
  BY <1>2, ElementOfSeq
<1>10. /\ SubSeq(s, 2, n) \in Seq(Values) /\ Len(SubSeq(s, 2, n)) = n - 1
       /\ \A i \in 1..n-1 : SubSeq(s, 2, n)[i] = s[i + 1]
  <2>1. \A i \in 2..n : s[i] \in Values
    BY <1>9
  <2>2. /\ SubSeq(s, 2, n) \in Seq(Values)
        /\ Len(SubSeq(s, 2, n)) = (IF 2 <= n THEN n - 2 + 1 ELSE 0)
        /\ \A i \in 1..n-2+1 : SubSeq(s, 2, n)[i] = s[2 + i - 1]
    BY <1>4, <2>1, SubSeqProperties
  <2> QED BY <1>4, <2>2
<1>11. t = SubSeq(s, 2, n)
  BY <1>3, <1>4, <1>7, <1>10, SeqEqual
<1>12. SubSeq(s, 1, 1) = <<popped>>
  <2>1. 1 \in 1..Len(s) /\ SubSeq(s, 1, 1) = <<s[1]>> \o SubSeq(s, 2, 1)
    BY <1>2, <1>4, SubSeqRecursiveFirst
  <2>2. SubSeq(s, 2, 1) = <<>>
    BY SubSeqEmpty
  <2>3. <<popped>> \in Seq(Values)
    BY <1>4, <1>8, <1>9
  <2> QED BY <1>8, <2>1, <2>2, <2>3, ConcatEmptySeq
<1> QED
  BY <1>2, <1>3, <1>4, <1>11, <1>12

\* An empty ring is an empty list.
LEMMA InitImplementsInit == Init => Fifo!Init
<1> SUFFICES ASSUME Init PROVE Fifo!Init
  OBVIOUS
<1>1. Types
  BY InvInit DEF Inv
<1>2. Len(Items) = 0 /\ Items \in Seq(Values)
  BY <1>1, ItemsIsList, ListFacts DEF Types, Init, Dist
<1>3. Items = <<>>
  BY <1>2, EmptySeq
<1> QED BY <1>3 DEF Init, Fifo!Init, None, Fifo!None

\* The publications are the list's push and pop, the tests answer "full" and
\* "empty" truthfully, and every other step leaves the list alone.
LEMMA StepImplementsStep ==
  ASSUME Inv, [Next]_vars
  PROVE  [Fifo!Next]_(Fifo!vars)
<1>1. Types /\ Types' /\ RingInv
  BY InvNext DEF Inv
<1>2. /\ Items \in Seq(Values) /\ Len(Items) = Dist(rd_pos, wr_pos)
      /\ Dist(rd_pos, wr_pos) \in 0..Size-1
  BY <1>1, ItemsIsList, ListFacts DEF Types
<1>3. UNCHANGED ring => UNCHANGED Items
  BY DEF ring, Items, Count
<1>4. UNCHANGED <<ring, ret>> => UNCHANGED Fifo!vars
  BY <1>3 DEF Fifo!vars
<1>5. ASSUME NEW v \in Values, PushTest(v) PROVE [Fifo!Next]_(Fifo!vars)
  <2>1. CASE RingFull
    <3>1. Succ(wr_pos) = rd_pos
      BY <1>1, <2>1, SuccIsMod DEF RingFull, Types
    <3>2. Len(Items) + 1 > Size - 1
      BY <1>1, <1>2, <3>1, SizeAssumption DEF Types, Dist, Succ
    <3>3. Fifo!DeclinePut("writer", <<v>>)
      <4>1. Len(<<v>>) = 1
        OBVIOUS
      <4>2. ret["writer"] = None
        BY <1>1, <1>5 DEF PushTest, RingInv
      <4>3. Items' = Items
        BY <1>3, <1>5 DEF PushTest
      <4>4. ret' = [ret EXCEPT !["writer"] = <<"put", <<>>>>]
        BY <1>5, <2>1 DEF PushTest, Answer
      <4> QED
        BY <3>2, <4>1, <4>2, <4>3, <4>4 DEF Fifo!DeclinePut, Fifo!Answer, None, Fifo!None
    <3> QED BY <3>3 DEF Fifo!Next
  <2>2. CASE ~RingFull
    BY <1>4, <1>5, <2>2 DEF PushTest
  <2> QED BY <2>1, <2>2
<1>6. CASE PushStore
  BY <1>6, StoreOutside DEF PushStore, Fifo!vars
<1>7. CASE PushPublish
  <2>1. /\ Items' = Items \o <<pushing>> /\ Len(Items) + 1 <= Size - 1
        /\ pushing \in Values /\ ret["writer"] = None
    BY <1>1, <1>7, PublishAppends DEF RingInv, PushPublish
  <2>2. <<pushing>> \in Seq(Values) /\ Len(<<pushing>>) = 1
    BY <2>1
  <2>3. SubSeq(<<pushing>>, 1, 1) = <<pushing>>
    BY <2>2, SubSeqFull
  <2>4. ret' = [ret EXCEPT !["writer"] = <<"put", <<pushing>>>>]
    BY <1>7 DEF PushPublish, Answer
  <2>5. Fifo!Answer("writer", "put", SubSeq(<<pushing>>, 1, 1))
    BY <2>1, <2>3, <2>4 DEF Fifo!Answer, None, Fifo!None
  <2>6. 1 \in 1..Len(<<pushing>>) /\ Items' = Items \o SubSeq(<<pushing>>, 1, 1)
    BY <2>1, <2>2, <2>3
  <2>7. Fifo!Put("writer", <<pushing>>)
    BY <2>1, <2>5, <2>6 DEF Fifo!Put
  <2> QED BY <2>1, <2>7 DEF Fifo!Next
<1>8. CASE PopTest
  <2>1. CASE rd_pos = wr_pos
    <3>1. Items = <<>>
      BY <1>1, <1>2, <2>1, EmptySeq DEF Types, Dist
    <3>2. Items' = Items
      BY <1>3, <1>8 DEF PopTest
    <3>3. ret["reader"] = None
      BY <1>1, <1>8 DEF PopTest, RingInv
    <3>4. Fifo!DeclineGet("reader")
      BY <1>8, <2>1, <3>1, <3>2, <3>3
         DEF Fifo!DeclineGet, Fifo!Answer, PopTest, Answer, None, Fifo!None
    <3> QED BY <3>4 DEF Fifo!Next
  <2>2. CASE rd_pos # wr_pos
    BY <1>4, <1>8, <2>2 DEF PopTest
  <2> QED BY <2>1, <2>2
<1>9. CASE PopPublish
  <2>1. /\ Items' = SubSeq(Items, 2, Len(Items)) /\ 1 \in 1..Len(Items)
        /\ <<popped>> = SubSeq(Items, 1, 1) /\ ret["reader"] = None
    BY <1>1, <1>2, <1>9, PublishRemoves DEF RingInv, PopPublish
  <2>3. ret' = [ret EXCEPT !["reader"] = <<"get", <<popped>>>>]
    BY <1>9 DEF PopPublish, Answer
  <2>4. Fifo!Answer("reader", "get", SubSeq(Items, 1, 1))
    BY <2>1, <2>3 DEF Fifo!Answer, None, Fifo!None
  <2>5. Items' = SubSeq(Items, 1 + 1, Len(Items))
    BY <2>1
  <2>2. Fifo!Get("reader")
    BY <2>1, <2>4, <2>5 DEF Fifo!Get
  <2> QED BY <2>2 DEF Fifo!Next
<1>10. ASSUME NEW h \in {"reader", "writer"}, Return(h) PROVE [Fifo!Next]_(Fifo!vars)
  BY <1>3, <1>10 DEF Return, Fifo!Next, Fifo!Return, None, Fifo!None
<1>11. CASE PopLoad
  BY <1>4, <1>11 DEF PopLoad
<1>12. CASE UNCHANGED vars \/ \E h \in Handles : Copy(h) \/ Clear(h)
  BY <1>4, <1>12 DEF vars, Copy, Clear, ClearDecrement, ClearFree, ClearDrop
<1> QED
  BY <1>5, <1>6, <1>7, <1>8, <1>9, <1>10, <1>11, <1>12 DEF Next, Writer, Reader

\* SRSW_Queue's push and popq implement a bounded first-in first-out list: every
\* element pushed comes out once, in order, and "full" and "empty" are true answers.
THEOREM ImplementsBoundedFifo == Spec => ImplementsFifo
<1>1. Spec => []Inv
  BY InvInit, InvNext, PTL DEF Spec
<1>2. Inv /\ [Next]_vars => [Fifo!Next]_(Fifo!vars)
  BY StepImplementsStep
<1> QED BY <1>1, <1>2, InitImplementsInit, PTL DEF Spec, ImplementsFifo, Fifo!Spec

\* The reader and the writer never work on the same slot.
THEOREM ApartAlways == Spec => []ReaderAndWriterApart
<1>1. Inv => ReaderAndWriterApart
  BY DEF Inv, RingInv, ReaderAndWriterApart
<1> QED BY <1>1, InvInit, InvNext, PTL DEF Spec

-----------------------------------------------------------------------------
(* The count of references *)

\* A handle that counts: clear() has not yet decremented for it.
Holds(h) == h \in attached /\ pc[h] \notin {"free", "drop"}
Counts(h) == IF Holds(h) THEN 1 ELSE 0

\* nref is the number of handles that count; only the last one comes to free, when
\* nobody else counts, so that no copy can be made of it any more.
RefInv ==
  /\ nref = Counts("main") + Counts("reader") + Counts("writer")
  /\ \A h \in Handles : pc[h] # "idle" => h \in attached
  /\ \A h \in Handles : pc[h] = "free" => nref = 0 /\ ~freed
  /\ \A h, g \in Handles : pc[h] = "free" /\ pc[g] = "free" => h = g
  /\ freed => nref = 0

\* The constructor's count is that of the handle "main".
LEMMA RefInit == Init => RefInv
  BY DEF Init, RefInv, Holds, Counts, Handles

\* push and popq leave the handles alone.
LEMMA CallsKeepRefs == Inv /\ RefInv /\ (Writer \/ Reader) => RefInv'
<1> SUFFICES ASSUME Inv, RefInv, Writer \/ Reader PROVE RefInv'
  OBVIOUS
<1>1. UNCHANGED <<nref, freed, attached>>
  BY DEF Writer, Reader, PushTest, PushStore, PushPublish, PopTest, PopLoad, PopPublish, Return, refs
<1>2. \A h \in Handles : /\ pc'[h] = "free" <=> pc[h] = "free"
                         /\ pc'[h] = "drop" <=> pc[h] = "drop"
                         /\ pc'[h] # "idle" => h \in attached
  BY DEF Writer, Reader, PushTest, PushStore, PushPublish, PopTest, PopLoad, PopPublish, Return,
         Goto, Inv, Types, RefInv, Handles
<1>3. \A h \in Handles : Counts(h)' = Counts(h)
  BY <1>1, <1>2 DEF Counts, Holds
<1> QED
  BY <1>1, <1>2, <1>3 DEF RefInv, Handles

\* Copies and clear() keep the count.
LEMMA RefNext == Inv /\ RefInv /\ [Next]_vars => RefInv'
<1> SUFFICES ASSUME Inv, RefInv, [Next]_vars PROVE RefInv'
  OBVIOUS
<1> USE DEF Inv, Types, RefInv, Counts, Holds, Handles, Goto
<1>1. CASE Writer \/ Reader
  BY <1>1, CallsKeepRefs
<1>2. ASSUME NEW h \in Handles, Copy(h) PROVE RefInv'
  BY <1>2 DEF Copy
<1>3. ASSUME NEW h \in Handles, ClearDecrement(h) PROVE RefInv'
  <2>1. PICK l \in {"free", "drop"} : /\ pc' = [pc EXCEPT ![h] = l]
                                      /\ l = "free" <=> nref = 1
    BY <1>3 DEF ClearDecrement
  <2>2. /\ h \in attached /\ pc[h] = "idle" /\ nref' = nref - 1
        /\ UNCHANGED <<attached, freed>>
    BY <1>3 DEF ClearDecrement
  <2>3. nref >= 1
    BY <2>2
  <2>4. ~freed /\ \A g \in Handles : pc[g] # "free"
    BY <2>3
  <2> QED
    BY <2>1, <2>2, <2>3, <2>4
<1>4. ASSUME NEW h \in Handles, ClearFree(h) PROVE RefInv'
  BY <1>4 DEF ClearFree
<1>5. ASSUME NEW h \in Handles, ClearDrop(h) PROVE RefInv'
  BY <1>5 DEF ClearDrop
<1>6. CASE UNCHANGED vars
  BY <1>6 DEF vars, refs
<1> QED
  BY <1>1, <1>2, <1>3, <1>4, <1>5, <1>6 DEF Next, Clear

\* The ring is freed once, by the handle that drops the last reference, and nobody
\* that still calls push or popq is attached to a freed ring.
THEOREM FreedOnce == Spec => []FreedByTheLast
<1>1. Inv /\ RefInv => FreedByTheLast
  BY DEF Inv, Types, RefInv, FreedByTheLast, Counts, Holds, Handles
<1>2. Inv /\ RefInv /\ [Next]_vars => Inv' /\ RefInv'
  BY InvNext, RefNext
<1> QED
  BY <1>1, <1>2, InvInit, RefInit, PTL DEF Spec

-----------------------------------------------------------------------------
(* The pool of sessions: where the numbers are *)

\* Where a number can be, besides lost.
Free(n) == \E i \in 1..Len(avail) : avail[i] = n
Held(n) == \E s \in Sessions : num[s] = n
Kept(n) == table[n] # NoOne \/ (chk = "delPut" /\ slot = n)

PoolTypes ==
  /\ pstate \in [Sessions -> {"READY", "OK", "DISCONNECT"}]
  /\ avail \in Seq(Slots) /\ table \in [Slots -> Sessions \union {NoOne}]
  /\ num \in [Sessions -> Slots \union {NoOne}] /\ count \in Int /\ lost \subseteq Slots
  /\ ppc \in [Sessions -> {"idle", "inuse", "open", "add", "count", "reset", "insert"}]
  /\ slot \in Slots

\* No number is twice in the queue, and no two calls of Register have the same one.
Once ==
  /\ \A i, j \in 1..Len(avail) : avail[i] = avail[j] => i = j
  /\ \A s, t \in Sessions : num[s] = num[t] /\ num[s] # NoOne => s = t

\* A number is in one place.
Apart ==
  \A n \in Slots :
    /\ Free(n) \/ Held(n) \/ Kept(n) \/ n \in lost
    /\ ~(Free(n) /\ Held(n)) /\ ~(Free(n) /\ Kept(n)) /\ ~(Free(n) /\ n \in lost)
    /\ ~(Held(n) /\ Kept(n)) /\ ~(Held(n) /\ n \in lost) /\ ~(Kept(n) /\ n \in lost)

\* A call of Register has a number; svc_del has a session, and an empty place after it.
Placed ==
  /\ \A s \in Sessions : num[s] # NoOne <=> ppc[s] # "idle"
  /\ chk \in {"del", "delTold", "delTable"} => table[slot] # NoOne
  /\ chk = "delPut" => table[slot] = NoOne

PoolInv == PoolTypes /\ Once /\ Apart /\ Placed

-----------------------------------------------------------------------------
(* The table has a first number, and the checker's loop stays in it *)

LEMMA FirstInSlots == ASSUME Pool!PoolAssumption PROVE Pool!First \in Slots
<1>1. PICK max \in Nat \ {0} : Slots = 1..max
  BY DEF Pool!PoolAssumption
<1>2. 1 \in Slots /\ \A m \in Slots : 1 <= m
  BY <1>1
<1> QED
  BY <1>2 DEF Pool!First

LEMMA PoolInvInit == ASSUME Pool!PoolAssumption, Pool!Init PROVE PoolInv
<1>1. PICK max \in Nat \ {0} : Slots = 1..max
  BY DEF Pool!PoolAssumption
<1>2. avail = [i \in 1..max |-> i]
  BY <1>1 DEF Pool!Init
<1>3. avail \in Seq(Slots) /\ Len(avail) = max /\ \A i \in 1..max : avail[i] = i
  BY <1>1, <1>2
<1>4. PoolTypes
  <2>1. /\ pstate \in [Sessions -> {"READY", "OK", "DISCONNECT"}]
        /\ table \in [Slots -> Sessions \union {NoOne}]
        /\ num \in [Sessions -> Slots \union {NoOne}] /\ count \in Int /\ lost \subseteq Slots
        /\ ppc \in [Sessions -> {"idle", "inuse", "open", "add", "count", "reset", "insert"}]
    BY DEF Pool!Init
  <2>2. slot \in Slots
    BY FirstInSlots DEF Pool!Init
  <2> QED
    BY <1>3, <2>1, <2>2 DEF PoolTypes
<1>5. Once
  BY <1>3 DEF Pool!Init, Once
<1>6. Apart
  <2> SUFFICES ASSUME NEW n \in Slots
               PROVE  Free(n) /\ ~Held(n) /\ ~Kept(n) /\ n \notin lost
    BY DEF Apart
  <2>1. Free(n)
    BY <1>1, <1>3 DEF Free
  <2>2. ~Held(n)
    BY DEF Pool!Init, Held, Pool!PoolAssumption
  <2>3. ~Kept(n) /\ n \notin lost
    BY DEF Pool!Init, Kept
  <2> QED
    BY <2>1, <2>2, <2>3
<1>7. Placed
  BY DEF Pool!Init, Placed
<1> QED
  BY <1>4, <1>5, <1>6, <1>7 DEF PoolInv

-----------------------------------------------------------------------------
(* How the numbers move *)

\* getq: the first number leaves the queue.
LEMMA Taken ==
  ASSUME avail \in Seq(Slots), avail # <<>>, avail' = Tail(avail),
         \A i, j \in 1..Len(avail) : avail[i] = avail[j] => i = j
  PROVE  /\ avail' \in Seq(Slots) /\ Head(avail) \in Slots /\ Free(Head(avail))
         /\ \A i, j \in 1..Len(avail') : avail'[i] = avail'[j] => i = j
         /\ \A n : Free(n)' <=> Free(n) /\ n # Head(avail)
<1>1. /\ Len(avail) \in Nat /\ Len(avail) # 0 /\ Head(avail) = avail[1] /\ avail' \in Seq(Slots)
      /\ Len(avail') = Len(avail) - 1
      /\ \A i \in 1..Len(avail') : avail'[i] = avail[i + 1]
  BY HeadTailProperties
<1>2. 1 \in 1..Len(avail) /\ Head(avail) \in Slots
  BY <1>1
<1>3. \A i \in 1..Len(avail') : i + 1 \in 1..Len(avail) /\ i + 1 # 1
  BY <1>1
<1>4. \A i, j \in 1..Len(avail') : avail'[i] = avail'[j] => i = j
  <2> SUFFICES ASSUME NEW i \in 1..Len(avail'), NEW j \in 1..Len(avail'), avail'[i] = avail'[j]
               PROVE  i = j
    OBVIOUS
  <2>1. avail[i + 1] = avail[j + 1]
    BY <1>1
  <2>2. i + 1 = j + 1
    BY <1>3, <2>1
  <2> QED
    BY <2>2
<1>5. ASSUME NEW n PROVE Free(n)' <=> Free(n) /\ n # Head(avail)
  <2>1. ASSUME NEW i \in 1..Len(avail'), avail'[i] = n PROVE Free(n) /\ n # Head(avail)
    <3>1. avail[i + 1] = n
      BY <1>1, <2>1
    <3>2. avail[i + 1] # avail[1]
      BY <1>2, <1>3
    <3> QED
      BY <1>1, <1>3, <3>1, <3>2 DEF Free
  <2>2. ASSUME NEW i \in 1..Len(avail), avail[i] = n, n # Head(avail) PROVE Free(n)'
    <3>1. i - 1 \in 1..Len(avail') /\ i = (i - 1) + 1
      BY <1>1, <2>2
    <3>2. avail'[i - 1] = n
      BY <1>1, <2>2, <3>1
    <3> QED
      BY <3>1, <3>2 DEF Free
  <2> QED
    BY <2>1, <2>2 DEF Free
<1> QED
  BY <1>1, <1>2, <1>4, <1>5 DEF Free

\* putq: a number that is not in the queue comes to its end.
LEMMA Given ==
  ASSUME avail \in Seq(Slots), NEW m \in Slots, avail' = Append(avail, m), ~Free(m),
         \A i, j \in 1..Len(avail) : avail[i] = avail[j] => i = j
  PROVE  /\ avail' \in Seq(Slots)
         /\ \A i, j \in 1..Len(avail') : avail'[i] = avail'[j] => i = j
         /\ \A n : Free(n)' <=> Free(n) \/ n = m
<1>1. /\ Len(avail) \in Nat /\ avail' \in Seq(Slots)
      /\ Len(avail') = Len(avail) + 1 /\ avail'[Len(avail) + 1] = m
      /\ \A i \in 1..Len(avail) : avail'[i] = avail[i]
  BY AppendProperties
<1>2. \A i \in 1..Len(avail) : avail[i] # m
  BY DEF Free
<1>3. \A i, j \in 1..Len(avail') : avail'[i] = avail'[j] => i = j
  BY <1>1, <1>2
<1>4. ASSUME NEW n PROVE Free(n)' <=> Free(n) \/ n = m
  BY <1>1 DEF Free
<1> QED
  BY <1>1, <1>3, <1>4

\* The end of a call of Register: its number leaves it.
LEMMA LetGo ==
  ASSUME PoolInv, NEW s \in Sessions, ppc[s] # "idle", num' = [num EXCEPT ![s] = NoOne],
         ppc' = [ppc EXCEPT ![s] = "idle"], UNCHANGED <<chk, slot>>, Pool!PoolAssumption
  PROVE  /\ num[s] \in Slots /\ Held(num[s])
         /\ num' \in [Sessions -> Slots \union {NoOne}]
         /\ ppc' \in [Sessions -> {"idle", "inuse", "open", "add", "count", "reset", "insert"}]
         /\ \A t, u \in Sessions : num'[t] = num'[u] /\ num'[t] # NoOne => t = u
         /\ \A t \in Sessions : num'[t] # NoOne <=> ppc'[t] # "idle"
         /\ \A n \in Slots : Held(n)' <=> Held(n) /\ n # num[s]
<1>1. /\ num[s] \in Slots
      /\ \A t \in Sessions : num'[t] = IF t = s THEN NoOne ELSE num[t]
      /\ \A t \in Sessions : ppc'[t] = IF t = s THEN "idle" ELSE ppc[t]
  BY DEF PoolInv, PoolTypes, Placed
<1>2. \A t \in Sessions : num[t] = num[s] => t = s
  BY <1>1 DEF PoolInv, Once, Pool!PoolAssumption
<1>3. \A n \in Slots : Held(n)' <=> Held(n) /\ n # num[s]
  BY <1>1, <1>2 DEF Held, Pool!PoolAssumption
<1>4. \A t, u \in Sessions : num'[t] = num'[u] /\ num'[t] # NoOne => t = u
  BY <1>1 DEF PoolInv, Once
<1>5. \A t \in Sessions : num'[t] # NoOne <=> ppc'[t] # "idle"
  BY <1>1 DEF PoolInv, Placed
<1> QED
  BY <1>1, <1>3, <1>4, <1>5 DEF Held, PoolInv, PoolTypes

\* A step that leaves the numbers where they are.
LEMMA Stays ==
  ASSUME PoolInv, PoolTypes', UNCHANGED <<avail, num, table, lost>>,
         \A s \in Sessions : ppc'[s] = "idle" <=> ppc[s] = "idle",
         Placed', \/ chk # "delPut" /\ chk' # "delPut"
                  \/ UNCHANGED <<chk, slot>>
  PROVE  PoolInv'
<1>1. Once'
  BY DEF PoolInv, Once
<1>2. \A n : (Free(n)' <=> Free(n)) /\ (Held(n)' <=> Held(n)) /\ (Kept(n)' <=> Kept(n))
  BY DEF Free, Held, Kept
<1>3. Apart'
  BY <1>2 DEF PoolInv, Apart
<1> QED
  BY <1>1, <1>3 DEF PoolInv

-----------------------------------------------------------------------------
(* The steps that move a number *)

LEMMA TakeKeeps == ASSUME Pool!PoolAssumption, PoolInv, NEW s \in Sessions, Pool!Take(s) PROVE PoolInv'
<1>1. CASE avail = <<>>
  <2>1. UNCHANGED <<pstate, avail, num, ppc, table, count, lost, chk, slot>>
    BY <1>1 DEF Pool!Take
  <2> QED
    BY <2>1, Stays DEF PoolInv, PoolTypes, Placed
<1>2. CASE avail # <<>>
  <2> DEFINE h == Head(avail)
  <2>1. /\ num' = [num EXCEPT ![s] = h] /\ avail' = Tail(avail) /\ ppc[s] = "idle"
        /\ ppc' = [ppc EXCEPT ![s] = "inuse"]
        /\ UNCHANGED <<pstate, table, count, lost, chk, slot>>
    BY <1>2 DEF Pool!Take, Pool!Goto
  <2>2. /\ avail' \in Seq(Slots) /\ h \in Slots /\ Free(h)
        /\ \A i, j \in 1..Len(avail') : avail'[i] = avail'[j] => i = j
        /\ \A n : Free(n)' <=> Free(n) /\ n # h
    BY <1>2, <2>1, Taken DEF PoolInv, PoolTypes, Once
  <2> HIDE DEF h
  <2>3. /\ num[s] = NoOne
        /\ \A t \in Sessions : num'[t] = IF t = s THEN h ELSE num[t]
        /\ \A t \in Sessions : ppc'[t] = IF t = s THEN "inuse" ELSE ppc[t]
    BY <2>1 DEF PoolInv, PoolTypes, Placed
  <2>4. h # NoOne /\ ~Held(h)
    BY <2>2 DEF Pool!PoolAssumption, PoolInv, Apart
  <2>5. \A n \in Slots : Held(n)' <=> Held(n) \/ n = h
    BY <2>3 DEF Held, Pool!PoolAssumption
  <2>6. \A n : Kept(n)' <=> Kept(n)
    BY <2>1 DEF Kept
  <2>7. PoolTypes'
    BY <2>1, <2>2 DEF PoolInv, PoolTypes
  <2>8. Once'
    <3>1. \A t \in Sessions : num[t] # h
      BY <2>4 DEF Held
    <3> QED
      BY <2>2, <2>3, <3>1 DEF PoolInv, Once
  <2>9. Apart'
    BY <2>1, <2>2, <2>5, <2>6 DEF PoolInv, Apart
  <2>10. Placed'
    BY <2>1, <2>3, <2>4 DEF PoolInv, Placed
  <2> QED
    BY <2>7, <2>8, <2>9, <2>10 DEF PoolInv
<1> QED
  BY <1>1, <1>2

\* A registration that fails loses its number.
LEMMA LossKeeps ==
  ASSUME Pool!PoolAssumption, PoolInv, NEW s \in Sessions, ppc[s] # "idle",
         num' = [num EXCEPT ![s] = NoOne], ppc' = [ppc EXCEPT ![s] = "idle"],
         lost' = lost \union {num[s]}, pstate' \in [Sessions -> {"READY", "OK", "DISCONNECT"}],
         UNCHANGED <<avail, table, count, chk, slot>>
  PROVE  PoolInv'
<1>1. /\ num[s] \in Slots /\ Held(num[s])
      /\ num' \in [Sessions -> Slots \union {NoOne}]
      /\ ppc' \in [Sessions -> {"idle", "inuse", "open", "add", "count", "reset", "insert"}]
      /\ \A t, u \in Sessions : num'[t] = num'[u] /\ num'[t] # NoOne => t = u
      /\ \A t \in Sessions : num'[t] # NoOne <=> ppc'[t] # "idle"
      /\ \A n \in Slots : Held(n)' <=> Held(n) /\ n # num[s]
  BY LetGo
<1>2. \A n : (Free(n)' <=> Free(n)) /\ (Kept(n)' <=> Kept(n))
  BY DEF Free, Kept
<1>3. PoolTypes'
  BY <1>1 DEF PoolInv, PoolTypes
<1>4. Once'
  BY <1>1 DEF PoolInv, Once
<1>5. Apart'
  BY <1>1, <1>2 DEF PoolInv, Apart
<1>6. Placed'
  BY <1>1 DEF PoolInv, Placed
<1> QED
  BY <1>3, <1>4, <1>5, <1>6 DEF PoolInv

LEMMA InsertKeeps == ASSUME Pool!PoolAssumption, PoolInv, NEW s \in Sessions, Pool!Insert(s) PROVE PoolInv'
<1>0. /\ ppc[s] # "idle" /\ table' = [table EXCEPT ![num[s]] = s]
      /\ num' = [num EXCEPT ![s] = NoOne] /\ ppc' = [ppc EXCEPT ![s] = "idle"]
      /\ UNCHANGED <<pstate, avail, count, lost, chk, slot>>
  BY DEF Pool!Insert, Pool!Goto
<1>1. /\ num[s] \in Slots /\ Held(num[s])
      /\ num' \in [Sessions -> Slots \union {NoOne}]
      /\ ppc' \in [Sessions -> {"idle", "inuse", "open", "add", "count", "reset", "insert"}]
      /\ \A t, u \in Sessions : num'[t] = num'[u] /\ num'[t] # NoOne => t = u
      /\ \A t \in Sessions : num'[t] # NoOne <=> ppc'[t] # "idle"
      /\ \A n \in Slots : Held(n)' <=> Held(n) /\ n # num[s]
  BY <1>0, LetGo
<1>2. /\ \A n \in Slots : table'[n] = IF n = num[s] THEN s ELSE table[n]
      /\ s # NoOne /\ ~Kept(num[s])
  BY <1>0, <1>1 DEF PoolInv, PoolTypes, Apart, Pool!PoolAssumption
<1>3. \A n \in Slots : (Free(n)' <=> Free(n)) /\ (Kept(n)' <=> Kept(n) \/ n = num[s])
  BY <1>0, <1>1, <1>2 DEF Free, Kept
<1>4. PoolTypes'
  BY <1>0, <1>1 DEF PoolInv, PoolTypes
<1>5. Once'
  BY <1>0, <1>1 DEF PoolInv, Once
<1>6. Apart'
  BY <1>0, <1>1, <1>3 DEF PoolInv, Apart
<1>7. Placed'
  <2>1. slot \in Slots /\ (chk = "delPut" => slot # num[s])
    BY <1>2 DEF PoolInv, PoolTypes, Kept
  <2> QED
    BY <1>0, <1>1, <1>2, <2>1 DEF PoolInv, Placed
<1> QED
  BY <1>4, <1>5, <1>6, <1>7 DEF PoolInv

\* svc_del takes the session out of the table, and then gives the number back.
LEMMA DelTableKeepsInv == ASSUME Pool!PoolAssumption, PoolInv, Pool!DelTable PROVE PoolInv'
<1>1. /\ chk = "delTable" /\ chk' = "delPut" /\ table' = [table EXCEPT ![slot] = NoOne]
      /\ slot \in Slots /\ table[slot] # NoOne
      /\ UNCHANGED <<pstate, avail, num, ppc, count, lost, slot>>
  BY DEF Pool!DelTable, Pool!owners, PoolInv, PoolTypes, Placed
<1>2. \A n \in Slots : table'[n] = IF n = slot THEN NoOne ELSE table[n]
  BY <1>1 DEF PoolInv, PoolTypes
<1>3. \A n \in Slots : /\ (Free(n)' <=> Free(n)) /\ (Held(n)' <=> Held(n))
                       /\ (Kept(n)' <=> Kept(n))
  BY <1>1, <1>2 DEF Free, Held, Kept
<1>4. PoolTypes'
  BY <1>1 DEF PoolInv, PoolTypes
<1>5. Once'
  BY <1>1 DEF PoolInv, Once
<1>6. Apart'
  BY <1>1, <1>3 DEF PoolInv, Apart
<1>7. Placed'
  BY <1>1, <1>2 DEF PoolInv, Placed
<1> QED
  BY <1>4, <1>5, <1>6, <1>7 DEF PoolInv

LEMMA DelPutKeeps == ASSUME Pool!PoolAssumption, PoolInv, Pool!DelPut PROVE PoolInv'
<1>1. /\ chk = "delPut" /\ chk' = "delCount" /\ avail' = Append(avail, slot)
      /\ slot \in Slots /\ table[slot] = NoOne
      /\ UNCHANGED <<pstate, table, num, ppc, count, lost, slot>>
  BY DEF Pool!DelPut, Pool!owners, PoolInv, PoolTypes, Placed
<1>2. Kept(slot) /\ ~Free(slot)
  BY <1>1 DEF Kept, PoolInv, Apart
<1>3. /\ avail' \in Seq(Slots)
      /\ \A i, j \in 1..Len(avail') : avail'[i] = avail'[j] => i = j
      /\ \A n : Free(n)' <=> Free(n) \/ n = slot
  BY <1>1, <1>2, Given DEF PoolInv, PoolTypes, Once
<1>4. \A n \in Slots : (Held(n)' <=> Held(n)) /\ (Kept(n)' <=> Kept(n) /\ n # slot)
  BY <1>1 DEF Held, Kept
<1>5. PoolTypes'
  BY <1>1, <1>3 DEF PoolInv, PoolTypes
<1>6. Once'
  BY <1>1, <1>3 DEF PoolInv, Once
<1>7. Apart'
  BY <1>1, <1>2, <1>3, <1>4 DEF PoolInv, Apart
<1>8. Placed'
  BY <1>1 DEF PoolInv, Placed
<1> QED
  BY <1>5, <1>6, <1>7, <1>8 DEF PoolInv

-----------------------------------------------------------------------------
(* All steps *)

LEMMA RegisterKeeps == ASSUME Pool!PoolAssumption, PoolInv, NEW s \in Sessions, Pool!Register(s) PROVE PoolInv'
<1>1. CASE Pool!Take(s)
  BY <1>1, TakeKeeps
<1>2. CASE Pool!InUse(s)
  <2>1. CASE table[num[s]] # NoOne
    BY <1>2, <2>1, LossKeeps DEF Pool!InUse, Pool!Goto, PoolInv, PoolTypes
  <2>2. CASE table[num[s]] = NoOne
    <3>1. /\ ppc[s] = "inuse" /\ ppc' = [ppc EXCEPT ![s] = "open"]
          /\ UNCHANGED <<pstate, avail, num, table, count, lost, chk, slot>>
      BY <1>2, <2>2 DEF Pool!InUse, Pool!Goto
    <3> QED
      BY <3>1, Stays DEF PoolInv, PoolTypes, Placed
  <2> QED
    BY <2>1, <2>2
<1>3. CASE Pool!Open(s)
  <2>1. /\ ppc[s] = "open" /\ ppc' = [ppc EXCEPT ![s] = "add"]
        /\ pstate' = [pstate EXCEPT ![s] = "OK"]
        /\ UNCHANGED <<avail, num, table, count, lost, chk, slot>>
    BY <1>3 DEF Pool!Open, Pool!Goto
  <2> QED
    BY <2>1, Stays DEF PoolInv, PoolTypes, Placed
<1>4. CASE Pool!Add(s)
  <2>1. CASE ppc' = [ppc EXCEPT ![s] = "count"] /\ UNCHANGED <<pstate, lost, num, away>>
    <3>1. ppc[s] = "add" /\ UNCHANGED <<avail, table, count, chk, slot>>
      BY <1>4 DEF Pool!Add
    <3> QED
      BY <2>1, <3>1, Stays DEF PoolInv, PoolTypes, Placed
  <2>2. CASE /\ pstate' = [pstate EXCEPT ![s] = "READY"] /\ ppc' = [ppc EXCEPT ![s] = "idle"]
             /\ lost' = lost \union {num[s]} /\ num' = [num EXCEPT ![s] = NoOne]
    BY <1>4, <2>2, LossKeeps DEF Pool!Add, PoolInv, PoolTypes
  <2> QED
    BY <1>4, <2>1, <2>2 DEF Pool!Add, Pool!Goto
<1>5. CASE Pool!Count(s)
  <2>1. PICK l \in {"reset", "insert"} : ppc' = [ppc EXCEPT ![s] = l]
    BY <1>5 DEF Pool!Count, Pool!Goto
  <2>2. /\ ppc[s] = "count" /\ count' \in Int
        /\ UNCHANGED <<pstate, avail, num, table, lost, chk, slot>>
    BY <1>5 DEF Pool!Count, PoolInv, PoolTypes
  <2> QED
    BY <2>1, <2>2, Stays DEF PoolInv, PoolTypes, Placed
<1>6. CASE Pool!Reset(s)
  <2>1. /\ ppc[s] = "reset" /\ ppc' = [ppc EXCEPT ![s] = "insert"]
        /\ UNCHANGED <<pstate, avail, num, table, count, lost, chk, slot>>
    BY <1>6 DEF Pool!Reset, Pool!Goto
  <2> QED
    BY <2>1, Stays DEF PoolInv, PoolTypes, Placed
<1>7. CASE Pool!Insert(s)
  BY <1>7, InsertKeeps
<1> QED
  BY <1>1, <1>2, <1>3, <1>4, <1>5, <1>6, <1>7 DEF Pool!Register

\* The checker goes on to another place only when it has nothing in its hands.
LEMMA AdvanceStays ==
  ASSUME Pool!PoolAssumption, PoolInv, Pool!Advance, chk \notin {"delPut", "del", "delTold", "delTable"},
         pstate' \in [Sessions -> {"READY", "OK", "DISCONNECT"}], count' \in Int,
         UNCHANGED <<avail, num, ppc, table, lost>>
  PROVE  PoolInv'
<1>1. slot' \in Slots /\ chk' \in {"look", "execute"}
  BY FirstInSlots DEF Pool!Advance
<1> QED
  BY <1>1, Stays DEF PoolInv, PoolTypes, Placed

LEMMA CheckerKeeps == ASSUME Pool!PoolAssumption, PoolInv, Pool!Checker PROVE PoolInv'
<1>1. CASE Pool!Look
  <2>1. chk = "look" /\ UNCHANGED <<avail, num, ppc, table, count, lost>>
    BY <1>1 DEF Pool!Look, Pool!owners
  <2>2. CASE Pool!Advance
    BY <1>1, <2>1, <2>2, AdvanceStays DEF Pool!Look, PoolInv, PoolTypes
  <2>3. CASE table[slot] # NoOne /\ chk' = "del" /\ UNCHANGED <<pstate, slot>>
    BY <2>1, <2>3, Stays DEF PoolInv, PoolTypes, Placed
  <2> QED
    BY <1>1, <2>2, <2>3 DEF Pool!Look
<1>2. CASE Pool!DelCount
  <2>1. /\ chk = "delCount" /\ count' \in Int /\ UNCHANGED <<pstate, avail, num, ppc, table, lost>>
    BY <1>2 DEF Pool!DelCount, Pool!owners, PoolInv, PoolTypes
  <2>2. CASE Pool!Advance
    BY <2>1, <2>2, AdvanceStays DEF PoolInv, PoolTypes
  <2>3. CASE chk' = "delSet" /\ UNCHANGED slot
    BY <2>1, <2>3, Stays DEF PoolInv, PoolTypes, Placed
  <2> QED
    BY <1>2, <2>2, <2>3 DEF Pool!DelCount
<1>3. CASE Pool!DelSet
  BY <1>3, AdvanceStays DEF Pool!DelSet, Pool!owners, PoolInv, PoolTypes
<1>4. CASE Pool!Check \/ Pool!DelState \/ Pool!DelTold \/ Pool!Execute \/ Pool!Discard
  <2>1. /\ chk # "delPut" /\ chk' # "delPut" /\ UNCHANGED <<avail, num, ppc, table, count, lost, slot>>
        /\ chk' \in {"del", "delTold", "delTable"} => chk \in {"del", "delTold", "delTable"}
    BY <1>4 DEF Pool!Check, Pool!DelState, Pool!DelTold, Pool!Execute, Pool!Discard, Pool!owners
  <2>2. pstate' \in [Sessions -> {"READY", "OK", "DISCONNECT"}]
    <3>1. CASE Pool!Execute
      BY <3>1 DEF Pool!Execute, PoolInv, PoolTypes
    <3>2. CASE Pool!DelState
      BY <3>2 DEF Pool!DelState, PoolInv, PoolTypes
    <3> QED
      BY <1>4, <3>1, <3>2 DEF Pool!Check, Pool!DelTold, Pool!Discard, PoolInv, PoolTypes
  <2> QED
    BY <2>1, <2>2, Stays DEF PoolInv, PoolTypes, Placed
<1> QED
  BY <1>1, <1>2, <1>3, <1>4, DelTableKeepsInv, DelPutKeeps DEF Pool!Checker

LEMMA PoolInvNext == ASSUME Pool!PoolAssumption PROVE PoolInv /\ [Pool!Next]_(Pool!vars) => PoolInv'
<1> SUFFICES ASSUME PoolInv, [Pool!Next]_(Pool!vars) PROVE PoolInv'
  OBVIOUS
<1>1. ASSUME NEW s \in Sessions, Pool!Disconnect(s) PROVE PoolInv'
  <2>1. /\ pstate' \in [Sessions -> {"READY", "OK", "DISCONNECT"}]
        /\ UNCHANGED <<avail, num, ppc, table, count, lost, chk, slot>>
    BY <1>1 DEF Pool!Disconnect, Pool!owners, PoolInv, PoolTypes
  <2> QED
    BY <2>1, Stays DEF PoolInv, PoolTypes, Placed
<1>2. CASE Pool!DisconnectAll \/ Pool!Close \/ UNCHANGED Pool!vars
  <2>1. UNCHANGED <<pstate, avail, num, ppc, table, count, lost, chk, slot>>
    BY <1>2 DEF Pool!DisconnectAll, Pool!Close, Pool!vars, Pool!owners
  <2> QED
    BY <2>1, Stays DEF PoolInv, PoolTypes, Placed
<1> QED
  BY <1>1, <1>2, RegisterKeeps, CheckerKeeps DEF Pool!Next

-----------------------------------------------------------------------------
(* What the runs check *)

LEMMA InvPlaces == ASSUME Pool!PoolAssumption, PoolInv PROVE Pool!TypeOK /\ Pool!NumbersInOnePlace
<1>1. Pool!TypeOK
  BY DEF PoolInv, PoolTypes, Pool!TypeOK
<1>2. ASSUME NEW n \in Slots PROVE Pool!Places(n) = 1
  <2> DEFINE A == {i \in DOMAIN avail : avail[i] = n}
             H == {s \in Sessions : num[s] = n}
  <2>1. DOMAIN avail = 1..Len(avail)
    BY DEF PoolInv, PoolTypes
  <2>2. IF Free(n) THEN \E i : A = {i} ELSE A = {}
    <3>1. ASSUME NEW i \in 1..Len(avail), avail[i] = n PROVE A = {i}
      <4>1. \A j \in A : j = i
        BY <2>1, <3>1 DEF PoolInv, Once
      <4> QED
        BY <2>1, <3>1, <4>1
    <3>2. ~Free(n) => A = {}
      BY <2>1 DEF Free
    <3> QED
      BY <3>1, <3>2 DEF Free
  <2>3. IF Held(n) THEN \E s : H = {s} ELSE H = {}
    <3>1. ASSUME NEW s \in Sessions, num[s] = n PROVE H = {s}
      <4>1. \A t \in H : t = s
        BY <3>1 DEF PoolInv, Once, Pool!PoolAssumption
      <4> QED
        BY <3>1, <4>1
    <3>2. ~Held(n) => H = {}
      BY DEF Held
    <3> QED
      BY <3>1, <3>2 DEF Held
  <2>4. Cardinality(A) = IF Free(n) THEN 1 ELSE 0
    <3> HIDE DEF A
    <3> QED
      BY <2>2, FS_EmptySet, FS_Singleton
  <2>5. Cardinality(H) = IF Held(n) THEN 1 ELSE 0
    <3> HIDE DEF H
    <3> QED
      BY <2>3, FS_EmptySet, FS_Singleton
  <2>6. /\ Free(n) \/ Held(n) \/ Kept(n) \/ n \in lost
        /\ ~(Free(n) /\ Held(n)) /\ ~(Free(n) /\ Kept(n)) /\ ~(Free(n) /\ n \in lost)
        /\ ~(Held(n) /\ Kept(n)) /\ ~(Held(n) /\ n \in lost) /\ ~(Kept(n) /\ n \in lost)
    BY DEF PoolInv, Apart
  <2>7. Pool!Places(n) = (IF Free(n) THEN 1 ELSE 0) + (IF Held(n) THEN 1 ELSE 0)
                    + (IF Kept(n) THEN 1 ELSE 0) + (IF n \in lost THEN 1 ELSE 0)
    <3>1. Pool!Cardinality(A) = Cardinality(A) /\ Pool!Cardinality(H) = Cardinality(H)
      BY DEF Pool!Cardinality, Cardinality
    <3>2. Pool!Places(n) = Pool!Cardinality(A) + Pool!Cardinality(H)
                           + (IF Kept(n) THEN 1 ELSE 0) + (IF n \in lost THEN 1 ELSE 0)
      BY DEF Pool!Places, Kept
    <3> QED
      BY <2>4, <2>5, <3>1, <3>2
  <2> QED
    BY <2>6, <2>7
<1> QED
  BY <1>1, <1>2 DEF Pool!NumbersInOnePlace

LEMMA PoolStepIs == [AnyNext]_allVars => [Pool!Next]_(Pool!vars)
  BY DEF AnyNext, Queued, Linux, Windows, Pooled, allVars, poolVars, Pool!vars, Pool!owners

\* Register and svc_del keep each number of the table in one place: it is free, taken by a
\* Register that runs, in the table or lost, never two of these, whatever the number of sessions
\* and of places.
THEOREM NumbersStay == AnySpec => []NumbersInOnePlace
<1>1. AnyInit => PoolInv
  BY TableAssumption, PoolInvInit DEF AnyInit
<1>2. PoolInv /\ [Pool!Next]_(Pool!vars) => PoolInv'
  BY TableAssumption, PoolInvNext
<1>3. PoolInv => NumbersInOnePlace
  BY TableAssumption, InvPlaces DEF NumbersInOnePlace
<1> QED
  BY <1>1, <1>2, <1>3, PoolStepIs, PTL DEF AnySpec
-----------------------------------------------------------------------------
(* The session on Linux: what its variables hold *)

Chunks == 0..MaxData
LinuxThreads == {"starter", "worker", "checker"}

\* What does not lie in a queue.
LinuxTypes ==
  /\ kind \in LinuxSession!AllKinds /\ state \in {"OK", "DISCONNECT", "READY"}
  /\ pendSend \in Int /\ pendRecv \in Int /\ tmp \in Chunks \union {NoOne}
  /\ interest \subseteq {"in", "out"} /\ room \in 0..Capacity /\ arrived \in Chunks
  /\ link \in {"up", "closed", "reset"}
  /\ chunk \in [LinuxThreads -> Chunks] /\ mask \in [LinuxThreads -> SUBSET {"in", "out"}]

\* The queues of requests, and what has arrived.
LinuxQueues ==
  sendq \in Seq(Chunks) /\ recvq \in Seq({"recv", "wait"}) /\ inbox \in Seq(1..MaxData)

\* The buffer that the worker gives to the socket is one; no operation goes back to that place.
LinuxPlaces ==
  /\ lpc = [t \in LinuxThreads |-> lpc[t]]
  /\ back \in [LinuxThreads -> {"idle", "sendGet"}]
  /\ lpc["worker"] = "sendIt" => q \in Chunks

LinuxInv == LinuxTypes /\ LinuxQueues /\ LinuxPlaces

\* A queue stays one of its elements.
LEMMA QueueKept ==
  ASSUME NEW S, NEW s \in Seq(S)
  PROVE  /\ \A x \in S : Append(s, x) \in Seq(S)
         /\ s # <<>> => Head(s) \in S /\ Tail(s) \in Seq(S)
  BY AppendProperties, HeadTailProperties

LEMMA LinuxInit == LinuxSession!Init => LinuxInv
<1> SUFFICES ASSUME LinuxSession!Init PROVE LinuxInv
  OBVIOUS
<1>1. LinuxTypes
  BY SessionAssumption DEF LinuxSession!Init, LinuxTypes, Chunks, LinuxThreads, LinuxSession!Threads
<1>2. LinuxQueues
  BY DEF LinuxSession!Init, LinuxQueues
<1>3. LinuxPlaces
  BY DEF LinuxSession!Init, LinuxPlaces, LinuxThreads, LinuxSession!Threads
<1> QED
  BY <1>1, <1>2, <1>3 DEF LinuxInv

\* An operation of a thread.
LEMMA LinuxOperate ==
  ASSUME LinuxInv, NEW t \in LinuxThreads, LinuxSession!Operate(t)
  PROVE  LinuxInv'
<1> USE DEF LinuxSession!Goto, LinuxSession!Advance, LinuxSession!At, LinuxSession!queues,
            LinuxSession!counters, LinuxSession!epoll, LinuxSession!peer
<1>1. /\ LinuxTypes /\ LinuxQueues /\ LinuxPlaces
      /\ "worker" \in LinuxThreads
  BY DEF LinuxInv, LinuxThreads
<1>2. UNCHANGED <<kind, tmp, inbox, arrived, room, link, chunk, back, q>>
  BY DEF LinuxSession!Operate, LinuxSession!OpsOver, LinuxSession!PutSend, LinuxSession!PutRecv,
         LinuxSession!Count, LinuxSession!CtlSend, LinuxSession!CtlRecv, LinuxSession!CtlMod,
         LinuxSession!Done, LinuxSession!Disconnect, LinuxSession!Shutdown, LinuxSession!Drain
<1>3. PICK l : lpc' = [lpc EXCEPT ![t] = l] /\ l # "sendIt"
  <2>1. back[t] # "sendIt"
    BY <1>1 DEF LinuxPlaces
  <2> QED
    BY <2>1 DEF LinuxSession!Operate, LinuxSession!OpsOver, LinuxSession!PutSend,
       LinuxSession!PutRecv, LinuxSession!Count, LinuxSession!CtlSend, LinuxSession!CtlRecv,
       LinuxSession!CtlMod, LinuxSession!Done, LinuxSession!Disconnect, LinuxSession!Shutdown,
       LinuxSession!Drain
<1>4. LinuxPlaces'
  BY <1>1, <1>2, <1>3 DEF LinuxPlaces
<1>5. /\ state' = state \/ state' = "DISCONNECT"
      /\ pendSend' \in {pendSend - 1, pendSend, pendSend + 1}
      /\ pendRecv' \in {pendRecv - 1, pendRecv, pendRecv + 1}
      /\ interest' = interest \/ interest' = mask[t]
      /\ \/ mask' = mask
         \/ \E m \in {{"out"}, {}, mask[t] \union {"in"}, mask[t]} : mask' = [mask EXCEPT ![t] = m]
  BY DEF LinuxSession!Operate, LinuxSession!OpsOver, LinuxSession!PutSend, LinuxSession!PutRecv,
         LinuxSession!Count, LinuxSession!CtlSend, LinuxSession!CtlRecv, LinuxSession!CtlMod,
         LinuxSession!Done, LinuxSession!Disconnect, LinuxSession!Shutdown, LinuxSession!Drain,
         LinuxSession!Modify, LinuxSession!Wake
<1>6. LinuxTypes'
  <2>1. mask[t] \subseteq {"in", "out"} /\ mask' \in [LinuxThreads -> SUBSET {"in", "out"}]
    BY <1>1, <1>5 DEF LinuxTypes
  <2>2. interest' \subseteq {"in", "out"}
    BY <1>1, <1>5, <2>1 DEF LinuxTypes
  <2>3. pendSend' \in Int /\ pendRecv' \in Int /\ state' \in {"OK", "DISCONNECT", "READY"}
    BY <1>1, <1>5 DEF LinuxTypes
  <2> QED
    BY <1>1, <1>2, <2>1, <2>2, <2>3 DEF LinuxTypes
<1>7. /\ \/ sendq' = sendq
         \/ sendq' = Append(sendq, chunk[t])
         \/ sendq # <<>> /\ sendq' = Tail(sendq)
      /\ \/ recvq' = recvq
         \/ \E r \in {"recv", "wait"} : recvq' = Append(recvq, r)
         \/ recvq # <<>> /\ recvq' = Tail(recvq)
  BY DEF LinuxSession!Operate, LinuxSession!OpsOver, LinuxSession!PutSend, LinuxSession!PutRecv,
         LinuxSession!Count, LinuxSession!CtlSend, LinuxSession!CtlRecv, LinuxSession!CtlMod,
         LinuxSession!Done, LinuxSession!Disconnect, LinuxSession!Shutdown, LinuxSession!Drain
<1>8. LinuxQueues'
  <2>1. sendq' \in Seq(Chunks)
    <3>1. sendq \in Seq(Chunks) /\ chunk[t] \in Chunks
      BY <1>1 DEF LinuxQueues, LinuxTypes
    <3> QED
      BY <1>7, <3>1, QueueKept
  <2>2. recvq' \in Seq({"recv", "wait"})
    <3>1. recvq \in Seq({"recv", "wait"})
      BY <1>1 DEF LinuxQueues
    <3> QED
      BY <1>7, <3>1, QueueKept
  <2> QED
    BY <1>1, <1>2, <2>1, <2>2 DEF LinuxQueues
<1> QED
  BY <1>4, <1>6, <1>8 DEF LinuxInv

\* A step of the worker of its own.
LEMMA LinuxWorker ==
  ASSUME LinuxInv,
         \/ LinuxSession!Wait \/ LinuxSession!Event \/ LinuxSession!RecvTake
         \/ LinuxSession!Recv \/ LinuxSession!SendTake \/ LinuxSession!Send
  PROVE  LinuxInv'
<1> USE DEF LinuxSession!Goto, LinuxSession!Perform, LinuxSession!queues,
            LinuxSession!counters, LinuxSession!epoll, LinuxSession!peer
<1>1. LinuxTypes /\ LinuxQueues /\ LinuxPlaces /\ "worker" \in LinuxThreads
  BY DEF LinuxInv, LinuxThreads
<1>2. /\ UNCHANGED <<kind, state, pendSend, pendRecv, interest, arrived, link, mask>>
      /\ lpc' = [lpc EXCEPT !["worker"] = lpc'["worker"]]
      /\ back' = back \/ \E l \in {"idle", "sendGet"} : back' = [back EXCEPT !["worker"] = l]
  BY <1>1 DEF LinuxSession!Wait, LinuxSession!Event, LinuxSession!RecvTake, LinuxSession!Recv,
         LinuxSession!SendTake, LinuxSession!Send, LinuxPlaces
<1>3. /\ \/ inbox' = inbox /\ chunk' = chunk
         \/ /\ inbox # <<>> /\ inbox' = Tail(inbox)
            /\ chunk' = [chunk EXCEPT !["worker"] = Head(inbox)]
      /\ recvq' = recvq \/ (recvq # <<>> /\ recvq' = Tail(recvq))
      /\ sendq' = sendq \/ (sendq # <<>> /\ sendq' = Tail(sendq))
      /\ room' = room \/ (room > 0 /\ room' = room - 1)
  BY DEF LinuxSession!Wait, LinuxSession!Event, LinuxSession!RecvTake, LinuxSession!Recv,
         LinuxSession!SendTake, LinuxSession!Send
<1>4. /\ tmp' = tmp \/ tmp' = NoOne \/ (lpc["worker"] = "sendIt" /\ tmp' = q)
      /\ lpc'["worker"] = "sendIt" =>
           (tmp # NoOne /\ q' = tmp) \/ (sendq # <<>> /\ q' = Head(sendq))
  BY <1>1 DEF LinuxSession!Wait, LinuxSession!Event, LinuxSession!RecvTake, LinuxSession!Recv,
         LinuxSession!SendTake, LinuxSession!Send, LinuxPlaces
<1>5. LinuxQueues'
  <2>1. /\ sendq \in Seq(Chunks) /\ recvq \in Seq({"recv", "wait"})
        /\ inbox \in Seq(1..MaxData)
    BY <1>1 DEF LinuxQueues
  <2>2. /\ sendq # <<>> => Tail(sendq) \in Seq(Chunks)
        /\ recvq # <<>> => Tail(recvq) \in Seq({"recv", "wait"})
        /\ inbox # <<>> => Tail(inbox) \in Seq(1..MaxData)
    <3>1. sendq # <<>> => Tail(sendq) \in Seq(Chunks)
      BY <2>1, QueueKept
    <3>2. recvq # <<>> => Tail(recvq) \in Seq({"recv", "wait"})
      BY <2>1, QueueKept
    <3>3. inbox # <<>> => Tail(inbox) \in Seq(1..MaxData)
      BY <2>1, QueueKept
    <3> QED
      BY <3>1, <3>2, <3>3
  <2>3. /\ sendq' \in Seq(Chunks) /\ recvq' \in Seq({"recv", "wait"})
        /\ inbox' \in Seq(1..MaxData)
    BY <1>3, <2>1, <2>2
  <2> QED
    BY <2>3 DEF LinuxQueues
<1>6. LinuxTypes'
  <2>1. inbox # <<>> => Head(inbox) \in Chunks
    <3>1. inbox # <<>> => Head(inbox) \in 1..MaxData
      BY <1>1, QueueKept DEF LinuxQueues
    <3> QED
      BY <3>1 DEF Chunks
  <2>2. tmp' \in Chunks \union {NoOne}
    BY <1>1, <1>4 DEF LinuxTypes, LinuxPlaces
  <2>3. room' \in 0..Capacity
    BY <1>1, <1>3, SessionAssumption DEF LinuxTypes
  <2>4. chunk' \in [LinuxThreads -> Chunks]
    BY <1>1, <1>3, <2>1 DEF LinuxTypes
  <2> QED
    BY <1>1, <1>2, <2>2, <2>3, <2>4 DEF LinuxTypes
<1>7. LinuxPlaces'
  <2>1. sendq # <<>> => Head(sendq) \in Chunks
    BY <1>1 DEF LinuxQueues
  <2>2. lpc'["worker"] = "sendIt" => q' \in Chunks
    BY <1>1, <1>4, <2>1 DEF LinuxTypes
  <2>3. lpc' = [t \in LinuxThreads |-> lpc'[t]]
    BY <1>1, <1>2 DEF LinuxPlaces
  <2>4. back' \in [LinuxThreads -> {"idle", "sendGet"}]
    BY <1>1, <1>2 DEF LinuxPlaces
  <2> QED
    BY <2>2, <2>3, <2>4 DEF LinuxPlaces
<1> QED
  BY <1>5, <1>6, <1>7 DEF LinuxInv

\* The checker's own steps, the peer and the timeout.
LEMMA LinuxOthers ==
  ASSUME LinuxInv,
         \/ LinuxSession!Delete \/ LinuxSession!TestTimeout \/ LinuxSession!Arrive
         \/ LinuxSession!PeerReads \/ LinuxSession!PeerLeaves
  PROVE  LinuxInv'
<1> USE DEF LinuxSession!Goto, LinuxSession!queues, LinuxSession!counters, LinuxSession!epoll,
            LinuxSession!peer, LinuxSession!threads
<1>1. LinuxTypes /\ LinuxQueues /\ LinuxPlaces /\ {"checker", "worker"} \subseteq LinuxThreads
  BY DEF LinuxInv, LinuxThreads
<1>2. /\ UNCHANGED <<kind, pendSend, pendRecv, tmp, chunk, mask, sendq, recvq, back, q>>
      /\ state' = state \/ state' = "READY"
      /\ interest' = interest \/ interest' = {}
      /\ room' = room \/ room' = Capacity
      /\ \/ inbox' = inbox /\ arrived' = arrived
         \/ arrived < MaxData /\ arrived' = arrived + 1 /\ inbox' = Append(inbox, arrived + 1)
      /\ link' = link \/ link' \in {"closed", "reset"}
      /\ lpc' = lpc \/ lpc' = [lpc EXCEPT !["checker"] = "ops"]
  BY DEF LinuxSession!Delete, LinuxSession!TestTimeout, LinuxSession!Arrive,
         LinuxSession!PeerReads, LinuxSession!PeerLeaves, LinuxSession!Wake
<1>3. LinuxTypes'
  <2>1. room' \in 0..Capacity /\ arrived' \in Chunks
    BY <1>1, <1>2, SessionAssumption DEF LinuxTypes, Chunks
  <2>2. interest' \subseteq {"in", "out"} /\ link' \in {"up", "closed", "reset"}
        /\ state' \in {"OK", "DISCONNECT", "READY"}
    BY <1>1, <1>2 DEF LinuxTypes
  <2> QED
    BY <1>1, <1>2, <2>1, <2>2 DEF LinuxTypes
<1>4. LinuxQueues'
  <2>1. arrived < MaxData => arrived + 1 \in 1..MaxData
    BY <1>1, SessionAssumption DEF LinuxTypes, Chunks
  <2> QED
    <3>1. inbox \in Seq(1..MaxData)
      BY <1>1 DEF LinuxQueues
    <3>2. inbox' \in Seq(1..MaxData)
      <4>1. arrived < MaxData => Append(inbox, arrived + 1) \in Seq(1..MaxData)
        BY <2>1, <3>1, QueueKept
      <4> QED
        BY <1>2, <3>1, <4>1
    <3> QED
      BY <1>1, <1>2, <3>2 DEF LinuxQueues
<1>5. LinuxPlaces'
  BY <1>1, <1>2 DEF LinuxPlaces
<1> QED
  BY <1>3, <1>4, <1>5 DEF LinuxInv

LEMMA LinuxNext == LinuxInv /\ [LinuxSession!Next]_(LinuxSession!vars) => LinuxInv'
<1> SUFFICES ASSUME LinuxInv, [LinuxSession!Next]_(LinuxSession!vars) PROVE LinuxInv'
  OBVIOUS
<1>1. CASE UNCHANGED LinuxSession!vars
  BY <1>1 DEF LinuxSession!vars, LinuxSession!queues, LinuxSession!counters, LinuxSession!epoll,
              LinuxSession!peer, LinuxSession!threads, LinuxInv, LinuxTypes, LinuxQueues, LinuxPlaces
<1>2. CASE LinuxSession!Next
  BY <1>2, LinuxOperate, LinuxWorker, LinuxOthers
     DEF LinuxSession!Next, LinuxSession!Worker, LinuxSession!Checker, LinuxThreads
<1> QED
  BY <1>1, <1>2

-----------------------------------------------------------------------------
(* The session on Windows, whose worker is the one that activate() starts unless told otherwise *)

AllSessions == INSTANCE SessionIocp_proofs
  WITH Kinds <- WinKinds, MaxData <- WinData, kind <- wkind, state <- wstate, sendq <- wsendq,
       recvq <- wrecvq, pendSend <- wpendSend, pendRecv <- wpendRecv, pc <- wpc, todo <- wtodo

LEMMA SessionInitIs == WindowsSession!Init => AllSessions!Init
  BY DEF WindowsSession!Init, AllSessions!Init, WindowsSession!Threads, AllSessions!Threads,
     WindowsSession!Ops, AllSessions!Ops, WindowsSession!Starter, AllSessions!Starter,
     WindowsSession!Started, AllSessions!Started, AllSessions!w1

LEMMA SessionNextIs == WindowsSession!Next => AllSessions!Next
  BY Zenon DEF WindowsSession!counters, AllSessions!counters, WindowsSession!queues, AllSessions!queues,
     WindowsSession!Threads, AllSessions!Threads, WindowsSession!Ops, AllSessions!Ops,
     WindowsSession!Callback, AllSessions!Callback, WindowsSession!Goto, AllSessions!Goto,
     WindowsSession!At, AllSessions!At, WindowsSession!Advance, AllSessions!Advance,
     WindowsSession!Instead, AllSessions!Instead, WindowsSession!Put, AllSessions!Put,
     WindowsSession!Count, AllSessions!Count, WindowsSession!Begin, AllSessions!Begin,
     WindowsSession!Called, AllSessions!Called, WindowsSession!Call, AllSessions!Call,
     WindowsSession!Uncount, AllSessions!Uncount, WindowsSession!Disconnect,
     AllSessions!Disconnect, WindowsSession!Hold, AllSessions!Hold, WindowsSession!Post,
     AllSessions!Post, WindowsSession!Drain, AllSessions!Drain, WindowsSession!OpsOver,
     AllSessions!OpsOver, WindowsSession!Operate, AllSessions!Operate, WindowsSession!Dequeue,
     AllSessions!Dequeue, WindowsSession!Handle, AllSessions!Handle, WindowsSession!Null,
     AllSessions!Null, WindowsSession!Worker, AllSessions!Worker, WindowsSession!Check,
     AllSessions!Check, WindowsSession!Complete, AllSessions!Complete, WindowsSession!Next,
     AllSessions!Next, AllSessions!w1

LEMMA SessionStepsAre ==
  [AnyNext]_allVars => /\ [LinuxSession!Next]_(LinuxSession!vars)
                       /\ [AllSessions!Next]_(AllSessions!vars)
<1>1. UNCHANGED linuxVars => UNCHANGED LinuxSession!vars
  BY DEF linuxVars, LinuxSession!vars, LinuxSession!queues, LinuxSession!counters,
         LinuxSession!epoll, LinuxSession!peer, LinuxSession!threads
<1>2. UNCHANGED windowsVars => UNCHANGED AllSessions!vars
  BY DEF windowsVars, AllSessions!vars, AllSessions!queues, AllSessions!counters
<1> QED
  BY <1>1, <1>2, SessionNextIs DEF AnyNext, Queued, Linux, Windows, Pooled, allVars

\* No operation outlives its session, whatever the kinds and the amount of data: when svc_del has
\* run, nothing is in the hands of the system, the port has no packet but of Disconnect, and the
\* worker has left the callbacks (HasPending, Disconnect).  What the variables of the session on
\* Linux hold is proved with it.
THEOREM OperationsEnd == AnySpec => []OperationsEndFirst
<1>1. AnyInit => LinuxInv /\ AllSessions!Init
  BY LinuxInit, SessionInitIs DEF AnyInit
<1>2. LinuxInv /\ [LinuxSession!Next]_(LinuxSession!vars) => LinuxInv'
  BY LinuxNext
<1>3. LinuxInv => LinuxSession!TypeOK
  BY DEF LinuxInv, LinuxTypes, LinuxQueues, LinuxSession!TypeOK, LinuxSession!Buffers, Chunks
<1>4. WinKinds \subseteq AllSessions!AllKinds
  BY SessionAssumption DEF WindowsSession!AllKinds, AllSessions!AllKinds
<1>5. AllSessions!Init => AllSessions!IInv
  BY <1>4, AllSessions!InitIInv
<1>6. AllSessions!IInv /\ [AllSessions!Next]_(AllSessions!vars) => AllSessions!IInv'
  BY AllSessions!NextIInv
<1>7. AllSessions!IInv => AllSessions!TypeOK /\ AllSessions!OperationsEndFirst
  BY AllSessions!EndsFirst
<1>8. /\ AllSessions!TypeOK => WindowsSession!TypeOK
      /\ AllSessions!OperationsEndFirst => WindowsSession!OperationsEndFirst
  BY DEF WindowsSession!TypeOK, AllSessions!TypeOK, WindowsSession!OperationsEndFirst,
         AllSessions!OperationsEndFirst, WindowsSession!AllKinds, AllSessions!AllKinds,
         WindowsSession!Ops, AllSessions!Ops, WindowsSession!Threads, AllSessions!Threads,
         WindowsSession!Tasks, AllSessions!Tasks, AllSessions!w1
<1> QED
  BY <1>1, <1>2, <1>3, <1>5, <1>6, <1>7, <1>8, SessionStepsAre, PTL
     DEF AnySpec, OperationsEndFirst

-----------------------------------------------------------------------------
(* Q2Packet: the invariant *)

\* The packet that is being cut: those before it are shown or kept.
Now == Len(delivered) + (IF stage = "idle" THEN 0 ELSE Len(ap)) + 1

Stages == {"idle", "header", "cut", "whole", "next", "return", "refused", "overrun"}

PacketTypes ==
  /\ ends \in Seq(Nat) /\ received \in Nat /\ rest \in Nat
  /\ pk \in [0..BufferSize - 1 -> Nat] /\ q1 \in Nat /\ q2 \in Nat
  /\ ap \in Seq(Nat) /\ delivered \in Seq(Seq(Nat)) /\ stage \in Stages

\* The packets follow one another.
StreamInv ==
  /\ Len(ends) >= 1 /\ ends[1] = 0 /\ received <= ends[Len(ends)]
  /\ \A i \in 1..Len(ends), j \in 1..Len(ends) : i < j => ends[i] < ends[j]
  /\ \A i \in 1..Len(ends) - 1 : SizeOf(i) \in Sizes

\* What was shown.
ShownInv == \A i \in 1..Len(delivered) : i < Len(ends) /\ delivered[i] = [k \in 1..SizeOf(i) |-> ends[i] + k]

\* Between the positions is the beginning of a packet, and all the bytes so far are in packets or there.
PendingInv ==
  /\ Now <= Len(ends) /\ q1 <= q2
  /\ received - rest = ends[Now] + (q2 - q1)
  /\ q1 < q2 => q2 <= BufferSize /\ Now < Len(ends) /\ q2 - q1 <= SizeOf(Now)
  /\ \A k \in q1..q2 - 1 : pk[k] = ends[Now] + k - q1 + 1

\* What each place of update knows.
StageInv ==
  /\ stage = "idle" => rest = 0 /\ (q1 = 0 => ap = <<>>)
  /\ stage = "header" => q1 = 0 /\ ap = <<>>
  /\ stage = "cut" => q2 - q1 >= MIN_PACKET_SIZE
  /\ stage = "whole" => q1 < q2 /\ q2 - q1 = SizeOf(Now)
  /\ stage = "next" => q1 = q2
  /\ stage = "return" => rest = 0
  /\ stage = "refused" => Now < Len(ends) /\ SizeOf(Now) > MAX_PACKET_SIZE

\* The packets that are kept are whole, and lie before the positions.
KeptInv ==
  \A i \in 1..Len(ap) :
    LET j == Len(delivered) + i IN
    /\ j < Len(ends) /\ ap[i] + SizeOf(j) <= q1 /\ ap[i] + SizeOf(j) <= BufferSize
    /\ \A k \in 0..SizeOf(j) - 1 : pk[ap[i] + k] = ends[j] + k + 1

PacketInv ==
  /\ PacketTypes /\ StreamInv /\ ShownInv
  /\ stage # "overrun" => PendingInv /\ StageInv
  /\ stage \notin {"idle", "overrun"} => KeptInv

-----------------------------------------------------------------------------
(* Q2Packet: the invariant is kept *)

\* Where update is before it returns.
PacketWays == {"cut", "whole", "next", "return", "refused", "header"}

\* The header of a packet says its size.
LEMMA HeaderSays ==
  ASSUME PacketTypes, StreamInv, NEW i \in 1..Len(ends) - 1
  PROVE  SizeAt(ends[i] + 1) = SizeOf(i)
<1>1. \A j \in 1..Len(ends) - 1 : ends[j] + 1 = ends[i] + 1 => j = i
  <2> TAKE j \in 1..Len(ends) - 1
  <2>1. i \in 1..Len(ends) /\ j \in 1..Len(ends) /\ ends[i] \in Nat /\ ends[j] \in Nat
    BY DEF PacketTypes
  <2> QED
    BY <2>1 DEF StreamInv
<1> DEFINE c == CHOOSE j \in 1..Len(ends) - 1 : ends[j] + 1 = ends[i] + 1
<1>2. c = i
  BY <1>1
<1> QED
  BY <1>2 DEF SizeAt

\* Sizes are positive, and the ends are numbers.
LEMMA StreamTypes ==
  ASSUME PacketAssumption, PacketTypes, StreamInv
  PROVE  /\ Len(ends) \in Nat /\ Len(ends) >= 1
         /\ \A i \in 1..Len(ends) : ends[i] \in Nat /\ ends[i] <= ends[Len(ends)]
         /\ \A i \in 1..Len(ends) - 1 : /\ SizeOf(i) \in Nat /\ SizeOf(i) >= MIN_PACKET_SIZE
                                        /\ ends[i + 1] = ends[i] + SizeOf(i)
<1>1. Len(ends) \in Nat /\ Len(ends) >= 1 /\ \A i \in 1..Len(ends) : ends[i] \in Nat
  BY DEF PacketTypes, StreamInv
<1>2. ASSUME NEW i \in 1..Len(ends) PROVE ends[i] <= ends[Len(ends)]
  BY <1>1 DEF StreamInv
<1>3. ASSUME NEW i \in 1..Len(ends) - 1
      PROVE  SizeOf(i) \in Nat /\ SizeOf(i) >= MIN_PACKET_SIZE /\ ends[i + 1] = ends[i] + SizeOf(i)
  <2>1. SizeOf(i) \in Sizes
    BY DEF StreamInv
  <2>2. SizeOf(i) \in Nat /\ SizeOf(i) >= MIN_PACKET_SIZE
    BY <2>1 DEF PacketAssumption
  <2>3. ends[i] \in Nat /\ ends[i + 1] \in Nat
    BY <1>1
  <2> QED
    BY <2>2, <2>3 DEF SizeOf
<1> QED
  BY <1>1, <1>2, <1>3

\* Numbers, where the buffer is not overrun.
LEMMA NowTypes ==
  ASSUME PacketAssumption, PacketInv, stage # "overrun"
  PROVE  /\ Now \in 1..Len(ends) /\ ends[Now] \in Nat /\ q1 \in Nat /\ q2 \in Nat /\ q1 <= q2
         /\ rest \in Nat /\ received \in Nat /\ received - rest = ends[Now] + (q2 - q1)
         /\ Len(delivered) \in Nat /\ Len(ap) \in Nat
         /\ rest > 0 => Now < Len(ends)
         /\ BufferSize \in Nat
<1>1. Len(delivered) \in Nat /\ Len(ap) \in Nat /\ q1 \in Nat /\ q2 \in Nat /\ rest \in Nat /\ received \in Nat
  BY DEF PacketInv, PacketTypes
<1>2. Now \in Nat /\ Now >= 1
  BY <1>1 DEF Now
<1>3. Now <= Len(ends) /\ q1 <= q2 /\ received - rest = ends[Now] + (q2 - q1)
  BY DEF PacketInv, PendingInv
<1>4. /\ Len(ends) \in Nat /\ \A i \in 1..Len(ends) : ends[i] \in Nat
      /\ received <= ends[Len(ends)]
  BY StreamTypes DEF PacketInv, StreamInv
<1>5. Now \in 1..Len(ends) /\ ends[Now] \in Nat
  BY <1>2, <1>3, <1>4
<1>6. ASSUME rest > 0 PROVE Now < Len(ends)
  <2> SUFFICES ASSUME Now = Len(ends) PROVE FALSE
    BY <1>3, <1>5, <1>4
  <2> QED
    BY <1>1, <1>3, <1>4, <1>5, <1>6
<1>7. BufferSize \in Nat
  BY DEF BufferSize, PacketAssumption
<1> QED
  BY <1>1, <1>3, <1>5, <1>6, <1>7

\* The stream and what was shown do not change with the buffer.
LEMMA StreamKept ==
  ASSUME StreamInv, ShownInv, UNCHANGED <<ends, received, delivered>>
  PROVE  StreamInv' /\ ShownInv'
<1>1. ends' = ends /\ received' = received /\ delivered' = delivered
  OBVIOUS
<1> QED
  BY <1>1 DEF StreamInv, ShownInv, SizeOf

\* A copy appends bytes of the packet that is being cut, or overruns the buffer.
LEMMA Takes ==
  ASSUME PacketAssumption, PacketInv, stage \in PacketWays, NEW n \in 0..rest, NEW then \in PacketWays,
         Take(n, then), UNCHANGED <<ends, received, q1, ap, delivered>>,
         n > 0 => q2 + n - q1 <= SizeOf(Now)
  PROVE  /\ PacketTypes' /\ StreamInv' /\ ShownInv'
         /\ \/ stage' = "overrun"
            \/ /\ stage' = then /\ q2' = q2 + n /\ rest' = rest - n /\ Now' = Now
               /\ PendingInv' /\ KeptInv'
<1>1. PacketTypes /\ StreamInv /\ ShownInv /\ PendingInv /\ KeptInv
  BY DEF PacketInv, PacketWays
<1>2. StreamInv' /\ ShownInv'
  BY <1>1, StreamKept
<1>3. /\ Now \in 1..Len(ends) /\ ends[Now] \in Nat /\ q1 \in Nat /\ q2 \in Nat /\ q1 <= q2
      /\ rest \in Nat /\ received \in Nat /\ received - rest = ends[Now] + (q2 - q1)
      /\ Len(delivered) \in Nat /\ Len(ap) \in Nat /\ (rest > 0 => Now < Len(ends))
      /\ BufferSize \in Nat
  BY NowTypes DEF PacketWays
<1>4. CASE q2 + n > BufferSize
  <2>1. stage' = "overrun" /\ rest' = rest /\ pk' = pk /\ q2' = q2
    BY <1>4 DEF Take
  <2>2. PacketTypes'
    BY <1>1, <2>1 DEF PacketTypes, Stages
  <2> QED
    BY <1>2, <2>1, <2>2
<1>5. CASE ~(q2 + n > BufferSize)
  <2>1. /\ pk' = [i \in DOMAIN pk |-> IF i \in q2..q2 + n - 1 THEN received - rest + 1 + i - q2 ELSE pk[i]]
        /\ q2' = q2 + n /\ rest' = rest - n /\ stage' = then
        /\ ends' = ends /\ received' = received /\ q1' = q1 /\ ap' = ap /\ delivered' = delivered
    BY <1>5 DEF Take
  <2>2. DOMAIN pk = 0..BufferSize - 1 /\ pk \in [0..BufferSize - 1 -> Nat]
    BY <1>1 DEF PacketTypes
  <2>3. \A i \in q2..q2 + n - 1 : received - rest + 1 + i - q2 \in Nat
    BY <1>3
  <2>4. pk' \in [0..BufferSize - 1 -> Nat]
    BY <2>1, <2>2, <2>3
  <2>5. PacketTypes'
    <3>1. then \in Stages /\ q2 + n \in Nat /\ rest - n \in Nat
      BY <1>3 DEF Stages, PacketWays
    <3> QED
      BY <1>1, <2>1, <2>4, <3>1 DEF PacketTypes
  <2>6. Now' = Now
    <3>1. stage # "idle" /\ stage' # "idle"
      BY <2>1 DEF PacketWays
    <3> QED
      BY <2>1, <3>1 DEF Now
  <2>7. \A k \in 0..BufferSize - 1 : pk'[k] = IF k >= q2 /\ k < q2 + n THEN received - rest + 1 + k - q2 ELSE pk[k]
    BY <1>3, <2>1, <2>2
  <2>8. PendingInv'
    <3>1. ends[Now]' = ends[Now] /\ SizeOf(Now)' = SizeOf(Now)
      BY <2>1, <2>6 DEF SizeOf
    <3>2. n > 0 => Now < Len(ends)
      BY <1>3
    <3>3. q1 < q2 => q2 <= BufferSize /\ Now < Len(ends) /\ q2 - q1 <= SizeOf(Now)
      BY <1>1 DEF PendingInv
    <3>4. q1 < q2 + n => q2 + n <= BufferSize /\ Now < Len(ends) /\ (q2 + n) - q1 <= SizeOf(Now)
      <4>1. CASE n > 0
        BY <1>3, <1>5, <3>2, <4>1
      <4>2. CASE n = 0
        BY <1>3, <3>3, <4>2
      <4> QED
        BY <1>3, <4>1, <4>2
    <3>5. ASSUME NEW k \in q1..q2 + n - 1 PROVE pk'[k] = ends[Now] + k - q1 + 1
      <4>1. k \in 0..BufferSize - 1
        BY <1>3, <1>5
      <4>2. CASE k >= q2
        <5>1. pk'[k] = received - rest + 1 + k - q2
          <6>1. k < q2 + n
            BY <1>3
          <6> QED
            BY <2>7, <4>1, <4>2, <6>1
        <5>2. k \in Int
          OBVIOUS
        <5> QED
          BY SMTT(30), <1>3, <5>1, <5>2
      <4>3. CASE k < q2
        <5>1. k \in q1..q2 - 1
          BY <1>3, <4>3
        <5>2. pk[k] = ends[Now] + k - q1 + 1
          BY <1>1, <5>1 DEF PendingInv
        <5> QED
          BY <1>3, <2>7, <4>1, <4>3, <5>2
      <4> QED
        BY <1>3, <4>2, <4>3
    <3>6. received - (rest - n) = ends[Now] + ((q2 + n) - q1) /\ q1 <= q2 + n
      BY <1>3
    <3> QED
      <4>1. Now <= Len(ends)
        BY <1>3
      <4>2. /\ Now' = Now /\ ends' = ends /\ q1' = q1 /\ q2' = q2 + n /\ received' = received /\ rest' = rest - n
        BY <2>1, <2>6
      <4>3. (Now <= Len(ends) /\ q1 <= q2 /\ received - rest = ends[Now] + (q2 - q1))'
        BY <3>1, <3>6, <4>1, <4>2
      <4>4. (q1 < q2 => q2 <= BufferSize /\ Now < Len(ends) /\ q2 - q1 <= SizeOf(Now))'
        BY <3>1, <3>4, <4>2
      <4>5. (\A k \in q1..q2 - 1 : pk[k] = ends[Now] + k - q1 + 1)'
        <5> SUFFICES ASSUME NEW k \in q1..(q2 + n) - 1 PROVE pk'[k] = ends[Now] + k - q1 + 1
          BY <3>1, <4>2
        <5>1. k \in q1..q2 + n - 1
          BY <1>3
        <5> QED
          BY <3>5, <5>1
      <4> QED
        BY <4>3, <4>4, <4>5 DEF PendingInv
  <2>9. KeptInv'
    <3> SUFFICES ASSUME NEW i \in 1..Len(ap), NEW j, j = Len(delivered) + i
                 PROVE  /\ j < Len(ends) /\ ap[i] + SizeOf(j) <= q1 /\ ap[i] + SizeOf(j) <= BufferSize
                        /\ \A k \in 0..SizeOf(j) - 1 : pk'[ap[i] + k] = ends[j] + k + 1
      BY <2>1 DEF KeptInv, SizeOf
    <3>1. /\ j < Len(ends) /\ ap[i] + SizeOf(j) <= q1 /\ ap[i] + SizeOf(j) <= BufferSize
          /\ \A k \in 0..SizeOf(j) - 1 : pk[ap[i] + k] = ends[j] + k + 1
      BY <1>1 DEF KeptInv
    <3>2. ap[i] \in Nat /\ j \in 1..Len(ends) - 1
      <4>1. ap[i] \in Nat
        BY <1>1 DEF PacketTypes
      <4>2. i \in Nat /\ i >= 1 /\ Len(ends) \in Nat
        BY <1>1, <1>3, StreamTypes
      <4> QED
        BY SMTT(30), <1>3, <3>1, <4>1, <4>2
    <3>3. SizeOf(j) \in Nat
      BY <1>1, <3>2, StreamTypes
    <3>4. ASSUME NEW k \in 0..SizeOf(j) - 1 PROVE pk'[ap[i] + k] = ends[j] + k + 1
      <4>1. ap[i] + k \in 0..BufferSize - 1 /\ ~(ap[i] + k >= q2)
        <5>1. ap[i] \in Nat /\ SizeOf(j) \in Nat /\ ap[i] + SizeOf(j) <= q1 /\ ap[i] + SizeOf(j) <= BufferSize
          BY <3>1, <3>2, <3>3
        <5>2. k \in Nat /\ k < SizeOf(j)
          BY <5>1
        <5>3. q1 \in Nat /\ q2 \in Nat /\ q1 <= q2 /\ BufferSize \in Nat
          BY <1>3
        <5> HIDE DEF BufferSize
        <5> QED
          BY SMTT(30), <5>1, <5>2, <5>3
      <4> QED
        BY <2>7, <3>1, <4>1
    <3> QED
      BY <3>1, <3>4
  <2> QED
    BY <1>2, <2>1, <2>5, <2>6, <2>8, <2>9
<1> QED
  BY <1>3, <1>4, <1>5

LEMMA PacketInit_Inv == ASSUME PacketAssumption PROVE PacketInit => PacketInv
<1> SUFFICES ASSUME PacketInit PROVE PacketInv
  OBVIOUS
<1>1. /\ ends = <<0>> /\ received = 0 /\ rest = 0 /\ q1 = 0 /\ q2 = 0 /\ ap = <<>> /\ delivered = <<>>
      /\ stage = "idle" /\ pk = [i \in 0..BufferSize - 1 |-> 0]
  BY DEF PacketInit
<1>2. /\ ends \in Seq(Nat) /\ Len(ends) = 1 /\ ends[1] = 0 /\ Len(ap) = 0 /\ Len(delivered) = 0
      /\ ap \in Seq(Nat) /\ delivered \in Seq(Seq(Nat))
  BY <1>1
<1>3. PacketTypes
  BY <1>1, <1>2 DEF PacketTypes, Stages
<1>4. StreamInv /\ ShownInv
  BY <1>1, <1>2 DEF StreamInv, ShownInv
<1>5. Now = 1
  BY <1>1, <1>2 DEF Now
<1>6. PendingInv
  BY <1>1, <1>2, <1>5 DEF PendingInv
<1>7. StageInv
  BY <1>1 DEF StageInv
<1> QED
  BY <1>1, <1>3, <1>4, <1>6, <1>7 DEF PacketInv

\* The peer: another packet behind the others.
LEMMA PacketSend == ASSUME PacketAssumption, PacketInv, Send PROVE PacketInv'
<1>1. PacketTypes /\ StreamInv /\ ShownInv
  BY DEF PacketInv
<1>2. PICK s \in Sizes : ends' = Append(ends, Sent + s)
  BY DEF Send
<1>3. UNCHANGED <<received, rest, pk, q1, q2, ap, delivered, stage>>
  BY DEF Send
<1>4. /\ Len(ends) \in Nat /\ Len(ends) >= 1 /\ ends \in Seq(Nat)
      /\ \A i \in 1..Len(ends) : ends[i] \in Nat /\ ends[i] <= ends[Len(ends)]
  BY <1>1, StreamTypes DEF PacketTypes
<1>5. s \in Nat /\ s >= 1
  BY <1>2 DEF PacketAssumption
<1>6. Sent \in Nat /\ Sent = ends[Len(ends)]
  BY <1>4 DEF Sent
<1>7. /\ ends' \in Seq(Nat) /\ Len(ends') = Len(ends) + 1
      /\ \A i \in 1..Len(ends) : ends'[i] = ends[i]
      /\ ends'[Len(ends) + 1] = Sent + s
  BY <1>2, <1>4, <1>5, <1>6
<1>8. ASSUME NEW i \in 1..Len(ends) - 1 PROVE SizeOf(i)' = SizeOf(i)
  <2>1. i \in 1..Len(ends) /\ i + 1 \in 1..Len(ends)
    BY <1>4
  <2>2. ends'[i] = ends[i] /\ ends'[i + 1] = ends[i + 1]
    BY <1>7, <2>1
  <2> QED
    BY <2>2 DEF SizeOf
<1>9. PacketTypes'
  BY <1>1, <1>3, <1>7 DEF PacketTypes
<1>10. StreamInv'
  <2>1. Len(ends') >= 1 /\ ends'[1] = 0
    BY <1>1, <1>4, <1>7 DEF StreamInv
  <2>2. received' <= ends'[Len(ends')]
    <3>1. received <= ends[Len(ends)] /\ received \in Nat
      BY <1>1 DEF StreamInv, PacketTypes
    <3> QED
      BY <1>3, <1>5, <1>6, <1>7, <3>1
  <2>3. ASSUME NEW i \in 1..Len(ends'), NEW j \in 1..Len(ends'), i < j PROVE ends'[i] < ends'[j]
    <3>1. CASE j = Len(ends) + 1
      <4>1. i \in 1..Len(ends)
        BY <1>4, <1>7, <2>3, <3>1
      <4>2. ends[i] \in Nat /\ ends[i] <= Sent
        BY <1>4, <1>6, <4>1
      <4> QED
        BY <1>5, <1>6, <1>7, <3>1, <4>1, <4>2
    <3>2. CASE j # Len(ends) + 1
      <4>1. i \in 1..Len(ends) /\ j \in 1..Len(ends)
        BY <1>4, <1>7, <2>3, <3>2
      <4> QED
        BY <1>1, <1>7, <2>3, <4>1 DEF StreamInv
    <3> QED
      BY <3>1, <3>2
  <2>4. ASSUME NEW i \in 1..Len(ends') - 1 PROVE SizeOf(i)' \in Sizes
    <3>1. CASE i = Len(ends)
      <4>1. ends'[i] = ends[Len(ends)] /\ ends'[i + 1] = Sent + s
        BY <1>4, <1>7, <3>1
      <4>2. SizeOf(i)' = s
        BY <1>5, <1>6, <4>1 DEF SizeOf
      <4> QED
        BY <4>2
    <3>2. CASE i # Len(ends)
      <4>1. i \in 1..Len(ends) - 1
        BY <1>4, <1>7, <3>2
      <4> QED
        BY <1>1, <1>8, <4>1 DEF StreamInv
    <3> QED
      BY <3>1, <3>2
  <2> QED
    BY <2>1, <2>2, <2>3, <2>4 DEF StreamInv
<1>11. ShownInv'
  <2> SUFFICES ASSUME NEW i \in 1..Len(delivered)
               PROVE  i < Len(ends') /\ delivered[i] = [k \in 1..SizeOf(i)' |-> ends'[i] + k]
    BY <1>3 DEF ShownInv
  <2>1. i < Len(ends) /\ delivered[i] = [k \in 1..SizeOf(i) |-> ends[i] + k]
    BY <1>1 DEF ShownInv
  <2>2. i \in 1..Len(ends) - 1 /\ i \in 1..Len(ends)
    BY <1>4, <2>1
  <2>3. SizeOf(i)' = SizeOf(i) /\ ends'[i] = ends[i]
    BY <1>7, <1>8, <2>2
  <2> QED
    BY <1>4, <1>7, <2>1, <2>3
<1>12. Now' = Now
  BY <1>3 DEF Now
<1>13. ASSUME stage # "overrun" PROVE PendingInv' /\ StageInv'
  <2>1. /\ Now \in 1..Len(ends) /\ ends[Now] \in Nat
    BY <1>13, NowTypes
  <2>2. ends'[Now] = ends[Now] /\ Now <= Len(ends') /\ (Now < Len(ends) => Now < Len(ends') /\ SizeOf(Now)' = SizeOf(Now))
    <3>1. Now < Len(ends) => Now \in 1..Len(ends) - 1
      BY <1>4, <2>1
    <3>2. Now < Len(ends) => SizeOf(Now)' = SizeOf(Now)
      <4> SUFFICES ASSUME Now < Len(ends) PROVE SizeOf(Now)' = SizeOf(Now)
        OBVIOUS
      <4>1. Now \in 1..Len(ends) /\ Now + 1 \in 1..Len(ends)
        BY <1>4, <2>1
      <4>2. ends'[Now + 1] = ends[Now + 1] /\ ends'[Now] = ends[Now]
        BY <1>7, <4>1
      <4>3. SizeOf(Now)' = ends'[Now' + 1] - ends'[Now']
        BY DEF SizeOf
      <4> QED
        BY <1>12, <4>2, <4>3 DEF SizeOf
    <3> QED
      BY <1>4, <1>7, <2>1, <3>2
  <2>3. PendingInv /\ StageInv
    BY <1>13 DEF PacketInv
  <2>4. stage \in {"whole", "refused"} => Now < Len(ends)
    BY <2>3, <1>13 DEF PendingInv, StageInv
  <2>5. PendingInv'
    BY <1>3, <1>12, <2>2, <2>3 DEF PendingInv
  <2>6. StageInv'
    BY <1>3, <1>12, <2>2, <2>3, <2>4 DEF StageInv
  <2> QED
    BY <2>5, <2>6
<1>14. ASSUME stage \notin {"idle", "overrun"} PROVE KeptInv'
  <2>1. KeptInv
    BY <1>14 DEF PacketInv
  <2> SUFFICES ASSUME NEW i \in 1..Len(ap), NEW j, j = Len(delivered) + i
               PROVE  /\ j < Len(ends') /\ ap[i] + SizeOf(j)' <= q1 /\ ap[i] + SizeOf(j)' <= BufferSize
                      /\ \A k \in 0..SizeOf(j)' - 1 : pk[ap[i] + k] = ends'[j] + k + 1
    BY <1>3 DEF KeptInv, SizeOf
  <2>2. /\ j < Len(ends) /\ ap[i] + SizeOf(j) <= q1 /\ ap[i] + SizeOf(j) <= BufferSize
        /\ \A k \in 0..SizeOf(j) - 1 : pk[ap[i] + k] = ends[j] + k + 1
    BY <2>1 DEF KeptInv
  <2>3. j \in 1..Len(ends) - 1 /\ j \in 1..Len(ends)
    <3>1. Len(delivered) \in Nat /\ i \in Nat /\ i >= 1
      BY <1>1 DEF PacketTypes
    <3> QED
      BY <1>4, <2>2, <3>1
  <2>4. ends'[j] = ends[j] /\ ends'[j + 1] = ends[j + 1]
    BY <1>4, <1>7, <2>3
  <2> QED
    BY <1>4, <1>7, <2>2, <2>4 DEF SizeOf
<1> QED
  BY <1>3, <1>9, <1>10, <1>11, <1>13, <1>14 DEF PacketInv

\* A step that copies nothing.
LEMMA GoesOn ==
  ASSUME PacketAssumption, PacketInv, stage \in PacketWays, stage' \in PacketWays,
         UNCHANGED <<ends, received, rest, pk, q1, q2, ap, delivered>>, StageInv'
  PROVE  PacketInv'
<1>1. PacketTypes /\ StreamInv /\ ShownInv /\ PendingInv /\ KeptInv
  BY DEF PacketInv, PacketWays
<1>2. stage # "idle" /\ stage' # "idle" /\ stage' # "overrun" /\ stage' \in Stages
  BY DEF PacketWays, Stages
<1>3. Now' = Now
  BY <1>2 DEF Now
<1>4. StreamInv' /\ ShownInv'
  BY <1>1, StreamKept
<1>5. PacketTypes'
  BY <1>1, <1>2 DEF PacketTypes
<1>6. PendingInv'
  BY <1>1, <1>3 DEF PendingInv, SizeOf
<1>7. KeptInv'
  BY <1>1 DEF KeptInv, SizeOf
<1> QED
  BY <1>4, <1>5, <1>6, <1>7 DEF PacketInv

\* update: done() moves what is left of a packet to the front.
LEMMA PacketUpdate == ASSUME PacketAssumption, PacketInv, Update PROVE PacketInv'
<1>1. PacketTypes /\ StreamInv /\ ShownInv /\ PendingInv /\ StageInv /\ stage = "idle"
  BY DEF PacketInv, Update
<1>2. PICK n \in 1..MAX_PACKET_SIZE : received + n <= Sent /\ received' = received + n /\ rest' = n
  BY DEF Update
<1>3. Done /\ stage' = "header" /\ ends' = ends /\ delivered' = delivered
  BY DEF Update
<1>4. /\ Now \in 1..Len(ends) /\ ends[Now] \in Nat /\ q1 \in Nat /\ q2 \in Nat /\ q1 <= q2
      /\ rest = 0 /\ received \in Nat /\ received - rest = ends[Now] + (q2 - q1)
      /\ Len(delivered) \in Nat /\ BufferSize \in Nat
  BY <1>1, NowTypes DEF StageInv
<1>5. n \in Nat
  BY <1>2 DEF PacketAssumption
<1>6. DOMAIN pk = 0..BufferSize - 1 /\ pk \in [0..BufferSize - 1 -> Nat]
  BY <1>1 DEF PacketTypes
<1>7. q1 < q2 => q2 <= BufferSize
  BY <1>1 DEF PendingInv
<1>8. /\ ap' = <<>> /\ q1' = 0 /\ q2' = q2 - q1 /\ pk' \in [0..BufferSize - 1 -> Nat]
      /\ \A k \in 0..q2 - q1 - 1 : pk'[k] = pk[q1 + k]
  <2>1. CASE q1 = 0
    <3>1. UNCHANGED <<pk, q1, q2, ap>> /\ ap = <<>>
      BY <1>1, <1>3, <2>1 DEF Done, StageInv
    <3>2. q2 - q1 = q2 /\ \A k \in 0..q2 - q1 - 1 : q1 + k = k
      BY <1>4, <2>1
    <3> QED
      BY <1>6, <2>1, <3>1, <3>2
  <2>2. CASE q1 # 0
    <3>1. /\ ap' = <<>> /\ q1' = 0 /\ q2' = q2 - q1
          /\ pk' = [i \in DOMAIN pk |-> IF i < q2 - q1 THEN pk[q1 + i] ELSE pk[i]]
      BY <1>3, <2>2 DEF Done
    <3>2. ASSUME NEW i \in 0..BufferSize - 1, i < q2 - q1 PROVE pk[q1 + i] \in Nat
      <4>1. q1 + i \in 0..BufferSize - 1
        BY <1>4, <1>7, <3>2
      <4> QED
        BY <1>6, <4>1
    <3>3. pk' \in [0..BufferSize - 1 -> Nat]
      BY <1>6, <3>1, <3>2
    <3>4. ASSUME NEW k \in 0..q2 - q1 - 1 PROVE pk'[k] = pk[q1 + k]
      <4>1. k \in 0..BufferSize - 1 /\ k < q2 - q1
        BY <1>4, <1>7
      <4> QED
        BY <1>6, <3>1, <4>1
    <3> QED
      BY <3>1, <3>3, <3>4
  <2> QED
    BY <2>1, <2>2
<1>9. Now' = Now
  BY <1>1, <1>3, <1>4, <1>8 DEF Now
<1>10. PacketTypes'
  <2>1. received + n \in Nat /\ q2 - q1 \in Nat
    BY <1>4, <1>5
  <2> QED
    BY <1>1, <1>2, <1>3, <1>5, <1>8, <2>1 DEF PacketTypes, Stages
<1>11. StreamInv'
  BY <1>1, <1>2, <1>3 DEF StreamInv, SizeOf, Sent
<1>12. ShownInv'
  BY <1>1, <1>3 DEF ShownInv, SizeOf
<1>13. PendingInv'
  <2>1. ends[Now]' = ends[Now] /\ SizeOf(Now)' = SizeOf(Now)
    BY <1>3, <1>9 DEF SizeOf
  <2>2. (Now <= Len(ends) /\ q1 <= q2 /\ received - rest = ends[Now] + (q2 - q1))'
    BY <1>2, <1>3, <1>4, <1>5, <1>8, <1>9, <2>1
  <2>3. (q1 < q2 => q2 <= BufferSize /\ Now < Len(ends) /\ q2 - q1 <= SizeOf(Now))'
    <3>1. q1 < q2 => Now < Len(ends) /\ q2 - q1 <= SizeOf(Now)
      BY <1>1 DEF PendingInv
    <3>2. 0 < q2 - q1 => q1 < q2 /\ q2 - q1 <= BufferSize
      BY <1>4, <1>7
    <3>3. q2 - q1 - 0 = q2 - q1
      BY <1>4
    <3> QED
      BY <1>3, <1>8, <1>9, <2>1, <3>1, <3>2, <3>3
  <2>4. ASSUME NEW k \in 0..q2 - q1 - 1 PROVE pk'[k] = ends[Now] + k - 0 + 1
    <3>1. q1 + k \in q1..q2 - 1
      BY <1>4
    <3>2. pk[q1 + k] = ends[Now] + (q1 + k) - q1 + 1
      BY <1>1, <3>1 DEF PendingInv
    <3> QED
      BY <1>4, <1>8, <3>2
  <2>5. (\A k \in q1..q2 - 1 : pk[k] = ends[Now] + k - q1 + 1)'
    BY <1>8, <2>1, <2>4
  <2> QED
    BY <2>2, <2>3, <2>5 DEF PendingInv
<1>14. StageInv'
  BY <1>3, <1>8 DEF StageInv
<1>15. KeptInv'
  BY <1>8 DEF KeptInv
<1> QED
  BY <1>3, <1>10, <1>11, <1>12, <1>13, <1>14, <1>15 DEF PacketInv

\* The header of the first packet.
LEMMA PacketHeader == ASSUME PacketAssumption, PacketInv, Header PROVE PacketInv'
<1>1. PacketTypes /\ StreamInv /\ PendingInv /\ StageInv /\ KeptInv /\ stage = "header"
  BY DEF PacketInv, Header
<1>2. UNCHANGED <<ends, received, q1, ap, delivered>>
  BY DEF Header
<1>3. /\ Now \in 1..Len(ends) /\ ends[Now] \in Nat /\ q1 = 0 /\ q2 \in Nat
      /\ rest \in Nat /\ (rest > 0 => Now < Len(ends))
  BY <1>1, NowTypes DEF StageInv
<1>4. /\ Now < Len(ends) => SizeOf(Now) \in Nat /\ SizeOf(Now) >= MIN_PACKET_SIZE
      /\ MIN_PACKET_SIZE \in Nat
  <2>1. Len(ends) \in Nat
    BY <1>1, StreamTypes
  <2>2. Now < Len(ends) => Now \in 1..Len(ends) - 1
    BY <1>3, <2>1
  <2> QED
    BY <1>1, <2>2, StreamTypes DEF PacketAssumption
<1> DEFINE nl == MIN_PACKET_SIZE - q2
<1>5. CASE nl <= 0 /\ GoOn("cut")
  <2>1. stage' = "cut" /\ UNCHANGED <<rest, pk, q2>>
    BY <1>5 DEF GoOn
  <2>2. q2 - q1 >= MIN_PACKET_SIZE
    BY <1>3, <1>4, <1>5
  <2>3. StageInv'
    BY <1>2, <2>1, <2>2 DEF StageInv
  <2> QED
    BY <1>1, <1>2, <2>1, <2>3, GoesOn DEF PacketWays
<1>6. CASE nl > 0 /\ rest < nl /\ Take(rest, "return")
  <2>1. rest > 0 => q2 + rest - q1 <= SizeOf(Now)
    BY <1>3, <1>4, <1>6
  <2>2. /\ PacketTypes' /\ StreamInv' /\ ShownInv'
        /\ \/ stage' = "overrun"
           \/ stage' = "return" /\ rest' = rest - rest /\ PendingInv' /\ KeptInv'
    <3>1. rest \in 0..rest /\ stage \in PacketWays /\ "return" \in PacketWays
      BY <1>1, <1>3 DEF PacketWays
    <3> QED
      BY <1>2, <1>6, <2>1, <3>1, Takes
  <2>3. rest - rest = 0
    BY <1>3
  <2>4. stage' = "return" => StageInv'
    BY <2>2, <2>3 DEF StageInv
  <2> QED
    BY <2>2, <2>4 DEF PacketInv
<1>7. CASE nl > 0 /\ rest >= nl /\ Take(nl, "cut")
  <2>1. nl \in 0..rest /\ (nl > 0 => q2 + nl - q1 <= SizeOf(Now)) /\ q2 + nl = MIN_PACKET_SIZE
    BY <1>3, <1>4, <1>7
  <2> HIDE DEF nl
  <2>2. /\ PacketTypes' /\ StreamInv' /\ ShownInv'
        /\ \/ stage' = "overrun"
           \/ stage' = "cut" /\ q2' = q2 + nl /\ PendingInv' /\ KeptInv'
    <3>1. stage \in PacketWays /\ "cut" \in PacketWays
      BY <1>1 DEF PacketWays
    <3> QED
      BY <1>2, <1>7, <2>1, <3>1, Takes
  <2>3. stage' = "cut" => StageInv'
    <3>1. MIN_PACKET_SIZE - 0 >= MIN_PACKET_SIZE
      BY <1>4
    <3> QED
      BY <1>2, <1>3, <2>1, <2>2, <3>1 DEF StageInv
  <2> QED
    BY <2>2, <2>3 DEF PacketInv
<1> QED
  BY <1>5, <1>6, <1>7 DEF Header

\* Is there a byte of the packet, it is one of the stream, of a size at least that of a header.
LEMMA NowSize ==
  ASSUME PacketAssumption, PacketInv, stage # "overrun"
  PROVE  /\ MIN_PACKET_SIZE \in Nat /\ MIN_PACKET_SIZE >= 1
         /\ Now < Len(ends) => /\ Now \in 1..Len(ends) - 1 /\ SizeOf(Now) \in Nat
                               /\ SizeOf(Now) >= MIN_PACKET_SIZE /\ ends[Now + 1] = ends[Now] + SizeOf(Now)
<1>1. PacketTypes /\ StreamInv
  BY DEF PacketInv
<1>2. Len(ends) \in Nat /\ Now \in 1..Len(ends)
  BY <1>1, StreamTypes, NowTypes
<1>3. Now < Len(ends) => Now \in 1..Len(ends) - 1
  BY <1>2
<1> QED
  BY <1>1, <1>3, StreamTypes DEF PacketAssumption

\* The loop.
LEMMA PacketCut == ASSUME PacketAssumption, PacketInv, Cut PROVE PacketInv'
<1>1. PacketTypes /\ StreamInv /\ PendingInv /\ StageInv /\ KeptInv /\ stage = "cut"
  BY DEF PacketInv, Cut
<1>2. UNCHANGED <<ends, received, q1, ap, delivered>>
  BY DEF Cut
<1>3. /\ Now \in 1..Len(ends) /\ ends[Now] \in Nat /\ q1 \in Nat /\ q2 \in Nat /\ rest \in Nat
  BY <1>1, NowTypes
<1>4. MIN_PACKET_SIZE \in Nat /\ MIN_PACKET_SIZE >= 1 /\ q2 - q1 >= MIN_PACKET_SIZE
  BY <1>1, NowSize DEF StageInv
<1>5. q1 < q2
  BY <1>3, <1>4
<1>6. Now < Len(ends) /\ q2 - q1 <= SizeOf(Now)
  BY <1>1, <1>5 DEF PendingInv
<1>7. SizeOf(Now) \in Nat /\ Now \in 1..Len(ends) - 1
  BY <1>1, <1>6, NowSize
<1>8. pk[q1] = ends[Now] + 1
  <2>1. q1 \in q1..q2 - 1
    BY <1>3, <1>5
  <2>2. pk[q1] = ends[Now] + q1 - q1 + 1
    BY <1>1, <2>1 DEF PendingInv
  <2> QED
    BY <1>3, <2>2
<1>9. SizeAt(pk[q1]) = SizeOf(Now)
  BY <1>1, <1>7, <1>8, HeaderSays
<1> DEFINE sz_more == SizeOf(Now) - (q2 - q1)
<1>10. sz_more \in Nat /\ q2 + sz_more - q1 = SizeOf(Now)
  BY <1>3, <1>6, <1>7
<1>11. stage \in PacketWays /\ {"whole", "refused", "return"} \subseteq PacketWays
  BY <1>1 DEF PacketWays
<1>12. CASE sz_more <= 0 /\ GoOn("whole")
  <2>1. stage' = "whole" /\ UNCHANGED <<rest, pk, q2>>
    BY <1>12 DEF GoOn
  <2>2. Now' = Now
    BY <1>1, <1>2, <2>1 DEF Now
  <2>3. q2 - q1 = SizeOf(Now)
    BY <1>3, <1>7, <1>10, <1>12
  <2>4. SizeOf(Now)' = SizeOf(Now)
    BY <1>2, <2>2 DEF SizeOf
  <2>5. StageInv'
    BY <1>2, <1>5, <2>1, <2>3, <2>4 DEF StageInv
  <2> QED
    BY <1>2, <1>11, <2>1, <2>5, GoesOn
<1>13. CASE SizeOf(Now) > MAX_PACKET_SIZE /\ GoOn("refused")
  <2>1. stage' = "refused" /\ UNCHANGED <<rest, pk, q2>>
    BY <1>13 DEF GoOn
  <2>2. Now' = Now
    BY <1>1, <1>2, <2>1 DEF Now
  <2>4. SizeOf(Now)' = SizeOf(Now)
    BY <1>2, <2>2 DEF SizeOf
  <2>5. StageInv'
    BY <1>2, <1>6, <1>13, <2>1, <2>2, <2>4 DEF StageInv
  <2> QED
    BY <1>2, <1>11, <2>1, <2>5, GoesOn
<1>14. CASE sz_more > rest /\ Take(rest, "return")
  <2>1. rest \in 0..rest /\ q2 + rest - q1 <= SizeOf(Now) /\ rest - rest = 0
    BY <1>3, <1>7, <1>10, <1>14
  <2>2. /\ PacketTypes' /\ StreamInv' /\ ShownInv'
        /\ \/ stage' = "overrun"
           \/ stage' = "return" /\ rest' = rest - rest /\ PendingInv' /\ KeptInv'
    BY <1>2, <1>11, <1>14, <2>1, Takes
  <2>3. stage' = "return" => StageInv'
    BY <2>1, <2>2 DEF StageInv
  <2> QED
    BY <2>2, <2>3 DEF PacketInv
<1>15. CASE sz_more <= rest /\ Take(sz_more, "whole")
  <2>1. sz_more \in 0..rest /\ q2 + sz_more - q1 <= SizeOf(Now)
    BY <1>3, <1>7, <1>10, <1>15
  <2> HIDE DEF sz_more
  <2>2. /\ PacketTypes' /\ StreamInv' /\ ShownInv'
        /\ \/ stage' = "overrun"
           \/ stage' = "whole" /\ q2' = q2 + sz_more /\ Now' = Now /\ PendingInv' /\ KeptInv'
    BY <1>2, <1>11, <1>15, <2>1, Takes
  <2>3. stage' = "whole" => StageInv'
    <3> SUFFICES ASSUME stage' = "whole" PROVE StageInv'
      OBVIOUS
    <3>1. SizeOf(Now)' = SizeOf(Now) /\ q2' = q2 + sz_more /\ q1' = q1
      BY <1>2, <2>2 DEF SizeOf
    <3>2. q1' < q2' /\ q2' - q1' = SizeOf(Now)'
      BY <1>3, <1>5, <1>10, <3>1
    <3> QED
      BY <3>2 DEF StageInv
  <2> QED
    BY <2>2, <2>3 DEF PacketInv
<1>16. sz_more = SizeAt(pk[q1]) - (q2 - q1)
  BY <1>9
<1> HIDE DEF sz_more
<1> QED
  BY <1>9, <1>12, <1>13, <1>14, <1>15, <1>16 DEF Cut

\* A position is not moved back.
LEMMA Adjusts ==
  ASSUME PacketAssumption, NEW n \in Nat
  PROVE  Adjust(n) \in Nat /\ Adjust(n) >= n
<1>1. Align \in Nat /\ Align >= 1
  BY DEF PacketAssumption
<1> DEFINE raised == n + Align - 1
<1>2. raised \in Nat
  BY <1>1
<1>3. raised = Align * (raised \div Align) + (raised % Align) /\ raised % Align \in 0..Align - 1 /\ raised \div Align \in Nat
  BY <1>1, <1>2
<1>4. (raised \div Align) * Align = Align * (raised \div Align)
  BY <1>3, <1>1
<1> DEFINE down == Align * (raised \div Align)
<1>5. down \in Nat
  BY <1>1, <1>3
<1>6. Adjust(n) = down
  BY <1>4 DEF Adjust
<1> HIDE DEF down
<1>7. raised = down + (raised % Align)
  BY <1>3 DEF down
<1> QED
  BY <1>1, <1>3, <1>5, <1>6, <1>7

\* ap.push_back: the packet is kept.
LEMMA PacketKeep == ASSUME PacketAssumption, PacketInv, Keep PROVE PacketInv'
<1>1. PacketTypes /\ StreamInv /\ ShownInv /\ PendingInv /\ StageInv /\ KeptInv /\ stage = "whole"
  BY DEF PacketInv, Keep
<1>2. /\ stage' = "next" /\ ap' = Append(ap, q1) /\ q1' = Adjust(q2) /\ q2' = Adjust(q2)
      /\ UNCHANGED <<ends, received, rest, pk, delivered>>
  BY DEF Keep
<1>3. /\ Now \in 1..Len(ends) /\ ends[Now] \in Nat /\ q1 \in Nat /\ q2 \in Nat /\ rest \in Nat
      /\ received \in Nat /\ received - rest = ends[Now] + (q2 - q1) /\ Len(delivered) \in Nat /\ Len(ap) \in Nat
      /\ BufferSize \in Nat
  BY <1>1, NowTypes
<1>4. q1 < q2 /\ q2 - q1 = SizeOf(Now) /\ q2 <= BufferSize /\ Now < Len(ends)
  BY <1>1 DEF StageInv, PendingInv
<1>5. SizeOf(Now) \in Nat /\ Now \in 1..Len(ends) - 1 /\ ends[Now + 1] = ends[Now] + SizeOf(Now) /\ Len(ends) \in Nat
  BY <1>1, <1>4, NowSize, StreamTypes
<1>6. Adjust(q2) \in Nat /\ Adjust(q2) >= q2
  BY <1>3, Adjusts
<1>7. /\ ap' \in Seq(Nat) /\ Len(ap') = Len(ap) + 1 /\ ap'[Len(ap) + 1] = q1
      /\ \A i \in 1..Len(ap) : ap'[i] = ap[i]
  BY <1>1, <1>2, <1>3 DEF PacketTypes
<1>8. Now = Len(delivered) + Len(ap) + 1 /\ Now' = Now + 1
  BY <1>1, <1>2, <1>3, <1>7 DEF Now
<1>9. StreamInv' /\ ShownInv'
  BY <1>1, <1>2, StreamKept
<1>10. PacketTypes'
  BY <1>1, <1>2, <1>6, <1>7 DEF PacketTypes, Stages
<1>11. PendingInv'
  <2>1. received - rest = ends[Now + 1] + (Adjust(q2) - Adjust(q2)) /\ Now + 1 <= Len(ends)
    BY <1>3, <1>4, <1>5, <1>6
  <2>2. ~(Adjust(q2) < Adjust(q2)) /\ Adjust(q2) <= Adjust(q2) /\ Adjust(q2)..Adjust(q2) - 1 = {}
    BY <1>6
  <2>3. (Now <= Len(ends) /\ q1 <= q2 /\ received - rest = ends[Now] + (q2 - q1))'
    BY <1>2, <1>8, <2>1, <2>2
  <2>4. (q1 < q2 => q2 <= BufferSize /\ Now < Len(ends) /\ q2 - q1 <= SizeOf(Now))'
    BY <1>2, <2>2
  <2>5. (\A k \in q1..q2 - 1 : pk[k] = ends[Now] + k - q1 + 1)'
    BY <1>2, <2>2
  <2> QED
    BY <2>3, <2>4, <2>5 DEF PendingInv
<1>12. StageInv'
  BY <1>2 DEF StageInv
<1>13. KeptInv'
  <2> SUFFICES ASSUME NEW i \in 1..Len(ap) + 1, NEW j, j = Len(delivered) + i
               PROVE  /\ j < Len(ends) /\ ap'[i] + SizeOf(j) <= Adjust(q2) /\ ap'[i] + SizeOf(j) <= BufferSize
                      /\ \A k \in 0..SizeOf(j) - 1 : pk[ap'[i] + k] = ends[j] + k + 1
    <3>1. \A i : SizeOf(i)' = SizeOf(i)
      BY <1>2 DEF SizeOf
    <3> QED
      BY <1>2, <1>7, <3>1 DEF KeptInv
  <2>1. CASE i \in 1..Len(ap)
    <3>1. /\ j < Len(ends) /\ ap[i] + SizeOf(j) <= q1 /\ ap[i] + SizeOf(j) <= BufferSize
          /\ \A k \in 0..SizeOf(j) - 1 : pk[ap[i] + k] = ends[j] + k + 1
      BY <1>1, <2>1 DEF KeptInv
    <3>2. ap[i] \in Nat
      BY <1>1, <2>1 DEF PacketTypes
    <3>3. j \in 1..Len(ends) - 1
      BY SMTT(30), <1>3, <1>5, <2>1, <3>1
    <3>4. SizeOf(j) \in Nat
      BY <1>1, <3>3, StreamTypes
    <3>5. ap[i] + SizeOf(j) <= Adjust(q2)
      BY SMTT(30), <1>3, <1>4, <1>6, <3>1, <3>2, <3>4
    <3> QED
      BY <1>7, <2>1, <3>1, <3>5
  <2>2. CASE i = Len(ap) + 1
    <3>1. j = Now /\ ap'[i] = q1
      BY <1>3, <1>7, <1>8, <2>2
    <3>2. q1 + SizeOf(Now) = q2
      BY <1>3, <1>4, <1>5
    <3>3. ASSUME NEW k \in 0..SizeOf(Now) - 1 PROVE pk[q1 + k] = ends[Now] + k + 1
      <4>1. q1 + k \in q1..q2 - 1
        BY SMTT(30), <1>3, <1>5, <3>2
      <4>2. pk[q1 + k] = ends[Now] + (q1 + k) - q1 + 1
        BY <1>1, <4>1 DEF PendingInv
      <4> QED
        BY <1>3, <4>2
    <3> QED
      BY <1>4, <1>6, <3>1, <3>2, <3>3
  <2> QED
    BY <1>3, <2>1, <2>2
<1> QED
  BY <1>2, <1>9, <1>10, <1>11, <1>12, <1>13 DEF PacketInv

\* The header of the next packet.
LEMMA PacketNextHeader == ASSUME PacketAssumption, PacketInv, NextHeader PROVE PacketInv'
<1>1. PacketTypes /\ StreamInv /\ PendingInv /\ StageInv /\ KeptInv /\ stage = "next"
  BY DEF PacketInv, NextHeader
<1>2. UNCHANGED <<ends, received, q1, ap, delivered>>
  BY DEF NextHeader
<1>3. /\ Now \in 1..Len(ends) /\ q1 \in Nat /\ q2 \in Nat /\ q1 = q2
      /\ rest \in Nat /\ (rest > 0 => Now < Len(ends))
  BY <1>1, NowTypes DEF StageInv
<1>4. /\ Now < Len(ends) => SizeOf(Now) \in Nat /\ SizeOf(Now) >= MIN_PACKET_SIZE
      /\ MIN_PACKET_SIZE \in Nat
  BY <1>1, NowSize
<1>5. stage \in PacketWays /\ {"cut", "return"} \subseteq PacketWays
  BY <1>1 DEF PacketWays
<1>6. CASE rest >= MIN_PACKET_SIZE /\ Take(MIN_PACKET_SIZE, "cut")
  <2>1. MIN_PACKET_SIZE \in 0..rest /\ (MIN_PACKET_SIZE > 0 => q2 + MIN_PACKET_SIZE - q1 <= SizeOf(Now))
    BY <1>3, <1>4, <1>6
  <2>2. /\ PacketTypes' /\ StreamInv' /\ ShownInv'
        /\ \/ stage' = "overrun"
           \/ stage' = "cut" /\ q2' = q2 + MIN_PACKET_SIZE /\ PendingInv' /\ KeptInv'
    BY <1>2, <1>5, <1>6, <2>1, Takes
  <2>3. stage' = "cut" => StageInv'
    <3>1. (q2 + MIN_PACKET_SIZE) - q1 >= MIN_PACKET_SIZE
      BY <1>3, <1>4
    <3> QED
      BY <1>2, <2>2, <3>1 DEF StageInv
  <2> QED
    BY <2>2, <2>3 DEF PacketInv
<1>7. CASE ~(rest >= MIN_PACKET_SIZE) /\ Take(rest, "return")
  <2>1. rest \in 0..rest /\ (rest > 0 => q2 + rest - q1 <= SizeOf(Now)) /\ rest - rest = 0
    BY <1>3, <1>4, <1>7
  <2>2. /\ PacketTypes' /\ StreamInv' /\ ShownInv'
        /\ \/ stage' = "overrun"
           \/ stage' = "return" /\ rest' = rest - rest /\ PendingInv' /\ KeptInv'
    BY <1>2, <1>5, <1>7, <2>1, Takes
  <2>3. stage' = "return" => StageInv'
    BY <2>1, <2>2 DEF StageInv
  <2> QED
    BY <2>2, <2>3 DEF PacketInv
<1> QED
  BY <1>6, <1>7 DEF NextHeader

LEMMA OfLength ==
  ASSUME NEW n \in Nat, NEW S, NEW f \in [1..n -> S]
  PROVE  f \in Seq(S) /\ Len(f) = n
OBVIOUS

\* The client is shown what is kept.
LEMMA PacketShow == ASSUME PacketAssumption, PacketInv, Show PROVE PacketInv'
<1>1. PacketTypes /\ StreamInv /\ ShownInv /\ PendingInv /\ StageInv /\ KeptInv /\ stage = "return"
  BY DEF PacketInv, Show
<1> DEFINE new == [i \in DOMAIN ap |-> PacketAt(ap[i])]
<1>2. /\ stage' = "idle" /\ delivered' = delivered \o new
      /\ UNCHANGED <<ends, received, rest, pk, q1, q2, ap>>
  BY DEF Show
<1>3. /\ Now \in 1..Len(ends) /\ ends[Now] \in Nat /\ q1 \in Nat /\ q2 \in Nat
      /\ Len(delivered) \in Nat /\ Len(ap) \in Nat /\ Len(ends) \in Nat
  BY <1>1, NowTypes, StreamTypes
<1>4. DOMAIN ap = 1..Len(ap)
  BY <1>1 DEF PacketTypes
<1>5. ASSUME NEW i \in 1..Len(ap), NEW j, j = Len(delivered) + i
      PROVE  /\ j < Len(ends) /\ new[i] = [k \in 1..SizeOf(j) |-> ends[j] + k] /\ new[i] \in Seq(Nat)
             /\ ap[i] + SizeOf(j) <= q1 /\ ap[i] \in Nat /\ SizeOf(j) \in Nat /\ SizeOf(j) >= 1
  <2>1. /\ j < Len(ends) /\ ap[i] + SizeOf(j) <= q1
        /\ \A k \in 0..SizeOf(j) - 1 : pk[ap[i] + k] = ends[j] + k + 1
    BY <1>1, <1>5 DEF KeptInv
  <2>2. j \in 1..Len(ends) - 1 /\ ap[i] \in Nat
    <3>1. ap[i] \in Nat
      BY <1>1 DEF PacketTypes
    <3>2. i \in Nat /\ i >= 1
      BY <1>3
    <3> QED
      BY <1>3, <1>5, <2>1, <3>1, <3>2
  <2>3. SizeOf(j) \in Nat /\ SizeOf(j) >= 1 /\ ends[j] \in Nat
    <3>1. SizeOf(j) \in Nat /\ SizeOf(j) >= MIN_PACKET_SIZE /\ j \in 1..Len(ends)
      BY <1>1, <1>3, <2>2, StreamTypes
    <3> QED
      BY <1>1, <3>1, StreamTypes DEF PacketAssumption
  <2>4. SizeAt(pk[ap[i]]) = SizeOf(j)
    <3>1. pk[ap[i] + 0] = ends[j] + 0 + 1
      BY <2>1, <2>3
    <3>2. pk[ap[i]] = ends[j] + 1
      BY <2>2, <2>3, <3>1
    <3> QED
      BY <1>1, <2>2, <3>2, HeaderSays
  <2>5. ASSUME NEW k \in 1..SizeOf(j) PROVE pk[ap[i] + k - 1] = ends[j] + k
    <3>1. k - 1 \in 0..SizeOf(j) - 1
      BY <2>3
    <3>2. pk[ap[i] + (k - 1)] = ends[j] + (k - 1) + 1
      BY <2>1, <3>1
    <3>3. ap[i] + (k - 1) = ap[i] + k - 1 /\ ends[j] + (k - 1) + 1 = ends[j] + k
      BY <2>2, <2>3
    <3> QED
      BY <3>2, <3>3
  <2>6. new[i] = [k \in 1..SizeOf(j) |-> pk[ap[i] + k - 1]]
    BY <1>4, <2>4 DEF PacketAt
  <2>7. new[i] = [k \in 1..SizeOf(j) |-> ends[j] + k]
    BY <2>5, <2>6
  <2>8. new[i] \in Seq(Nat)
    <3>1. new[i] \in [1..SizeOf(j) -> Nat]
      BY <2>3, <2>7
    <3> QED
      BY <2>3, <3>1
  <2> QED
    BY <2>1, <2>2, <2>3, <2>7, <2>8
<1>6. new \in Seq(Seq(Nat)) /\ Len(new) = Len(ap) /\ \A i \in 1..Len(ap) : new[i] \in Seq(Nat)
  <2>1. new \in [1..Len(ap) -> Seq(Nat)]
    BY <1>4, <1>5
  <2> HIDE DEF new
  <2>2. new \in Seq(Seq(Nat)) /\ Len(new) = Len(ap)
    BY <1>3, <2>1, OfLength
  <2> QED
    BY <2>1, <2>2
<1> HIDE DEF new
<1>7. /\ delivered' \in Seq(Seq(Nat)) /\ Len(delivered') = Len(delivered) + Len(ap)
      /\ \A j \in 1..Len(delivered) + Len(ap) :
           delivered'[j] = IF j <= Len(delivered) THEN delivered[j] ELSE new[j - Len(delivered)]
  <2>1. delivered \in Seq(Seq(Nat))
    BY <1>1 DEF PacketTypes
  <2> QED
    BY <1>2, <1>3, <1>6, <2>1
<1>8. Now' = Now
  BY <1>1, <1>2, <1>3, <1>7 DEF Now
<1>9. PacketTypes'
  BY <1>1, <1>2, <1>7 DEF PacketTypes, Stages
<1>10. StreamInv'
  BY <1>1, <1>2 DEF StreamInv, SizeOf
<1>11. ShownInv'
  <2> SUFFICES ASSUME NEW j \in 1..Len(delivered) + Len(ap)
               PROVE  j < Len(ends) /\ delivered'[j] = [k \in 1..SizeOf(j) |-> ends[j] + k]
    BY <1>2, <1>7 DEF ShownInv, SizeOf
  <2>1. CASE j <= Len(delivered)
    <3>1. j \in 1..Len(delivered)
      BY <1>3, <2>1
    <3>2. j < Len(ends) /\ delivered[j] = [k \in 1..SizeOf(j) |-> ends[j] + k]
      BY <1>1, <3>1 DEF ShownInv
    <3>3. delivered'[j] = delivered[j]
      BY <1>7, <2>1
    <3> QED
      BY <3>2, <3>3
  <2>2. CASE ~(j <= Len(delivered))
    <3>1. j - Len(delivered) \in 1..Len(ap) /\ j = Len(delivered) + (j - Len(delivered))
      BY <1>3, <2>2
    <3>2. j < Len(ends) /\ new[j - Len(delivered)] = [k \in 1..SizeOf(j) |-> ends[j] + k]
      BY <1>5, <3>1
    <3>3. delivered'[j] = new[j - Len(delivered)]
      BY <1>7, <2>2
    <3> QED
      BY <3>2, <3>3
  <2> QED
    BY <2>1, <2>2
<1>12. PendingInv'
  BY <1>1, <1>2, <1>8 DEF PendingInv, SizeOf
<1>13. StageInv'
  <2>1. rest' = 0
    BY <1>1, <1>2 DEF StageInv
  <2>2. q1 = 0 => ap = <<>>
    <3> SUFFICES ASSUME q1 = 0, Len(ap) # 0 PROVE FALSE
      BY <1>1 DEF PacketTypes
    <3>1. 1 \in 1..Len(ap)
      BY <1>3
    <3>2. ap[1] + SizeOf(Len(delivered) + 1) <= q1 /\ ap[1] \in Nat /\ SizeOf(Len(delivered) + 1) \in Nat
          /\ SizeOf(Len(delivered) + 1) >= 1
      BY <1>5, <3>1
    <3> QED
      BY <3>2
  <2> QED
    BY <1>2, <2>1, <2>2 DEF StageInv
<1> QED
  BY <1>2, <1>9, <1>10, <1>11, <1>12, <1>13 DEF PacketInv

LEMMA PacketNext_Inv == ASSUME PacketAssumption PROVE PacketInv /\ [PacketNext]_packetVars => PacketInv'
<1> SUFFICES ASSUME PacketInv, [PacketNext]_packetVars PROVE PacketInv'
  OBVIOUS
<1>1. CASE PacketNext
  BY <1>1, PacketSend, PacketUpdate, PacketHeader, PacketCut, PacketKeep, PacketNextHeader, PacketShow DEF PacketNext
<1>2. CASE UNCHANGED packetVars
  BY <1>2 DEF packetVars, PacketInv, PacketTypes, StreamInv, ShownInv, PendingInv, StageInv, KeptInv, Now, SizeOf
<1> QED
  BY <1>1, <1>2

\* The packets that were delivered are those of the stream, whole and in order, however the stream was
\* cut on its way; only a size above the maximum is refused.
THEOREM PacketsKept == ASSUME PacketAssumption PROVE PacketSpec => []PacketsAreTheStream
<1>1. PacketInit => PacketInv
  BY PacketInit_Inv
<1>2. PacketInv /\ [PacketNext]_packetVars => PacketInv'
  BY PacketNext_Inv
<1>3. PacketInv => PacketsAreTheStream
  <2> SUFFICES ASSUME PacketInv PROVE PacketsAreTheStream
    OBVIOUS
  <2>1. DOMAIN delivered = 1..Len(delivered) /\ Len(delivered) \in Nat /\ Len(ap) \in Nat
    BY DEF PacketInv, PacketTypes
  <2>2. \A i \in DOMAIN delivered :
          i < Len(ends) /\ delivered[i] = [k \in 1..SizeOf(i) |-> ends[i] + k]
    BY <2>1 DEF PacketInv, ShownInv
  <2>3. ASSUME stage = "idle"
        PROVE  /\ \A k \in q1..q2 - 1 : pk[k] = ends[Len(delivered) + 1] + k - q1 + 1
               /\ received = ends[Len(delivered) + 1] + q2 - q1
    <3>1. Now = Len(delivered) + 1
      BY <2>1, <2>3 DEF Now
    <3>2. PendingInv /\ rest = 0
      BY <2>3 DEF PacketInv, StageInv
    <3>3. ends[Now] \in Nat /\ received \in Nat /\ q1 \in Nat /\ q2 \in Nat
      BY <2>3, NowTypes
    <3>4. received - 0 = ends[Now] + (q2 - q1)
      BY <3>2 DEF PendingInv
    <3>5. received = ends[Now] + q2 - q1
      BY <3>3, <3>4
    <3> QED
      BY <3>1, <3>2, <3>5 DEF PendingInv
  <2>4. ASSUME stage = "refused" PROVE SizeOf(Len(delivered) + Len(ap) + 1) > MAX_PACKET_SIZE
    BY <2>4 DEF PacketInv, StageInv, Now
  <2> QED
    BY <2>2, <2>3, <2>4 DEF PacketsAreTheStream
<1> QED
  BY <1>1, <1>2, <1>3, PTL DEF PacketSpec
=============================================================================
