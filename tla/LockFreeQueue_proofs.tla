------------------------ MODULE LockFreeQueue_proofs ------------------------
(***************************************************************************)
(* LockFreeQueue, for any number of threads, any capacity, any calls and   *)
(* any timeout.  The key protocol: a key admits one thread at a time       *)
(* unless the queue has QUEUE_TIMEOUT, and it is never lost unless a       *)
(* thread dies or a batch that does not fit is put into a queue without    *)
(* QUEUE_PARTIAL.  The ring: without QUEUE_TIMEOUT the queue implements    *)
(* BoundedFifo, also when threads die, but in the middle of a rewind().    *)
(***************************************************************************)
EXTENDS LockFreeQueue, TLAPS, SequenceTheorems

\* The part of the type invariant that the key protocol rests on.
KeyType ==
  /\ key \in [Sides -> 0..Timeout+1]
  /\ flags \in SUBSET Flags
  /\ CtorFlags \subseteq flags
  /\ pc \in [Threads -> Labels]
  /\ req \in [Threads -> {NoReq} \cup UNION {Calls[t] : t \in Threads}]

\* fetch_add leaves a key that is not 0, so nobody else gets in by adding.
LEMMA BumpPositive ==
  ASSUME NEW k \in 0..Timeout+1
  PROVE  Bump(k) \in 1..Timeout+1
BY QueueAssumption DEF Bump

\* KeyType is inductive.
LEMMA KeyTypeInit == Init => KeyType
BY QueueAssumption DEF Init, KeyType, Sides, Labels

\* Every action of the queue keeps the types of the keys and the places.
LEMMA KeyTypeNext == KeyType /\ [Next]_vars => KeyType'
<1> SUFFICES ASSUME KeyType, [Next]_vars PROVE KeyType'
  OBVIOUS
<1> USE QueueAssumption DEF KeyType, Goto
<1>0. \A t : Side(t) \in Sides
  BY DEF Side, Sides
<1>L. {"idle", "acquire", "exchange", "dead", "leave", "test", "alive", "load", "move",
       "publish", "giveback", "rw_head", "rw_rear", "rw_kput", "rw_done", "rw_kget",
       "rw_back"} = Labels
  BY DEF Labels, InCall, InRewind
<1>1. ASSUME NEW t \in Threads, Begin(t) PROVE KeyType'
  BY <1>1, <1>L DEF Begin
<1>2. ASSUME NEW t \in Threads, Acquire(t) PROVE KeyType'
  <2>1. key' \in [Sides -> 0..Timeout+1]
    BY <1>2, <1>0, BumpPositive DEF Acquire
  <2>2. pc' \in [Threads -> Labels]
    BY <1>2, <1>L DEF Acquire
  <2> QED BY <1>2, <2>1, <2>2 DEF Acquire
<1>3. ASSUME NEW t \in Threads, Exchange(t) PROVE KeyType'
  BY <1>3, <1>0, <1>L DEF Exchange
<1>4. ASSUME NEW t \in Threads, Test(t) \/ MoveOut(t) \/ MoveIn(t) PROVE KeyType'
  BY <1>4, <1>L DEF Test, MoveOut, MoveIn
<1>5. ASSUME NEW t \in Threads, Alive(t) \/ GiveBack(t) PROVE KeyType'
  <2>1. CASE Alive(t)
    BY <2>1, <1>0, <1>L DEF Alive
  <2>2. CASE GiveBack(t)
    <3>1. key' \in [Sides -> 0..Timeout+1]
      BY <2>2, <1>0 DEF GiveBack
    <3> QED BY <2>2, <3>1, <1>L DEF GiveBack, Return
  <2> QED BY <1>5, <2>1, <2>2
<1>6. ASSUME NEW t \in Threads, LoadSingle(t) \/ LoadGet(t) \/ LoadPut(t) PROVE KeyType'
  BY <1>6, <1>L DEF LoadSingle, LoadGet, LoadPut
<1>7. ASSUME NEW t \in Threads, PutDoesNotFit(t) \/ Leave(t) \/ Crash(t) PROVE KeyType'
  BY <1>7, <1>L DEF PutDoesNotFit, Leave, Crash, Return
<1>8. ASSUME NEW t \in Threads, PublishHead(t) \/ PublishRear(t) PROVE KeyType'
  BY <1>8, <1>L DEF PublishHead, PublishRear
<1>9. ASSUME NEW t \in Threads, Rewind(t) PROVE KeyType'
  <2>1. CASE RewindKget(t)
    <3>1. key' \in [Sides -> 0..Timeout+1]
      BY <2>1, BumpPositive DEF RewindKget, Sides
    <3> QED BY <2>1, <3>1, <1>L DEF RewindKget
  <2>2. CASE ~RewindKget(t)
    BY <1>9, <2>2, <1>L DEF Rewind, RewindBack, RewindHead, RewindRear, RewindGiveKput,
         RewindGiveKget, Return, Sides
  <2> QED BY <2>1, <2>2
<1>10. CASE UNCHANGED vars
  BY <1>10 DEF vars
<1> QED
  BY <1>1, <1>2, <1>3, <1>4, <1>5, <1>6, <1>7, <1>8, <1>9, <1>10 DEF Next, Step

-----------------------------------------------------------------------------
\* Mutual exclusion is inductive together with: a held key is not 0.
KeyHeld == \A s \in Sides : \A t \in Threads : Holds(t, s) => key[s] # 0

Exclusion == KeyType /\ ("TIMEOUT" \notin flags => KeyHeld /\ OneInside)

\* How a step of t may change who holds the keys: the others are not touched;
\* t comes in only on a key that is 0, which it leaves nonzero; a key becomes 0
\* only when its holder t goes out.
KeyStep(t) ==
  /\ \A u \in Threads \ {t} : \A s \in Sides : Holds(u, s)' => Holds(u, s)
  /\ \A s \in Sides : Holds(t, s)' => Holds(t, s) \/ key[s] = 0
  /\ \A s \in Sides : Holds(t, s)' => key'[s] # 0
  /\ \A s \in Sides : key'[s] # 0 \/ key[s] = 0 \/ (Holds(t, s) /\ ~Holds(t, s)')

\* A step that lets its thread in only on a key that is 0, and makes a key 0 only
\* when its thread goes out, keeps the exclusion; no action of the queue is named here.
LEMMA KeyStepPreserves ==
  ASSUME KeyHeld, OneInside, NEW t \in Threads, KeyStep(t)
  PROVE  KeyHeld' /\ OneInside'
<1>1. ASSUME NEW s \in Sides, NEW u \in Threads, Holds(u, s)' PROVE key'[s] # 0
  <2>1. CASE u = t
    BY <1>1, <2>1 DEF KeyStep
  <2>2. CASE u # t
    <3>1. Holds(u, s)
      BY <1>1, <2>2 DEF KeyStep
    <3>2. key[s] # 0 /\ ~Holds(t, s)
      BY <3>1, <2>2 DEF KeyHeld, OneInside
    <3> QED BY <3>2 DEF KeyStep
  <2> QED BY <2>1, <2>2
<1>2. ASSUME NEW s \in Sides, NEW u \in Threads, NEW v \in Threads,
             Holds(u, s)', Holds(v, s)', u # v
      PROVE  FALSE
  <2>1. CASE u # t /\ v # t
    BY <1>2, <2>1 DEF KeyStep, OneInside
  <2>2. ASSUME NEW w \in Threads, w # t, Holds(w, s)', Holds(t, s)' PROVE FALSE
    <3>1. Holds(w, s) /\ key[s] # 0
      BY <2>2 DEF KeyStep, KeyHeld
    <3>2. Holds(t, s)
      BY <2>2, <3>1 DEF KeyStep
    <3> QED BY <2>2, <3>1, <3>2 DEF OneInside
  <2> QED BY <1>2, <2>1, <2>2
<1>3. KeyHeld'
  BY <1>1 DEF KeyHeld, Sides
<1>4. OneInside'
  BY <1>2 DEF OneInside, Sides
<1> QED BY <1>3, <1>4

\* Every action of getq(), putq(), rewind() and every crash is such a step.
LEMMA NextIsKeyStep ==
  ASSUME KeyType, "TIMEOUT" \notin flags, KeyHeld, OneInside, NEW t \in Threads,
         Begin(t) \/ Step(t) \/ Crash(t)
  PROVE  KeyStep(t)
<1> USE QueueAssumption DEF KeyType, KeyStep, Goto, Holds, Side, Sides, InCall, InRewind,
        GetOps, KeyHeld
<1>1. CASE Begin(t)
  BY <1>1 DEF Begin
<1>2. CASE Acquire(t)
  BY <1>2, BumpPositive DEF Acquire
<1>3. CASE Exchange(t)
  BY <1>3 DEF Exchange, ExchangeEnters
<1>4. CASE Test(t) \/ MoveOut(t) \/ MoveIn(t)
  BY <1>4 DEF Test, MoveOut, MoveIn
<1>5. CASE Alive(t)
  BY <1>5 DEF Alive
<1>6. CASE GiveBack(t)
  BY <1>6 DEF GiveBack, Return
<1>7. CASE LoadSingle(t) \/ LoadGet(t) \/ LoadPut(t)
  BY <1>7 DEF LoadSingle, LoadGet, LoadPut
<1>8. CASE PutDoesNotFit(t) \/ Crash(t)
  BY <1>8 DEF PutDoesNotFit, Crash
<1>9. CASE Leave(t)
  BY <1>9 DEF Leave, Return
<1>10. CASE PublishHead(t) \/ PublishRear(t)
  BY <1>10 DEF PublishHead, PublishRear
<1>11. CASE RewindKget(t)
  BY <1>11, BumpPositive DEF RewindKget
<1>12. CASE RewindBack(t) \/ RewindHead(t) \/ RewindRear(t) \/ RewindGiveKput(t)
  BY <1>12 DEF RewindBack, RewindHead, RewindRear, RewindGiveKput
<1>13. CASE RewindGiveKget(t)
  BY <1>13 DEF RewindGiveKget, Return
<1> QED
  BY <1>1, <1>2, <1>3, <1>4, <1>5, <1>6, <1>7, <1>8, <1>9, <1>10, <1>11, <1>12, <1>13
     DEF Step, Rewind

\* The flags are fixed when the queue is built.
LEMMA FlagsFixed == [Next]_vars => flags' = flags
BY DEF Next, Step, Rewind, vars, Begin, Acquire, Exchange, Test, Alive, LoadSingle, LoadGet,
       LoadPut, PutDoesNotFit, Leave, MoveOut, MoveIn, PublishHead, PublishRear, GiveBack,
       RewindKget, RewindBack, RewindHead, RewindRear, RewindGiveKput, RewindGiveKget, Crash

\* Without QUEUE_TIMEOUT no two threads are inside the part of the queue that
\* one key guards: the shared head (rear) is read and stored by one at a time.
THEOREM KeysExclude == Spec => []KeyExclusive
<1>1. Init => Exclusion
  <2> SUFFICES ASSUME Init PROVE Exclusion
    OBVIOUS
  <2>1. \A t \in Threads : \A s \in Sides : ~Holds(t, s)
    BY DEF Init, Holds, InCall, InRewind
  <2> QED BY <2>1, KeyTypeInit DEF Exclusion, KeyHeld, OneInside
<1>2. Exclusion /\ [Next]_vars => Exclusion'
  <2> SUFFICES ASSUME Exclusion, [Next]_vars, "TIMEOUT" \notin flags
               PROVE  KeyHeld' /\ OneInside'
    BY KeyTypeNext, FlagsFixed DEF Exclusion
  <2>1. KeyType /\ KeyHeld /\ OneInside
    BY DEF Exclusion
  <2>2. CASE UNCHANGED vars
    BY <2>1, <2>2 DEF vars, KeyHeld, OneInside, Holds, Side
  <2>3. ASSUME NEW t \in Threads, Begin(t) \/ Step(t) \/ Crash(t)
        PROVE  KeyHeld' /\ OneInside'
    BY <2>1, <2>3, NextIsKeyStep, KeyStepPreserves
  <2> QED BY <2>2, <2>3 DEF Next
<1>3. Exclusion => KeyExclusive
  BY DEF Exclusion, KeyExclusive
<1> QED BY <1>1, <1>2, <1>3, PTL DEF Spec

-----------------------------------------------------------------------------
\* What a step of t may do to a key that is in use: a key becomes nonzero only
\* by letting t in, and t goes out only by storing 0.
KeyReturnedBy(t) ==
  /\ \A u \in Threads \ {t} : \A s \in Sides : Holds(u, s) => Holds(u, s)'
  /\ \A s \in Sides : key'[s] # 0 => key[s] # 0 \/ Holds(t, s)'
  /\ \A s \in Sides : Holds(t, s) /\ ~Holds(t, s)' => key'[s] = 0

\* With QUEUE_PARTIAL every action but a crash gives a key back when it leaves with it.
LEMMA NextReturnsKeys ==
  ASSUME KeyType, "PARTIAL" \in flags, MaxCrash = 0, crashed \in Nat, NEW t \in Threads,
         Begin(t) \/ Step(t) \/ Crash(t)
  PROVE  KeyReturnedBy(t)
<1> USE QueueAssumption DEF KeyType, KeyReturnedBy, Goto, Holds, Side, Sides, InCall, InRewind,
        GetOps
<1>1. CASE Begin(t)
  BY <1>1 DEF Begin
<1>2. CASE Acquire(t)
  BY <1>2, BumpPositive DEF Acquire
<1>3. CASE Exchange(t)
  BY <1>3 DEF Exchange, ExchangeEnters
<1>4. CASE Test(t) \/ MoveOut(t) \/ MoveIn(t)
  BY <1>4 DEF Test, MoveOut, MoveIn
<1>5. CASE Alive(t)
  BY <1>5 DEF Alive
<1>6. CASE GiveBack(t)
  BY <1>6 DEF GiveBack, Return
<1>7. CASE LoadSingle(t) \/ LoadGet(t) \/ LoadPut(t)
  BY <1>7 DEF LoadSingle, LoadGet, LoadPut
<1>8. CASE PutDoesNotFit(t) \/ Crash(t)
  BY <1>8 DEF PutDoesNotFit, Crash
<1>9. CASE Leave(t)
  BY <1>9 DEF Leave, Return
<1>10. CASE PublishHead(t) \/ PublishRear(t)
  BY <1>10 DEF PublishHead, PublishRear
<1>11. CASE RewindKget(t)
  BY <1>11, BumpPositive DEF RewindKget
<1>12. CASE RewindBack(t) \/ RewindHead(t) \/ RewindRear(t) \/ RewindGiveKput(t)
  BY <1>12 DEF RewindBack, RewindHead, RewindRear, RewindGiveKput
<1>13. CASE RewindGiveKget(t)
  BY <1>13 DEF RewindGiveKget, Return
<1> QED
  BY <1>1, <1>2, <1>3, <1>4, <1>5, <1>6, <1>7, <1>8, <1>9, <1>10, <1>11, <1>12, <1>13
     DEF Step, Rewind

\* The number of crashes is a natural number.
LEMMA CrashCount == crashed \in Nat /\ [Next]_vars => crashed' \in Nat
BY QueueAssumption DEF Next, Step, Rewind, vars, Begin, Acquire, Exchange, Test, Alive, LoadSingle, LoadGet,
       LoadPut, PutDoesNotFit, Leave, MoveOut, MoveIn, PublishHead, PublishRear, GiveBack,
       RewindKget, RewindBack, RewindHead, RewindRear, RewindGiveKput, RewindGiveKget, Crash

\* No key is lost in a queue with QUEUE_PARTIAL whose threads stay alive, with or
\* without QUEUE_TIMEOUT: "give back the key".
THEOREM KeysComeBack ==
  ASSUME "PARTIAL" \in CtorFlags, MaxCrash = 0
  PROVE  Spec => []KeyGivenBack
<1> DEFINE Inv == KeyType /\ crashed \in Nat /\ KeyGivenBack
<1>1. Init => Inv
  <2> SUFFICES ASSUME Init PROVE Inv
    OBVIOUS
  <2>1. crashed = 0 /\ \A s \in Sides : key[s] = 0
    BY DEF Init
  <2> QED BY <2>1, KeyTypeInit DEF KeyGivenBack
<1>2. Inv /\ [Next]_vars => Inv'
  <2> SUFFICES ASSUME Inv, [Next]_vars PROVE KeyGivenBack'
    BY KeyTypeNext, CrashCount
  <2>1. "PARTIAL" \in flags
    BY DEF KeyType
  <2>2. CASE UNCHANGED vars
    BY <2>2 DEF vars, KeyGivenBack, Holds, Side
  <2>3. ASSUME NEW t \in Threads, Begin(t) \/ Step(t) \/ Crash(t) PROVE KeyGivenBack'
    <3>1. KeyReturnedBy(t)
      BY <2>1, <2>3, NextReturnsKeys
    <3>2. ASSUME NEW s \in Sides, key'[s] # 0 PROVE \E u \in Threads : Holds(u, s)'
      <4>1. CASE Holds(t, s)'
        BY <4>1
      <4>2. CASE ~Holds(t, s)'
        <5>1. PICK u \in Threads : Holds(u, s)
          BY <3>1, <3>2, <4>2 DEF KeyReturnedBy, KeyGivenBack
        <5>2. u # t
          BY <3>1, <3>2, <4>2, <5>1 DEF KeyReturnedBy
        <5> QED BY <3>1, <5>1, <5>2 DEF KeyReturnedBy
      <4> QED BY <4>1, <4>2
    <3> QED BY <3>2 DEF KeyGivenBack, Sides
  <2> QED BY <2>2, <2>3 DEF Next
<1> QED BY <1>1, <1>2, PTL DEF Spec

-----------------------------------------------------------------------------
(* The ring, without modulo. *)
Dist(h, r) == IF r >= h THEN r - h ELSE r - h + Cap
Place(h, k) == IF h + k < Cap THEN h + k ELSE h + k - Cap
List(h, r, b) == [i \in 1..Dist(h, r) |-> b[Place(h, i - 1)]]

\* A difference of cursors, and an index beyond a cursor, as the mask gives them.
LEMMA MaskOfDifference ==
  ASSUME NEW x \in 0..Cap-1, NEW y \in 0..Cap-1
  PROVE  Mask(x - y) = Dist(y, x) /\ Dist(y, x) \in 0..Cap-1
<1> USE QueueAssumption
<1>1. CASE x >= y
  BY <1>1 DEF Mask, Dist
<1>2. CASE x < y
  BY <1>2 DEF Mask, Dist
<1> QED BY <1>1, <1>2

LEMMA MaskOfSum ==
  ASSUME NEW x \in 0..Cap-1, NEW k \in 0..Cap
  PROVE  Mask(x + k) = Place(x, k) /\ Place(x, k) \in 0..Cap-1
<1> USE QueueAssumption
<1>1. CASE x + k < Cap
  BY <1>1 DEF Mask, Place
<1>2. CASE x + k >= Cap
  BY <1>2 DEF Mask, Place
<1> QED BY <1>1, <1>2

\* The slot of the i-th element from a cursor on.
LEMMA MaskOfIndex ==
  ASSUME NEW x \in 0..Cap-1, NEW i \in 1..Cap
  PROVE  Mask(x + i - 1) = Place(x, i - 1) /\ Place(x, i - 1) \in 0..Cap-1
<1>1. x + i - 1 = x + (i - 1) /\ i - 1 \in 0..Cap
  BY QueueAssumption
<1> QED BY <1>1, MaskOfSum

\* The room a batch put computes.
LEMMA MaskOfRoom ==
  ASSUME NEW h \in 0..Cap-1, NEW r \in 0..Cap-1
  PROVE  Mask(h - r - 1) = Cap - 1 - Dist(h, r)
<1> USE QueueAssumption
<1>1. CASE h - r - 1 >= 0
  BY <1>1 DEF Mask, Dist
<1>2. CASE h - r - 1 < 0
  BY <1>2 DEF Mask, Dist
<1> QED BY <1>1, <1>2

\* The list is a sequence of as many values as the cursors are apart.
LEMMA ListFacts ==
  ASSUME NEW h \in 0..Cap-1, NEW r \in 0..Cap-1, NEW b \in [0..Cap-1 -> Values]
  PROVE  /\ [i \in 1..Mask(r - h) |-> b[Mask(h + i - 1)]] = List(h, r, b)
         /\ List(h, r, b) \in Seq(Values) /\ Len(List(h, r, b)) = Dist(h, r)
         /\ Dist(h, r) \in 0..Cap-1
<1>1. Mask(r - h) = Dist(h, r) /\ Dist(h, r) \in 0..Cap-1
  BY MaskOfDifference
<1>2. \A i \in 1..Dist(h, r) : /\ Mask(h + i - 1) = Place(h, i - 1)
                               /\ Place(h, i - 1) \in 0..Cap-1
  <2>1. \A i \in 1..Dist(h, r) : i \in 1..Cap
    BY <1>1, QueueAssumption
  <2> QED BY <2>1, MaskOfIndex
<1>3. [i \in 1..Mask(r - h) |-> b[Mask(h + i - 1)]] = List(h, r, b)
  BY <1>1, <1>2 DEF List
<1>4. \A i \in 1..Dist(h, r) : List(h, r, b)[i] \in Values
  BY <1>2 DEF List
<1>5. List(h, r, b) = [i \in 1..Dist(h, r) |-> List(h, r, b)[i]] /\ Dist(h, r) \in Nat
  BY <1>1 DEF List
<1> QED BY <1>1, <1>3, <1>4, <1>5

\* Taking the first c elements: the head moves on by c.
LEMMA HeadMoves ==
  ASSUME NEW h \in 0..Cap-1, NEW r \in 0..Cap-1, NEW c \in 0..Dist(h, r)
  PROVE  /\ Place(h, c) \in 0..Cap-1
         /\ Dist(Place(h, c), r) = Dist(h, r) - c
         /\ \A k \in 0..Dist(h, r)-c : Place(Place(h, c), k) = Place(h, c + k)
<1> USE QueueAssumption DEF Dist, Place
<1>1. CASE r >= h
  BY <1>1
<1>2. CASE r < h
  BY <1>2
<1> QED BY <1>1, <1>2

\* Adding c elements: the rear moves on by c.
LEMMA RearMoves ==
  ASSUME NEW h \in 0..Cap-1, NEW r \in 0..Cap-1, NEW c \in 0..Cap-1-Dist(h, r)
  PROVE  /\ Place(r, c) \in 0..Cap-1
         /\ Dist(h, Place(r, c)) = Dist(h, r) + c
         /\ \A k \in 0..Cap-1-Dist(h, r) : Place(h, Dist(h, r) + k) = Place(r, k)
<1> USE QueueAssumption DEF Dist, Place
<1>1. CASE r >= h
  BY <1>1
<1>2. CASE r < h
  BY <1>2
<1> QED BY <1>1, <1>2

\* The free slots from the rear on hold no element.
LEMMA FreeSlots ==
  ASSUME NEW h \in 0..Cap-1, NEW r \in 0..Cap-1,
         NEW k \in 0..Cap-2-Dist(h, r), NEW i \in 1..Dist(h, r)
  PROVE  Place(r, k) # Place(h, i - 1)
<1> USE QueueAssumption DEF Dist, Place
<1>1. CASE r >= h
  BY <1>1
<1>2. CASE r < h
  BY <1>2
<1> QED BY <1>1, <1>2

\* A slot is as far beyond a cursor as its distance from it says.
LEMMA SlotAtDistance ==
  ASSUME NEW r \in 0..Cap-1, NEW k \in 0..Cap-1
  PROVE  Dist(r, Place(r, k)) = k /\ Place(r, Dist(r, k)) = k
BY QueueAssumption DEF Dist, Place

\* kn splits a batch at the end of the ring where the mask would.
LEMMA SlotIsPlace ==
  ASSUME NEW t \in Threads, NEW c \in 0..Cap-1, cnt[t] \in 1..Cap-1, NEW i \in 1..cnt[t],
         IF Single(t) THEN cnt[t] = 1 /\ c = IF Side(t) = "get" THEN head ELSE rear
         ELSE c = at[t]
  PROVE  Slot(t, i) = Place(c, i - 1) /\ Place(c, i - 1) \in 0..Cap-1
<1> USE QueueAssumption
<1>1. CASE Single(t)
  BY <1>1 DEF Slot, Place
<1>2. CASE ~Single(t)
  BY <1>2 DEF Slot, Beyond, Place
<1> QED BY <1>1, <1>2

LEMMA AdvancedIsPlace ==
  ASSUME NEW t \in Threads, at[t] \in 0..Cap-1, cnt[t] \in 1..Cap-1, Single(t) => cnt[t] = 1
  PROVE  Advanced(t) = Place(at[t], cnt[t]) /\ Place(at[t], cnt[t]) \in 0..Cap-1
<1> USE QueueAssumption
<1>1. CASE Single(t)
  <2>1. Advanced(t) = Mask(at[t] + 1) /\ cnt[t] = 1
    BY <1>1 DEF Advanced
  <2>2. 1 \in 0..Cap
    OBVIOUS
  <2>3. Mask(at[t] + 1) = Place(at[t], 1) /\ Place(at[t], 1) \in 0..Cap-1
    BY <2>2, MaskOfSum
  <2> QED BY <2>1, <2>3
<1>2. CASE ~Single(t) /\ Beyond(t) > 0
  BY <1>2 DEF Advanced, Beyond, Place
<1>3. CASE ~Single(t) /\ ~(Beyond(t) > 0)
  <2>1. Advanced(t) = Mask(at[t] + cnt[t] - Cap)
    BY <1>3 DEF Advanced, Beyond
  <2>2. CASE at[t] + cnt[t] = Cap
    BY <2>1, <2>2 DEF Mask, Place
  <2>3. CASE at[t] + cnt[t] < Cap
    BY <2>1, <2>3 DEF Mask, Place
  <2>4. at[t] + cnt[t] <= Cap
    BY <1>3 DEF Beyond
  <2> QED BY <2>2, <2>3, <2>4
<1> QED BY <1>1, <1>2, <1>3

-----------------------------------------------------------------------------
(* What a thread inside its call knows of the ring, and of its own locals. *)

\* The types of the cursors, the slots and the locals.
RingType ==
  /\ head \in 0..Cap-1 /\ rear \in 0..Cap-1
  /\ buffer \in [0..Cap-1 -> Values]
  /\ at \in [Threads -> 0..Cap-1]
  /\ cnt \in [Threads -> Nat]
  /\ DOMAIN tmp = Threads /\ DOMAIN ret = Threads
  /\ crashed \in Nat

RewindLabels == {"rw_kget", "rw_back", "rw_head", "rw_rear", "rw_kput", "rw_done"}

\* A thread's place fits its call, and it has answered only when it is about to return.
CallInv(t) ==
  /\ pc[t] # "idle" => req[t] \in Calls[t]
  /\ pc[t] \in RewindLabels => req[t].op = "rewind"
  /\ pc[t] \in InCall \cup {"exchange", "leave"} => req[t].op # "rewind"
  /\ pc[t] \notin {"giveback", "leave", "dead"} => ret[t] = None
  /\ pc[t] \in {"acquire", "exchange", "test", "alive", "load", "rw_kget", "rw_back"} =>
       cnt[t] = req[t].n
  /\ pc[t] \in {"move", "publish"} /\ req[t].op \in {"getq", "putq"} => cnt[t] = 1

Elements == Dist(head, rear)
Room == Cap - 1 - Dist(head, rear)

\* What a getter's test of the rear, and its copy of the elements, still guarantee
\* when it moves them and advances the head.
GetterInv(t) ==
  /\ pc[t] \in {"load", "move"} => Elements >= 1
  /\ pc[t] \in {"move", "publish"} => cnt[t] \in 1..Elements
  /\ pc[t] = "publish" \/ (pc[t] = "move" /\ ~Single(t)) => at[t] = head
  /\ pc[t] = "publish" => tmp[t] = [i \in 1..cnt[t] |-> buffer[Place(head, i - 1)]]
  /\ pc[t] = "load" /\ Single(t) => tmp[t] = [i \in 1..1 |-> buffer[Place(head, i - 1)]]

\* The same for a putter and the slots it has filled.
PutterInv(t) ==
  /\ pc[t] \in {"load", "move"} => Room >= 1
  /\ pc[t] \in {"move", "publish"} => cnt[t] \in 1..Room /\ cnt[t] <= Len(req[t].batch)
  /\ pc[t] = "publish" \/ (pc[t] = "move" /\ ~Single(t)) => at[t] = rear
  /\ pc[t] = "publish" =>
       \A i \in 1..cnt[t] : buffer[Place(rear, i - 1)] = req[t].batch[i]
  /\ pc[t] = "load" /\ Single(t) => buffer[rear] = req[t].batch[1]

\* A thread that rewinds has both sides to itself.
RewinderInv(t) ==
  /\ pc[t] \in {"rw_rear", "rw_kput"} => head = 0
  /\ pc[t] = "rw_kput" => rear = 0

InsideInv(t) == /\ Side(t) = "get" => GetterInv(t)
                /\ Side(t) = "put" => PutterInv(t)
                /\ RewinderInv(t)

QueueInv == /\ RingType
            /\ \A t \in Threads : CallInv(t) /\ InsideInv(t)

\* A request's operation, and how much it is for.
LEMMA Requests ==
  ASSUME NEW t \in Threads, NEW r \in Calls[t]
  PROVE  /\ r.op \in {"getq", "getn", "peek", "putq", "putn", "rewind"}
         /\ r.batch \in Seq(Values) /\ Len(r.batch) \in Nat
         /\ \A i \in 1..Len(r.batch) : r.batch[i] \in Values
         /\ r.n \in Nat
         /\ r.op \in PutOps => r.n = Len(r.batch)
         /\ r.op # "rewind" => r.n >= 1
         /\ r.op \in {"getq", "putq"} => r.n = 1
<1>1. IsRequest(r)
  BY QueueAssumption
<1>2. Len(r.batch) \in Nat /\ \A i \in 1..Len(r.batch) : r.batch[i] \in Values
  BY <1>1, ElementOfSeq, LenProperties DEF IsRequest
<1> QED BY <1>1, <1>2 DEF IsRequest, GetOps, PutOps

\* How a step of t may change the ring: only its own side's cursor, to the end of what
\* it moved; only slots that hold no element; or everything, when it rewinds.
RingStep(t) ==
  \/ UNCHANGED <<head, rear, buffer>>
  \/ /\ Holds(t, "put") /\ UNCHANGED <<head, rear>>
     /\ \E c \in 1..Room :
          \A k \in 0..Cap-1 : (\A i \in 1..c : k # Place(rear, i - 1)) => buffer'[k] = buffer[k]
  \/ /\ Holds(t, "put") /\ UNCHANGED <<head, buffer>>
     /\ \E c \in 1..Room : rear' = Place(rear, c)
  \/ /\ Holds(t, "get") /\ UNCHANGED <<rear, buffer>>
     /\ \E c \in 1..Elements : head' = Place(head, c)
  \/ Holds(t, "get") /\ Holds(t, "put")

\* The other threads stay where they are, with their locals.
OthersStay(t) ==
  \A u \in Threads \ {t} : /\ pc'[u] = pc[u] /\ req'[u] = req[u] /\ at'[u] = at[u]
                           /\ cnt'[u] = cnt[u] /\ tmp'[u] = tmp[u] /\ ret'[u] = ret[u]

\* The holder of a key, from what it is doing.
LEMMA InsideHolds ==
  ASSUME NEW t \in Threads, pc[t] \in {"load", "move", "publish"}
  PROVE  Holds(t, Side(t))
BY DEF Holds, InCall

\* What one thread does to the ring keeps what the others know of it.
LEMMA OthersKept ==
  ASSUME QueueInv, RingType', OneInside, NEW t \in Threads, RingStep(t), OthersStay(t),
         NEW u \in Threads, u # t
  PROVE  CallInv(u)' /\ InsideInv(u)'
<1>0. /\ pc'[u] = pc[u] /\ req'[u] = req[u] /\ at'[u] = at[u]
      /\ cnt'[u] = cnt[u] /\ tmp'[u] = tmp[u] /\ ret'[u] = ret[u]
  BY DEF OthersStay
<1>1. CallInv(u)'
  BY <1>0 DEF QueueInv, CallInv
<1>2. (Single(u)' <=> Single(u)) /\ Side(u)' = Side(u)
  BY <1>0 DEF Side, Single
<1>3. QueueInv /\ InsideInv(u) /\ RingType
  BY DEF QueueInv
<1>t. /\ head \in 0..Cap-1 /\ rear \in 0..Cap-1 /\ cnt[u] \in Nat
      /\ Elements \in 0..Cap-1 /\ Room \in 0..Cap-1
  <2>1. head \in 0..Cap-1 /\ rear \in 0..Cap-1 /\ cnt[u] \in Nat
    BY <1>3 DEF RingType
  <2>2. Dist(head, rear) \in 0..Cap-1
    BY <2>1, MaskOfDifference
  <2> QED BY <2>1, <2>2, QueueAssumption DEF Elements, Room
<1>4. ASSUME Side(u) = "get", pc[u] \in {"load", "move", "publish"} PROVE GetterInv(u)'
  <2>1. Holds(u, "get")
    BY <1>4, InsideHolds
  <2>2. ~Holds(t, "get") /\ GetterInv(u)
    BY <1>3, <1>4, <2>1 DEF OneInside, Sides, InsideInv
  <2>3. CASE UNCHANGED <<head, rear, buffer>>
    BY <1>0, <1>2, <2>2, <2>3 DEF GetterInv, Elements
  <2>4. CASE /\ UNCHANGED <<head, rear>>
             /\ \E c \in 1..Room :
                  \A k \in 0..Cap-1 : (\A i \in 1..c : k # Place(rear, i - 1)) => buffer'[k] = buffer[k]
    <3>1. ASSUME NEW i \in 1..Elements PROVE buffer'[Place(head, i - 1)] = buffer[Place(head, i - 1)]
      <4>1. PICK c \in 1..Room :
               \A k \in 0..Cap-1 : (\A j \in 1..c : k # Place(rear, j - 1)) => buffer'[k] = buffer[k]
        BY <2>4
      <4>2. Place(head, i - 1) \in 0..Cap-1
        <5>1. i \in 1..Cap
          BY <1>t, QueueAssumption
        <5> QED BY <1>t, <5>1, MaskOfIndex
      <4>3. ASSUME NEW j \in 1..c PROVE Place(head, i - 1) # Place(rear, j - 1)
        <5>1. j - 1 \in 0..Cap-2-Dist(head, rear) /\ i \in 1..Dist(head, rear)
          BY <1>t, QueueAssumption DEF Elements, Room
        <5> QED BY <1>t, <5>1, FreeSlots
      <4> QED BY <4>1, <4>2, <4>3
    <3>2. Elements' = Elements /\ head' = head
      BY <2>4 DEF Elements
    <3>3. \A c \in 1..Elements : [i \in 1..c |-> buffer'[Place(head', i - 1)]]
                                   = [i \in 1..c |-> buffer[Place(head, i - 1)]]
      BY <1>t, <3>1, <3>2
    <3>4. pc[u] = "publish" => cnt[u] \in 1..Elements
      BY <2>2 DEF GetterInv
    <3>5. pc[u] = "load" => 1 \in 1..Elements
      BY <1>t, <2>2 DEF GetterInv
    <3> QED BY <1>0, <1>2, <2>2, <3>2, <3>3, <3>4, <3>5 DEF GetterInv
  <2>5. CASE UNCHANGED <<head, buffer>> /\ \E c \in 1..Room : rear' = Place(rear, c)
    <3>1. PICK c \in 1..Room : rear' = Place(rear, c)
      BY <2>5
    <3>2. Elements' = Elements + c /\ c \in Nat
      BY <1>t, <2>5, <3>1, RearMoves DEF Elements, Room
    <3>3. GetterInv(u) => GetterInv(u)'
      BY <1>0, <1>2, <1>t, <2>5, <3>2 DEF GetterInv
    <3> QED BY <2>2, <3>3
  <2> QED BY <2>2, <2>3, <2>4, <2>5 DEF RingStep
<1>5. ASSUME Side(u) = "put", pc[u] \in {"load", "move", "publish"} PROVE PutterInv(u)'
  <2>1. Holds(u, "put")
    BY <1>5, InsideHolds
  <2>2. ~Holds(t, "put") /\ PutterInv(u)
    BY <1>3, <1>5, <2>1 DEF OneInside, Sides, InsideInv
  <2>3. CASE UNCHANGED <<head, rear, buffer>>
    BY <1>0, <1>2, <2>2, <2>3 DEF PutterInv, Room
  <2>4. CASE UNCHANGED <<rear, buffer>> /\ \E c \in 1..Elements : head' = Place(head, c)
    <3>1. PICK c \in 1..Elements : head' = Place(head, c)
      BY <2>4
    <3>2. Room' = Room + c /\ c \in Nat
      <4>1. Dist(Place(head, c), rear) = Dist(head, rear) - c /\ c \in Nat
        BY <1>t, HeadMoves DEF Elements
      <4> QED BY <1>t, <2>4, <3>1, <4>1, QueueAssumption DEF Elements, Room
    <3>3. PutterInv(u) => PutterInv(u)'
      BY <1>0, <1>2, <1>t, <2>4, <3>2 DEF PutterInv
    <3> QED BY <2>2, <3>3
  <2> QED BY <2>2, <2>3, <2>4 DEF RingStep
<1>6. RewinderInv(u)'
  <2>1. CASE pc[u] \in {"rw_rear", "rw_kput"}
    <3>1. Holds(u, "get") /\ Holds(u, "put")
      BY <2>1 DEF Holds, InRewind
    <3>2. UNCHANGED <<head, rear>>
      BY <3>1 DEF OneInside, Sides, RingStep
    <3> QED BY <1>0, <1>3, <3>2 DEF RewinderInv, InsideInv
  <2>2. CASE pc[u] \notin {"rw_rear", "rw_kput"}
    BY <1>0, <2>2 DEF RewinderInv
  <2> QED BY <2>1, <2>2
<1>7. pc[u] \notin {"load", "move", "publish"} => GetterInv(u)' /\ PutterInv(u)'
  BY <1>0 DEF GetterInv, PutterInv
<1> QED BY <1>1, <1>2, <1>4, <1>5, <1>6, <1>7 DEF InsideInv

-----------------------------------------------------------------------------
(* Every action keeps the invariant. *)

\* What has to be shown of a step of t.
GoodStep(t) == /\ RingType' /\ RingStep(t) /\ OthersStay(t)
               /\ CallInv(t)' /\ InsideInv(t)'

\* The cursors are less than Cap apart.
LEMMA Counts ==
  ASSUME RingType
  PROVE  /\ Elements \in 0..Cap-1 /\ Room \in 0..Cap-1 /\ Room = Cap - 1 - Elements
         /\ (head = rear <=> Elements = 0)
         /\ (Mask(rear + 1) = head <=> Room = 0)
         /\ Mask(rear - head) = Elements
         /\ Mask(head - rear - 1) = Room
<1>1. head \in 0..Cap-1 /\ rear \in 0..Cap-1 /\ Cap \in Nat /\ Cap >= 2
  BY QueueAssumption DEF RingType
<1>2. Dist(head, rear) \in 0..Cap-1 /\ Mask(rear - head) = Dist(head, rear)
  BY <1>1, MaskOfDifference
<1>3. Mask(head - rear - 1) = Cap - 1 - Dist(head, rear)
  BY <1>1, MaskOfRoom
<1>4. Mask(rear + 1) = Place(rear, 1)
  BY <1>1, MaskOfSum
<1>5. (head = rear <=> Dist(head, rear) = 0) /\ (Place(rear, 1) = head <=> Dist(head, rear) = Cap - 1)
  BY <1>1 DEF Dist, Place
<1> QED BY <1>1, <1>2, <1>3, <1>4, <1>5 DEF Elements, Room

\* The steps from a call's beginning to its test, and those with which it ends or
\* is broken off, touch neither the ring nor anything an invariant knows of it.
LEMMA OuterSteps ==
  ASSUME KeyType, QueueInv, NEW t \in Threads,
         \/ Begin(t) \/ Acquire(t) \/ Exchange(t) \/ Alive(t) \/ Leave(t) \/ GiveBack(t)
         \/ PutDoesNotFit(t) \/ RewindKget(t) \/ RewindBack(t) \/ RewindGiveKget(t)
         \/ RewindGiveKput(t) \/ Crash(t)
  PROVE  GoodStep(t)
<1> DEFINE Dull == {"load", "move", "publish", "rw_rear", "rw_kput"}
<1> USE DEF KeyType, QueueInv, RingType, Goto
<1>1. RingType' /\ RingStep(t)
  <2>1. UNCHANGED <<head, rear, buffer>>
    BY DEF Begin, Acquire, Exchange, Alive, Leave, GiveBack, PutDoesNotFit, RewindKget, RewindBack,
           RewindGiveKget, RewindGiveKput, Crash
  <2>2. crashed' \in Nat
    BY DEF Begin, Acquire, Exchange, Alive, Leave, GiveBack, PutDoesNotFit, RewindKget, RewindBack,
           RewindGiveKget, RewindGiveKput, Crash
  <2>3. at' \in [Threads -> 0..Cap-1] /\ DOMAIN tmp' = Threads /\ DOMAIN ret' = Threads
    <3>1. CASE Leave(t) \/ GiveBack(t) \/ RewindGiveKget(t)
      <4>1. 0 \in 0..Cap-1
        BY QueueAssumption
      <4>2. Return(t)
        BY <3>1 DEF Leave, GiveBack, RewindGiveKget
      <4> QED BY <4>1, <4>2 DEF Return
    <3>2. CASE PutDoesNotFit(t)
      BY <3>2 DEF PutDoesNotFit, Answer, locals
    <3> QED BY <3>1, <3>2 DEF Begin, Acquire, Exchange, Alive, RewindKget, RewindBack,
                              RewindGiveKput, Crash, locals
  <2>4. cnt' \in [Threads -> Nat]
    <3>1. CASE Begin(t)
      BY <3>1, Requests DEF Begin
    <3>2. CASE Leave(t) \/ GiveBack(t) \/ RewindGiveKget(t)
      BY <3>2 DEF Leave, GiveBack, RewindGiveKget, Return
    <3> QED BY <3>1, <3>2 DEF Acquire, Exchange, Alive, PutDoesNotFit, RewindKget, RewindBack,
                              RewindGiveKput, Crash, locals
  <2> QED BY <2>1, <2>2, <2>3, <2>4 DEF RingStep
<1>2. OthersStay(t)
  <2> USE DEF OthersStay
  <2>1. CASE Begin(t) \/ PutDoesNotFit(t)
    BY <2>1 DEF Begin, PutDoesNotFit, locals, Answer
  <2>2. CASE Leave(t) \/ GiveBack(t) \/ RewindGiveKget(t)
    BY <2>2 DEF Leave, GiveBack, RewindGiveKget, Return
  <2>3. CASE Acquire(t) \/ Exchange(t) \/ Alive(t) \/ Crash(t)
    BY <2>3 DEF Acquire, Exchange, Alive, Crash, locals
  <2>4. CASE RewindKget(t) \/ RewindBack(t) \/ RewindGiveKput(t)
    BY <2>4 DEF RewindKget, RewindBack, RewindGiveKput, locals
  <2> QED BY <2>1, <2>2, <2>3, <2>4
<1>3. pc'[t] \notin Dull
  BY DEF Begin, Acquire, Exchange, Alive, Leave, GiveBack, PutDoesNotFit, RewindKget, RewindBack,
         RewindGiveKget, RewindGiveKput, Crash, Return
<1>4. InsideInv(t)'
  BY <1>3 DEF InsideInv, GetterInv, PutterInv, RewinderInv
<1>5. CallInv(t)'
  <2> USE DEF CallInv, InCall, RewindLabels, None
  <2>0. CallInv(t)
    OBVIOUS
  <2>1. CASE Begin(t)
    BY <2>0, <2>1 DEF Begin
  <2>2. CASE Acquire(t)
    BY <2>0, <2>2 DEF Acquire, locals
  <2>3. CASE Exchange(t)
    BY <2>0, <2>3 DEF Exchange, locals
  <2>4. CASE Alive(t)
    BY <2>0, <2>4 DEF Alive, locals
  <2>5. CASE Leave(t) \/ GiveBack(t) \/ RewindGiveKget(t)
    BY <2>0, <2>5 DEF Leave, GiveBack, RewindGiveKget, Return
  <2>6. CASE PutDoesNotFit(t)
    BY <2>0, <2>6 DEF PutDoesNotFit, locals
  <2>7. CASE RewindKget(t) \/ RewindGiveKput(t)
    BY <2>0, <2>7 DEF RewindKget, RewindGiveKput, locals
  <2>9. CASE RewindBack(t)
    BY <2>0, <2>9 DEF RewindBack, locals
  <2>8. CASE Crash(t)
    BY <2>0, <2>8 DEF Crash, locals
  <2> QED BY <2>1, <2>2, <2>3, <2>4, <2>5, <2>6, <2>7, <2>8, <2>9
<1> QED BY <1>1, <1>2, <1>4, <1>5 DEF GoodStep

\* The test, the loads of a cursor and the copy out of the ring leave the ring alone;
\* what they found is what the invariant says of their thread.
LEMMA ReadingSteps ==
  ASSUME KeyType, QueueInv, NEW t \in Threads,
         Test(t) \/ LoadSingle(t) \/ LoadGet(t) \/ LoadPut(t) \/ MoveOut(t)
  PROVE  GoodStep(t)
<1> USE DEF KeyType, QueueInv, RingType, Goto
<1>0. /\ CallInv(t) /\ InsideInv(t) /\ RingType /\ req[t] \in Calls[t]
      /\ req[t].op # "rewind"
  BY DEF CallInv, Test, LoadSingle, LoadGet, LoadPut, MoveOut, InCall
<1>t. /\ Elements \in Nat /\ Room \in Nat /\ Cap \in Nat
      /\ (head = rear <=> Elements = 0)
      /\ (Mask(rear + 1) = head <=> Room = 0)
      /\ Mask(rear - head) = Elements /\ Mask(head - rear - 1) = Room
  BY <1>0, Counts, QueueAssumption
<1>r. /\ req[t].op \in {"getq", "getn", "peek", "putq", "putn"}
      /\ req[t].n \in Nat /\ req[t].n >= 1
      /\ Single(t) => req[t].n = 1
      /\ Side(t) = "put" => req[t].n = Len(req[t].batch)
      /\ Side(t) = "get" \/ Side(t) = "put"
  <2>1. /\ req[t].op \in {"getq", "getn", "peek", "putq", "putn"}
        /\ req[t].n \in Nat /\ req[t].n >= 1
        /\ req[t].op \in {"getq", "putq"} => req[t].n = 1
        /\ req[t].op \in PutOps => req[t].n = Len(req[t].batch)
    BY <1>0, Requests
  <2> QED BY <2>1 DEF Single, Side, GetOps, PutOps
<1>1. UNCHANGED <<head, rear, buffer, crashed, req>>
  BY DEF Test, LoadSingle, LoadGet, LoadPut, MoveOut
<1>2. RingType' /\ RingStep(t)
  <2>1. at' \in [Threads -> 0..Cap-1] /\ DOMAIN tmp' = Threads /\ DOMAIN ret' = Threads
    BY DEF Test, LoadSingle, LoadGet, LoadPut, MoveOut, locals, Answer
  <2>2. cnt' \in [Threads -> Nat]
    <3>1. \A c \in Nat : Lesser(Elements, c) \in Nat /\ Lesser(Room, c) \in Nat
      BY <1>t DEF Lesser
    <3>2. CASE LoadGet(t)
      BY <1>t, <3>1, <3>2 DEF LoadGet
    <3>3. CASE LoadPut(t)
      BY <1>t, <3>1, <3>3 DEF LoadPut
    <3> QED BY <3>2, <3>3 DEF Test, LoadSingle, MoveOut, locals
  <2> QED BY <1>1, <2>1, <2>2 DEF RingStep
<1>3. OthersStay(t)
  BY DEF Test, LoadSingle, LoadGet, LoadPut, MoveOut, locals, Answer, OthersStay
<1>4. CallInv(t)' /\ pc'[t] \notin RewindLabels
  <2> USE DEF CallInv, InCall, RewindLabels, None
  <2>1. CASE Test(t)
    BY <1>0, <1>r, <2>1 DEF Test, locals, Answer, Single
  <2>2. CASE LoadSingle(t)
    BY <1>0, <1>r, <2>2 DEF LoadSingle, Single
  <2>3. CASE LoadGet(t)
    BY <1>0, <2>3 DEF LoadGet, Single
  <2>4. CASE LoadPut(t)
    BY <1>0, <2>4 DEF LoadPut, Single
  <2>5. CASE MoveOut(t)
    <3>1. req[t].op \in {"getq", "putq"} => cnt[t] = 1 /\ req[t].n = 1
      BY <1>0, <1>r, <2>5 DEF MoveOut, Single
    <3> QED BY <1>0, <2>5, <3>1 DEF MoveOut, Single
  <2> QED BY <2>1, <2>2, <2>3, <2>4, <2>5
<1>5. Side(t)' = Side(t) /\ (Single(t)' <=> Single(t)) /\ req'[t] = req[t] /\ RewinderInv(t)'
  BY <1>1, <1>4 DEF Side, Single, RewinderInv, RewindLabels
<1>6. Elements' = Elements /\ Room' = Room /\ head' = head /\ rear' = rear /\ buffer' = buffer
  BY <1>1 DEF Elements, Room
<1>7. InsideInv(t)'
  <2>1. CASE Test(t)
    <3>1. /\ UNCHANGED <<at, cnt, tmp>> /\ cnt[t] = req[t].n
          /\ pc'[t] = "move" => Single(t)
          /\ pc'[t] \in {"move", "load"} => ~Blocked(t)
          /\ pc'[t] # "publish"
          /\ pc'[t] = "load" => ~Single(t)
      BY <1>0, <2>1 DEF Test, locals, CallInv
    <3>2. ~Blocked(t) => (Side(t) = "get" => Elements >= 1) /\ (Side(t) = "put" => Room >= 1)
      BY <1>t DEF Blocked
    <3>3. Side(t) = "get" => GetterInv(t)'
      BY SMTT(30), <1>r, <1>t, <1>5, <1>6, <3>1, <3>2 DEF GetterInv
    <3>4. Side(t) = "put" => PutterInv(t)'
      BY <1>r, <1>t, <1>5, <1>6, <3>1, <3>2 DEF PutterInv
    <3> QED BY <1>5, <3>3, <3>4 DEF InsideInv
  <2>2. CASE LoadSingle(t)
    <3>1. /\ UNCHANGED <<cnt, tmp>> /\ cnt[t] = 1 /\ Single(t)
          /\ pc[t] = "load" /\ pc'[t] = "publish"
          /\ at'[t] = IF Side(t) = "get" THEN head ELSE rear
      BY <1>0, <1>r, <2>2 DEF LoadSingle, CallInv
    <3>2. Side(t) = "get" => GetterInv(t)'
      BY <1>0, <1>r, <1>t, <1>5, <1>6, <3>1 DEF GetterInv, InsideInv
    <3>3. Side(t) = "put" => PutterInv(t)'
      <4> SUFFICES ASSUME Side(t) = "put" PROVE PutterInv(t)'
        OBVIOUS
      <4>1. buffer[rear] = req[t].batch[1] /\ Room >= 1
        BY <1>0, <3>1 DEF PutterInv, InsideInv
      <4>2. Place(rear, 1 - 1) = rear
        BY QueueAssumption DEF Place
      <4>3. \A i \in 1..1 : buffer[Place(rear, i - 1)] = req[t].batch[i]
        BY <4>1, <4>2
      <4> QED BY <1>r, <1>t, <1>5, <1>6, <3>1, <4>1, <4>3 DEF PutterInv
    <3> QED BY <1>5, <3>2, <3>3 DEF InsideInv
  <2>3. CASE LoadGet(t)
    <3>1. /\ ~Single(t) /\ Side(t) = "get" /\ pc[t] = "load" /\ pc'[t] = "move"
          /\ at'[t] = head /\ cnt'[t] = Lesser(Elements, req[t].n)
      BY <1>0, <1>t, <2>3 DEF LoadGet, CallInv
    <3>2. Elements >= 1
      BY <1>0, <3>1 DEF InsideInv, GetterInv
    <3>3. cnt'[t] \in 1..Elements
      BY <1>r, <1>t, <3>1, <3>2 DEF Lesser
    <3>4. GetterInv(t)'
      BY <1>5, <1>6, <3>1, <3>2, <3>3 DEF GetterInv
    <3> QED BY <1>5, <3>1, <3>4 DEF InsideInv
  <2>4. CASE LoadPut(t)
    <3>1. /\ ~Single(t) /\ Side(t) = "put" /\ pc[t] = "load" /\ pc'[t] = "move"
          /\ at'[t] = rear /\ cnt'[t] = Lesser(Room, req[t].n)
      BY <1>0, <1>t, <2>4 DEF LoadPut, CallInv
    <3>2. Room >= 1
      BY <1>0, <3>1 DEF InsideInv, PutterInv
    <3>3. cnt'[t] \in 1..Room /\ cnt'[t] <= Len(req[t].batch)
      BY <1>r, <1>t, <3>1, <3>2 DEF Lesser
    <3>4. PutterInv(t)'
      BY <1>5, <1>6, <3>1, <3>2, <3>3 DEF PutterInv
    <3> QED BY <1>5, <3>1, <3>4 DEF InsideInv
  <2>5. CASE MoveOut(t)
    <3>1. /\ Side(t) = "get" /\ pc[t] = "move" /\ UNCHANGED <<at, cnt>>
          /\ pc'[t] = IF Single(t) THEN "load" ELSE "publish"
          /\ tmp'[t] = [i \in 1..cnt[t] |-> buffer[Slot(t, i)]]
      BY <2>5 DEF MoveOut
    <3>2. GetterInv(t)
      BY <1>0, <3>1 DEF InsideInv
    <3>3. cnt[t] \in 1..Elements /\ (Single(t) => cnt[t] = 1) /\ (~Single(t) => at[t] = head)
      BY <1>0, <3>1, <3>2 DEF GetterInv, CallInv, Single
    <3>4. \A i \in 1..cnt[t] : Slot(t, i) = Place(head, i - 1)
      <4>1. Elements \in 0..Cap-1 /\ head \in 0..Cap-1
        BY <1>0, Counts
      <4>2. cnt[t] \in 1..Cap-1
        BY <1>t, <3>3, <4>1
      <4> QED BY <3>1, <3>3, <4>1, <4>2, SlotIsPlace
    <3>5. tmp'[t] = [i \in 1..cnt[t] |-> buffer[Place(head, i - 1)]]
      BY <3>1, <3>4
    <3>6. GetterInv(t)'
      BY <1>t, <1>5, <1>6, <3>1, <3>2, <3>3, <3>5 DEF GetterInv
    <3> QED BY <1>5, <3>1, <3>6 DEF InsideInv
  <2> QED BY <2>1, <2>2, <2>3, <2>4, <2>5
<1> QED BY <1>2, <1>3, <1>4, <1>7 DEF GoodStep

\* What MoveIn stores: batch[i] in the i-th slot from the rear on, and nothing elsewhere.
LEMMA MoveInStores ==
  ASSUME KeyType, QueueInv, NEW t \in Threads, MoveIn(t)
  PROVE  /\ Holds(t, "put") /\ cnt[t] \in 1..Room /\ cnt[t] <= Len(req[t].batch)
         /\ UNCHANGED <<head, rear>>
         /\ buffer' \in [0..Cap-1 -> Values]
         /\ \A i \in 1..cnt[t] : buffer'[Place(rear, i - 1)] = req[t].batch[i]
         /\ \A k \in 0..Cap-1 : (\A i \in 1..cnt[t] : k # Place(rear, i - 1)) => buffer'[k] = buffer[k]
<1>1. pc[t] = "move" /\ Side(t) = "put" /\ UNCHANGED <<head, rear>>
  BY DEF MoveIn
<1>2. RingType /\ PutterInv(t) /\ req[t] \in Calls[t]
  BY <1>1 DEF QueueInv, InsideInv, CallInv
<1>3. /\ cnt[t] \in 1..Room /\ cnt[t] <= Len(req[t].batch)
      /\ (Single(t) => cnt[t] = 1) /\ (~Single(t) => at[t] = rear)
  BY <1>1, <1>2 DEF QueueInv, CallInv, PutterInv, Single
<1>4. Room \in 0..Cap-1 /\ rear \in 0..Cap-1 /\ Cap \in Nat
  BY <1>2, Counts, QueueAssumption DEF RingType
<1>5. \A i \in 1..cnt[t] : i \in 1..Cap /\ i - 1 \in 0..Cap-1
  BY <1>3, <1>4
<1>6. \A i \in 1..cnt[t] : Slot(t, i) = Place(rear, i - 1) /\ Place(rear, i - 1) \in 0..Cap-1
  <2>1. cnt[t] \in 1..Cap-1
    BY <1>3, <1>4
  <2>2. Side(t) # "get"
    BY <1>1
  <2> QED BY <1>3, <1>4, <2>1, <2>2, SlotIsPlace
<1>7. /\ \A k : k \in Slots(t) <=> \E i \in 1..cnt[t] : Slot(t, i) = k
      /\ \A i \in 1..cnt[t] : (CHOOSE j \in 1..cnt[t] : Slot(t, j) = Slot(t, i)) = i
  <2>1. \A i, j \in 1..cnt[t] : Slot(t, j) = Slot(t, i) => j = i
    <3> SUFFICES ASSUME NEW i \in 1..cnt[t], NEW j \in 1..cnt[t], Slot(t, j) = Slot(t, i)
                 PROVE  j = i
      OBVIOUS
    <3>1. Dist(rear, Place(rear, i - 1)) = i - 1 /\ Dist(rear, Place(rear, j - 1)) = j - 1
      BY <1>4, <1>5, SlotAtDistance
    <3> QED BY <1>4, <1>6, <3>1
  <2> QED BY <2>1 DEF Slots
<1>8. buffer' = [k \in 0..Cap-1 |->
                   IF k \in Slots(t) THEN req[t].batch[CHOOSE i \in 1..cnt[t] : Slot(t, i) = k]
                   ELSE buffer[k]]
  BY DEF MoveIn
<1>9. \A i \in 1..cnt[t] : buffer'[Place(rear, i - 1)] = req[t].batch[i]
  <2> SUFFICES ASSUME NEW i \in 1..cnt[t] PROVE buffer'[Place(rear, i - 1)] = req[t].batch[i]
    OBVIOUS
  <2>1. Place(rear, i - 1) \in 0..Cap-1 /\ Place(rear, i - 1) = Slot(t, i)
    BY <1>6
  <2>2. Slot(t, i) \in Slots(t) /\ (CHOOSE j \in 1..cnt[t] : Slot(t, j) = Slot(t, i)) = i
    BY <1>7
  <2> QED BY <1>8, <2>1, <2>2
<1>10. \A k \in 0..Cap-1 : (\A i \in 1..cnt[t] : k # Place(rear, i - 1)) => buffer'[k] = buffer[k]
  <2> SUFFICES ASSUME NEW k \in 0..Cap-1, \A i \in 1..cnt[t] : k # Place(rear, i - 1)
               PROVE  buffer'[k] = buffer[k]
    OBVIOUS
  <2>1. k \notin Slots(t)
    BY <1>6, <1>7
  <2> QED BY <1>8, <2>1
<1>11. \A i \in 1..cnt[t] : req[t].batch[i] \in Values
  <2>1. \A i \in 1..Len(req[t].batch) : req[t].batch[i] \in Values
    BY <1>2, Requests
  <2>2. Len(req[t].batch) \in Nat
    BY <1>2, Requests
  <2> QED BY <1>3, <1>4, <2>1, <2>2
<1>12. \A k \in 0..Cap-1 : buffer'[k] \in Values
  <2> SUFFICES ASSUME NEW k \in 0..Cap-1 PROVE buffer'[k] \in Values
    OBVIOUS
  <2>1. CASE \E i \in 1..cnt[t] : k = Place(rear, i - 1)
    BY <1>9, <1>11, <2>1
  <2>2. CASE \A i \in 1..cnt[t] : k # Place(rear, i - 1)
    BY <1>2, <1>10, <2>2 DEF RingType
  <2> QED BY <2>1, <2>2
<1>13. buffer' \in [0..Cap-1 -> Values]
  BY <1>8, <1>12
<1>14. Holds(t, "put")
  BY <1>1, InsideHolds
<1> QED BY <1>1, <1>3, <1>9, <1>10, <1>13, <1>14

\* The stores into the ring and into the cursors.
LEMMA WritingSteps ==
  ASSUME KeyType, QueueInv, NEW t \in Threads,
         \/ MoveIn(t) \/ PublishHead(t) \/ PublishRear(t)
         \/ RewindHead(t) \/ RewindRear(t)
  PROVE  GoodStep(t)
<1> USE DEF KeyType, QueueInv, RingType, Goto
<1>0. CallInv(t) /\ InsideInv(t) /\ RingType /\ req[t] \in Calls[t]
  BY DEF CallInv, MoveIn, PublishHead, PublishRear, RewindHead, RewindRear
<1>t. /\ Elements \in 0..Cap-1 /\ Room \in 0..Cap-1 /\ Cap \in Nat
      /\ head \in 0..Cap-1 /\ rear \in 0..Cap-1 /\ Room = Cap - 1 - Elements
  BY <1>0, Counts, QueueAssumption
<1>1. UNCHANGED <<crashed, req, at, cnt, tmp>>
  BY DEF MoveIn, PublishHead, PublishRear, RewindHead, RewindRear, locals
<1>2. OthersStay(t) /\ DOMAIN ret' = Threads
  BY <1>1 DEF MoveIn, PublishHead, PublishRear, RewindHead, RewindRear, locals, Answer, OthersStay
<1>3. CallInv(t)'
  <2> USE DEF CallInv, InCall, RewindLabels, None
  <2>1. CASE MoveIn(t)
    <3>1. req[t].op \in {"getq", "putq"} => cnt[t] = 1 /\ req[t].n = 1
      BY <1>0, <2>1, Requests DEF MoveIn
    <3> QED BY <1>0, <1>1, <2>1, <3>1 DEF MoveIn, Single
  <2>2. CASE PublishHead(t) \/ PublishRear(t)
    BY <1>0, <1>1, <2>2 DEF PublishHead, PublishRear
  <2>3. CASE RewindHead(t) \/ RewindRear(t)
    BY <1>0, <1>1, <2>3 DEF RewindHead, RewindRear
  <2> QED BY <2>1, <2>2, <2>3
<1>4. Side(t)' = Side(t) /\ (Single(t)' <=> Single(t))
  BY <1>1 DEF Side, Single
<1>5. CASE MoveIn(t)
  <2>1. /\ Holds(t, "put") /\ cnt[t] \in 1..Room /\ cnt[t] <= Len(req[t].batch)
        /\ UNCHANGED <<head, rear>>
        /\ buffer' \in [0..Cap-1 -> Values]
        /\ \A i \in 1..cnt[t] : buffer'[Place(rear, i - 1)] = req[t].batch[i]
        /\ \A k \in 0..Cap-1 : (\A i \in 1..cnt[t] : k # Place(rear, i - 1)) => buffer'[k] = buffer[k]
    BY <1>5, MoveInStores
  <2>2. RingType' /\ RingStep(t)
    BY <1>1, <1>2, <2>1 DEF RingStep
  <2>3. /\ Side(t) = "put" /\ pc[t] = "move"
        /\ pc'[t] = IF Single(t) THEN "load" ELSE "publish"
    BY <1>5 DEF MoveIn
  <2>4. Single(t) => cnt[t] = 1
    BY <1>0, <2>3 DEF CallInv, Single
  <2>5. Place(rear, 1 - 1) = rear
    BY <1>t DEF Place
  <2>6. Room' = Room
    BY <2>1 DEF Room
  <2>7. Single(t) => buffer'[rear] = req[t].batch[1]
    BY <2>1, <2>4, <2>5
  <2>8. PutterInv(t)
    BY <1>0, <2>3 DEF InsideInv
  <2>9. PutterInv(t)'
    BY <1>1, <1>4, <1>t, <2>1, <2>3, <2>6, <2>7, <2>8 DEF PutterInv
  <2>10. InsideInv(t)'
    BY <1>4, <2>3, <2>9 DEF InsideInv, RewinderInv
  <2> QED BY <1>2, <1>3, <2>2, <2>10 DEF GoodStep
<1>6. CASE PublishHead(t)
  <2>1. /\ pc[t] = "publish" /\ Side(t) = "get" /\ pc'[t] = "giveback"
        /\ head' = Advanced(t) /\ UNCHANGED <<rear, buffer>>
    BY <1>6 DEF PublishHead
  <2>2. at[t] = head /\ cnt[t] \in 1..Elements
    <3>1. Side(t) = "get" => GetterInv(t)
      BY <1>0, Zenon DEF InsideInv
    <3> QED BY <2>1, <3>1 DEF GetterInv
  <2>3. head' = Place(head, cnt[t]) /\ head' \in 0..Cap-1
    <3>1. cnt[t] \in 1..Cap-1 /\ (Single(t) => cnt[t] = 1)
      BY <1>0, <1>t, <2>1, <2>2 DEF CallInv, Single
    <3> QED BY <1>t, <2>1, <2>2, <3>1, AdvancedIsPlace
  <2>4. Holds(t, "get")
    BY <2>1, InsideHolds
  <2>5. RingType' /\ RingStep(t)
    BY <1>1, <1>2, <2>1, <2>2, <2>3, <2>4 DEF RingStep
  <2>6. InsideInv(t)'
    BY <2>1 DEF InsideInv, GetterInv, PutterInv, RewinderInv
  <2> QED BY <1>2, <1>3, <2>5, <2>6 DEF GoodStep
<1>7. CASE PublishRear(t)
  <2>1. /\ pc[t] = "publish" /\ Side(t) = "put" /\ pc'[t] = "giveback"
        /\ rear' = Advanced(t) /\ UNCHANGED <<head, buffer>>
    BY <1>7 DEF PublishRear
  <2>2. at[t] = rear /\ cnt[t] \in 1..Room
    <3>1. Side(t) = "put" => PutterInv(t)
      BY <1>0, Zenon DEF InsideInv
    <3> QED BY <2>1, <3>1 DEF PutterInv
  <2>3. rear' = Place(rear, cnt[t]) /\ rear' \in 0..Cap-1
    <3>1. cnt[t] \in 1..Cap-1 /\ (Single(t) => cnt[t] = 1)
      BY <1>0, <1>t, <2>1, <2>2 DEF CallInv, Single
    <3> QED BY <1>t, <2>1, <2>2, <3>1, AdvancedIsPlace
  <2>4. Holds(t, "put")
    BY <2>1, InsideHolds
  <2>5. RingType' /\ RingStep(t)
    BY <1>1, <1>2, <2>1, <2>2, <2>3, <2>4 DEF RingStep
  <2>6. InsideInv(t)'
    BY <2>1 DEF InsideInv, GetterInv, PutterInv, RewinderInv
  <2> QED BY <1>2, <1>3, <2>5, <2>6 DEF GoodStep
<1>8. CASE RewindHead(t) \/ RewindRear(t)
  <2>1. /\ Holds(t, "get") /\ Holds(t, "put")
        /\ UNCHANGED buffer /\ head' \in 0..Cap-1 /\ rear' \in 0..Cap-1
    BY <1>8, <1>t, QueueAssumption DEF RewindHead, RewindRear, Holds, InRewind
  <2>2. RingType' /\ RingStep(t)
    BY <1>1, <1>2, <2>1 DEF RingStep
  <2>3. RewinderInv(t)' /\ pc'[t] \in {"rw_rear", "rw_kput"}
    <3>1. CASE RewindHead(t)
      BY <3>1 DEF RewindHead, RewinderInv
    <3>2. CASE RewindRear(t)
      <4>1. head = 0 /\ head' = head /\ rear' = 0 /\ pc'[t] = "rw_kput"
        BY <1>0, <3>2 DEF RewindRear, RewinderInv, InsideInv
      <4> QED BY <4>1 DEF RewinderInv
    <3> QED BY <1>8, <3>1, <3>2
  <2>4. InsideInv(t)'
    BY <2>3 DEF InsideInv, GetterInv, PutterInv
  <2> QED BY <1>2, <1>3, <2>2, <2>4 DEF GoodStep
<1> QED BY <1>5, <1>6, <1>7, <1>8

\* The invariant is inductive while one thread at a time is inside each side.
LEMMA QueueInvNext ==
  ASSUME KeyType, OneInside, QueueInv, [Next]_vars
  PROVE  QueueInv'
<1>1. ASSUME NEW t \in Threads, Begin(t) \/ Step(t) \/ Crash(t) PROVE QueueInv'
  <2>1. GoodStep(t)
    BY <1>1, OuterSteps, ReadingSteps, WritingSteps DEF Step, Rewind
  <2>2. \A u \in Threads \ {t} : CallInv(u)' /\ InsideInv(u)'
    BY <2>1, OthersKept DEF GoodStep
  <2>3. RingType' /\ CallInv(t)' /\ InsideInv(t)'
    BY <2>1 DEF GoodStep
  <2> QED BY <2>2, <2>3 DEF QueueInv
<1>2. CASE UNCHANGED vars
  <2>1. /\ head' = head /\ rear' = rear /\ buffer' = buffer /\ pc' = pc /\ req' = req
        /\ at' = at /\ cnt' = cnt /\ tmp' = tmp /\ ret' = ret /\ crashed' = crashed
    BY <1>2 DEF vars
  <2>2. RingType'
    BY <2>1 DEF QueueInv, RingType
  <2>3. \A t \in Threads : CallInv(t)' /\ (Side(t)' = Side(t) /\ (Single(t)' <=> Single(t)))
    BY <2>1 DEF QueueInv, CallInv, Side, Single
  <2>4. Elements' = Elements /\ Room' = Room
    BY <2>1 DEF Elements, Room
  <2>5. \A t \in Threads : InsideInv(t)'
    BY <2>1, <2>3, <2>4 DEF QueueInv, InsideInv, GetterInv, PutterInv, RewinderInv
  <2> QED BY <2>2, <2>3, <2>5 DEF QueueInv
<1> QED BY <1>1, <1>2 DEF Next

\* The constructor establishes it.
LEMMA QueueInvInit == Init => QueueInv
<1> SUFFICES ASSUME Init PROVE QueueInv
  OBVIOUS
<1>1. RingType
  BY QueueAssumption DEF Init, RingType
<1>2. \A t \in Threads : CallInv(t) /\ InsideInv(t)
  BY DEF Init, CallInv, InsideInv, GetterInv, PutterInv, RewinderInv, InCall, RewindLabels, None
<1> QED BY <1>1, <1>2 DEF QueueInv

-----------------------------------------------------------------------------
(* Every step of the queue is a step of the list, or none. *)

Rewinding == \E t \in Threads : pc[t] = "rw_rear"

\* The list of the refinement mapping is the one without modulo.
LEMMA ItemsIsList ==
  /\ RingType => Items = IF Rewinding THEN <<>> ELSE List(head, rear, buffer)
  /\ RingType' => Items' = IF Rewinding' THEN <<>> ELSE List(head', rear', buffer')
BY ListFacts DEF RingType, Items, Rewinding

\* While a thread is in its call, nobody is between the two stores of a rewind.
LEMMA NobodyRewinds ==
  ASSUME OneInside, NEW t \in Threads, pc[t] \in InCall
  PROVE  ~Rewinding
<1>1. Side(t) \in Sides /\ Holds(t, Side(t))
  BY DEF Sides, Side, Holds
<1>2. \A u \in Threads : pc[u] = "rw_rear" => Holds(u, Side(t)) /\ u # t
  BY DEF Holds, InRewind, InCall
<1> QED BY <1>1, <1>2 DEF OneInside, Rewinding

\* A step between places other than the middle of a rewind begins and ends none.
LEMMA RewindingStays ==
  ASSUME KeyType, NEW t \in Threads, NEW l, Goto(t, l), pc[t] # "rw_rear", l # "rw_rear"
  PROVE  Rewinding' <=> Rewinding
BY DEF KeyType, Goto, Rewinding

\* The first c elements, which a getter has copied, leave the list.
LEMMA TakingFirst ==
  ASSUME NEW h \in 0..Cap-1, NEW r \in 0..Cap-1, NEW b \in [0..Cap-1 -> Values],
         NEW c \in 1..Dist(h, r)
  PROVE  /\ List(Place(h, c), r, b) = SubSeq(List(h, r, b), c + 1, Dist(h, r))
         /\ [i \in 1..c |-> b[Place(h, i - 1)]] = SubSeq(List(h, r, b), 1, c)
<1> DEFINE n == Dist(h, r)  s == List(h, r, b)  g == List(Place(h, c), r, b)
<1>1. s \in Seq(Values) /\ Len(s) = n /\ n \in 0..Cap-1 /\ Cap \in Nat
  BY ListFacts, QueueAssumption
<1>2. /\ Place(h, c) \in 0..Cap-1 /\ Dist(Place(h, c), r) = n - c
      /\ \A k \in 0..n-c : Place(Place(h, c), k) = Place(h, c + k)
  BY <1>1, HeadMoves
<1>3. g \in Seq(Values) /\ Len(g) = n - c
  BY <1>2, ListFacts
<1>4. \A i \in 1..n-c : g[i] = s[c + i]
  <2> SUFFICES ASSUME NEW i \in 1..n-c PROVE g[i] = s[c + i]
    OBVIOUS
  <2>1. i - 1 \in 0..n-c /\ c + i \in 1..n /\ c + i - 1 = c + (i - 1)
    BY <1>1
  <2>2. g[i] = b[Place(Place(h, c), i - 1)]
    BY <1>2 DEF List
  <2>3. s[c + i] = b[Place(h, c + i - 1)]
    BY <2>1 DEF List
  <2> QED BY <1>2, <2>1, <2>2, <2>3
<1>5. \A i \in 1..n : s[i] = b[Place(h, i - 1)]
  BY DEF List
<1> HIDE DEF n, s, g
<1>6. \A i \in 1..n : s[i] \in Values
  BY <1>1, ElementOfSeq
<1>7. c \in Nat /\ c >= 1 /\ c <= n
  BY <1>1 DEF n
<1>8. g = SubSeq(s, c + 1, n)
  <2>1. \A i \in c+1..n : s[i] \in Values
    BY <1>6, <1>7
  <2>2. /\ SubSeq(s, c + 1, n) \in Seq(Values)
        /\ Len(SubSeq(s, c + 1, n)) = IF c + 1 <= n THEN n - (c + 1) + 1 ELSE 0
        /\ \A i \in 1..n-(c+1)+1 : SubSeq(s, c + 1, n)[i] = s[c + 1 + i - 1]
    BY <1>1, <1>7, <2>1, SubSeqProperties
  <2>3. Len(SubSeq(s, c + 1, n)) = n - c /\ \A i \in 1..n-c : SubSeq(s, c + 1, n)[i] = s[c + i]
    BY <1>1, <1>7, <2>2
  <2> QED BY <1>3, <1>4, <2>2, <2>3, SeqEqual
<1>9. [i \in 1..c |-> b[Place(h, i - 1)]] = SubSeq(s, 1, c)
  <2>1. \A i \in 1..c : i \in 1..n
    BY <1>1, <1>7
  <2>2. \A i \in 1..c : s[i] \in Values
    BY <1>6, <2>1
  <2>3. /\ SubSeq(s, 1, c) \in Seq(Values)
        /\ Len(SubSeq(s, 1, c)) = IF 1 <= c THEN c - 1 + 1 ELSE 0
        /\ \A i \in 1..c-1+1 : SubSeq(s, 1, c)[i] = s[1 + i - 1]
    BY <1>7, <2>2, SubSeqProperties
  <2>4. Len(SubSeq(s, 1, c)) = c /\ \A i \in 1..c : SubSeq(s, 1, c)[i] = s[i]
    BY <1>7, <2>3
  <2>5. SubSeq(s, 1, c) = [i \in 1..c |-> SubSeq(s, 1, c)[i]]
    BY <2>3, <2>4, LenProperties
  <2> QED BY <1>5, <2>1, <2>4, <2>5
<1> QED BY <1>8, <1>9 DEF n, s, g

\* The first c of a batch, which a putter has stored from the rear on, join the list.
LEMMA AddingLast ==
  ASSUME NEW h \in 0..Cap-1, NEW r \in 0..Cap-1, NEW b \in [0..Cap-1 -> Values],
         NEW c \in 1..Cap-1-Dist(h, r), NEW q \in Seq(Values), c <= Len(q),
         \A i \in 1..c : b[Place(r, i - 1)] = q[i]
  PROVE  List(h, Place(r, c), b) = List(h, r, b) \o SubSeq(q, 1, c)
<1> DEFINE n == Dist(h, r)  s == List(h, r, b)  g == List(h, Place(r, c), b)  p == SubSeq(q, 1, c)
<1>1. s \in Seq(Values) /\ Len(s) = n /\ n \in 0..Cap-1 /\ Cap \in Nat
  BY ListFacts, QueueAssumption
<1>2. /\ Place(r, c) \in 0..Cap-1 /\ Dist(h, Place(r, c)) = n + c
      /\ \A k \in 0..Cap-1-n : Place(h, n + k) = Place(r, k)
  BY <1>1, RearMoves
<1>3. g \in Seq(Values) /\ Len(g) = n + c
  BY <1>2, ListFacts
<1>4. \A i \in 1..n+c : g[i] = IF i <= n THEN s[i] ELSE q[i - n]
  <2> SUFFICES ASSUME NEW i \in 1..n+c PROVE g[i] = IF i <= n THEN s[i] ELSE q[i - n]
    OBVIOUS
  <2>1. g[i] = b[Place(h, i - 1)]
    BY <1>2 DEF List
  <2>2. CASE i <= n
    <3>1. i \in 1..n
      BY <1>1, <2>2
    <3> QED BY <2>1, <2>2, <3>1 DEF List
  <2>3. CASE ~(i <= n)
    <3>1. i - n \in 1..c /\ i - n - 1 \in 0..Cap-1-n /\ i - 1 = n + (i - n - 1)
      BY <1>1, <2>3
    <3>2. Place(h, i - 1) = Place(r, i - n - 1)
      BY <1>2, <3>1
    <3>3. PICK j \in 1..c : j = i - n
      BY <3>1
    <3>4. b[Place(r, j - 1)] = q[j]
      OBVIOUS
    <3> QED BY <2>1, <2>3, <3>2, <3>3, <3>4
  <2> QED BY <2>2, <2>3
<1>5. p \in Seq(Values) /\ Len(p) = c /\ \A i \in 1..c : p[i] = q[i]
  <2>1. \A i \in 1..Len(q) : q[i] \in Values
    BY ElementOfSeq
  <2>2. Len(q) \in Nat /\ c \in Nat /\ c >= 1
    BY <1>1, LenProperties
  <2>3. \A i \in 1..c : q[i] \in Values
    BY <2>1, <2>2
  <2>4. /\ p \in Seq(Values)
        /\ Len(p) = IF 1 <= c THEN c - 1 + 1 ELSE 0
        /\ \A i \in 1..c-1+1 : p[i] = q[1 + i - 1]
    BY <2>2, <2>3, SubSeqProperties
  <2> QED BY <2>2, <2>4
<1>c. c \in Nat
  BY <1>1
<1> HIDE DEF n, s, g, p
<1>6. /\ s \o p \in Seq(Values) /\ Len(s \o p) = n + c
      /\ \A i \in 1..n+c : (s \o p)[i] = IF i <= n THEN s[i] ELSE p[i - n]
  BY <1>1, <1>5, ConcatProperties
<1>7. \A i \in 1..n+c : g[i] = (s \o p)[i]
  <2> SUFFICES ASSUME NEW i \in 1..n+c PROVE g[i] = (s \o p)[i]
    OBVIOUS
  <2>1. CASE i <= n
    BY <1>4, <1>6, <2>1
  <2>2. CASE ~(i <= n)
    <3>1. i - n \in 1..c
      BY <1>1, <1>c, <2>2
    <3> QED BY <1>4, <1>5, <1>6, <2>2, <3>1
  <2> QED BY <2>1, <2>2
<1>8. g = s \o p
  BY <1>3, <1>6, <1>7, SeqEqual
<1> QED BY <1>8 DEF s, g, p

\* What the refinement rests on, in a queue without QUEUE_TIMEOUT.
FifoInv == KeyType /\ KeyHeld /\ OneInside /\ QueueInv /\ "TIMEOUT" \notin flags

\* Nobody dies while the head and the rear of a rewind disagree.
Unbroken == MaxCrash = 0 \/ \A t \in Threads : \A r \in Calls[t] : r.op # "rewind"

\* The list's own steps, from the values of its variables.
LEMMA StepOfList ==
  ASSUME NEW t \in Threads
  PROVE  /\ Items' = Items /\ ret' = ret => [Fifo!Next]_(Fifo!vars)
         /\ Items' = Items /\ ret' = [ret EXCEPT ![t] = None] => [Fifo!Next]_(Fifo!vars)
         /\ Items' = <<>> /\ ret' = ret => [Fifo!Next]_(Fifo!vars)
<1>1. Items' = Items /\ ret' = [ret EXCEPT ![t] = None] => Fifo!Return(t)
  BY DEF Fifo!Return, None, Fifo!None
<1>2. Items' = <<>> /\ ret' = ret => Fifo!Clear
  BY DEF Fifo!Clear
<1> QED BY <1>1, <1>2 DEF Fifo!Next, Fifo!vars

\* A step that leaves the ring alone and is not of the middle of a rewind.
LEMMA ItemsStay ==
  ASSUME KeyType, NEW t \in Threads, NEW l, Goto(t, l), pc[t] # "rw_rear", l # "rw_rear",
         UNCHANGED <<head, rear, buffer>>
  PROVE  Items' = Items
<1>1. Rewinding' <=> Rewinding
  BY RewindingStays
<1> QED BY <1>1 DEF Items, Rewinding

\* A thread in its call finds the list in the ring, as long as the cursors are apart.
LEMMA InCallFacts ==
  ASSUME FifoInv, NEW t \in Threads, pc[t] \in InCall
  PROVE  /\ ~Rewinding /\ Items = List(head, rear, buffer)
         /\ Items \in Seq(Values) /\ Len(Items) = Elements /\ Room = Cap - 1 - Elements
         /\ Elements \in 0..Cap-1 /\ Room \in 0..Cap-1
         /\ req[t] \in Calls[t] /\ req[t].batch \in Offers
         /\ req[t].batch \in Seq(Values) /\ Len(req[t].batch) \in Nat
         /\ pc[t] # "giveback" => ret[t] = None
         /\ Side(t) = "put" => req[t].n = Len(req[t].batch) /\ req[t].n >= 1
<1>1. RingType /\ CallInv(t)
  BY DEF FifoInv, QueueInv
<1>2. ~Rewinding /\ Items = List(head, rear, buffer)
  BY <1>1, ItemsIsList, NobodyRewinds DEF FifoInv
<1>3. Items \in Seq(Values) /\ Len(Items) = Elements
  BY <1>1, <1>2, ListFacts DEF RingType, Elements
<1>4. Elements \in 0..Cap-1 /\ Room \in 0..Cap-1 /\ Room = Cap - 1 - Elements
  BY <1>1, Counts
<1>5. req[t] \in Calls[t] /\ req[t].op # "rewind" /\ (pc[t] # "giveback" => ret[t] = None)
  BY <1>1 DEF CallInv, InCall
<1>6. req[t].batch \in Offers
  BY <1>5 DEF Offers
<1>7. /\ req[t].batch \in Seq(Values) /\ Len(req[t].batch) \in Nat
      /\ req[t].op \in PutOps => req[t].n = Len(req[t].batch)
      /\ req[t].n >= 1
      /\ req[t].op \in {"getq", "getn", "peek", "putq", "putn"}
  BY <1>5, Requests
<1>8. Side(t) = "put" => req[t].op \in PutOps
  BY <1>7 DEF Side, GetOps, PutOps
<1> QED BY <1>2, <1>3, <1>4, <1>5, <1>6, <1>7, <1>8

\* The test answers "empty" and "full" truthfully.
LEMMA TestImplements ==
  ASSUME FifoInv, NEW t \in Threads, Test(t)
  PROVE  [Fifo!Next]_(Fifo!vars)
<1> DEFINE q == req[t].batch
<1>1. pc[t] = "test" /\ pc[t] \in InCall /\ UNCHANGED <<head, rear, buffer>>
  BY DEF Test, InCall
<1>2. /\ Items \in Seq(Values) /\ Len(Items) = Elements /\ Elements \in 0..Cap-1
      /\ Room = Cap - 1 - Elements /\ q \in Offers /\ Len(q) \in Nat /\ ret[t] = None
      /\ Side(t) = "put" => Len(q) >= 1
  BY <1>1, InCallFacts
<1>3. Items' = Items
  BY <1>1, ItemsStay DEF Test, FifoInv
<1>4. CASE ret' = ret
  BY <1>3, <1>4, StepOfList
<1>5. CASE ret' # ret
  <2>1. Blocked(t) /\ ret' = [ret EXCEPT ![t] = <<Side(t), <<>>>>]
    BY <1>5 DEF Test, Answer
  <2>2. CASE Side(t) = "get"
    <3>1. Elements = 0
      BY <2>1, <2>2, Counts DEF Blocked, FifoInv, QueueInv
    <3>2. Items = <<>>
      BY <1>2, <3>1, EmptySeq
    <3>3. Fifo!DeclineGet(t)
      BY <1>2, <1>3, <2>1, <2>2, <3>2 DEF Fifo!DeclineGet, Fifo!Answer, None, Fifo!None
    <3> QED BY <3>3 DEF Fifo!Next
  <2>3. CASE Side(t) # "get"
    <3>1. Side(t) = "put"
      BY <2>3 DEF Side
    <3>2. Room = 0
      BY <2>1, <3>1, Counts DEF Blocked, FifoInv, QueueInv
    <3>3. Len(Items) + Len(q) > Cap - 1
      BY <1>2, <3>1, <3>2, QueueAssumption
    <3>4. Fifo!DeclinePut(t, q)
      BY <1>2, <1>3, <2>1, <3>1, <3>3 DEF Fifo!DeclinePut, Fifo!Answer, None, Fifo!None
    <3> QED BY <1>2, <3>4 DEF Fifo!Next
  <2> QED BY <2>2, <2>3
<1> QED BY <1>4, <1>5

\* A batch is declined when it is longer than the room.
LEMMA PutDoesNotFitImplements ==
  ASSUME FifoInv, NEW t \in Threads, PutDoesNotFit(t)
  PROVE  [Fifo!Next]_(Fifo!vars)
<1> DEFINE q == req[t].batch
<1>1. /\ pc[t] = "load" /\ pc[t] \in InCall /\ Side(t) = "put"
      /\ UNCHANGED <<head, rear, buffer>> /\ Mask(head - rear - 1) < cnt[t]
      /\ ret' = [ret EXCEPT ![t] = <<"put", <<>>>>]
  BY DEF PutDoesNotFit, InCall, Answer
<1>2. /\ Len(Items) = Elements /\ Elements \in 0..Cap-1
      /\ Room = Cap - 1 - Elements /\ q \in Offers /\ Len(q) \in Nat /\ ret[t] = None
      /\ req[t].n = Len(q)
  BY <1>1, InCallFacts
<1>3. Items' = Items
  BY <1>1, ItemsStay DEF PutDoesNotFit, FifoInv
<1>4. cnt[t] = Len(q)
  BY <1>1, <1>2 DEF FifoInv, QueueInv, CallInv
<1>5. Mask(head - rear - 1) = Room
  BY Counts DEF FifoInv, QueueInv
<1>6. Len(Items) + Len(q) > Cap - 1
  BY <1>1, <1>2, <1>4, <1>5, QueueAssumption
<1>7. Fifo!DeclinePut(t, q)
  BY <1>1, <1>2, <1>3, <1>6 DEF Fifo!DeclinePut, Fifo!Answer, None, Fifo!None
<1> QED BY <1>2, <1>7 DEF Fifo!Next

\* A getter's publication takes from the front the elements it answers.
LEMMA PublishHeadImplements ==
  ASSUME FifoInv, NEW t \in Threads, PublishHead(t)
  PROVE  [Fifo!Next]_(Fifo!vars)
<1> DEFINE c == cnt[t]
<1>1. /\ pc[t] = "publish" /\ pc[t] \in InCall /\ Side(t) = "get"
      /\ UNCHANGED <<rear, buffer>> /\ head' = Advanced(t)
      /\ ret' = [ret EXCEPT ![t] = <<"get", tmp[t]>>]
  BY DEF PublishHead, InCall, Answer
<1>2. /\ Items = List(head, rear, buffer) /\ Len(Items) = Elements
      /\ Elements \in 0..Cap-1 /\ ret[t] = None /\ ~Rewinding
  BY <1>1, InCallFacts
<1>3. RingType /\ GetterInv(t)
  BY <1>1 DEF FifoInv, QueueInv, InsideInv
<1>4. at[t] = head /\ c \in 1..Elements /\ tmp[t] = [i \in 1..c |-> buffer[Place(head, i - 1)]]
  BY <1>1, <1>3 DEF GetterInv
<1>5. head \in 0..Cap-1 /\ rear \in 0..Cap-1 /\ buffer \in [0..Cap-1 -> Values]
  BY <1>3 DEF RingType
<1>6. head' = Place(head, c)
  <2>1. c \in 1..Cap-1 /\ (Single(t) => c = 1)
    BY <1>1, <1>2, <1>4, QueueAssumption DEF FifoInv, QueueInv, CallInv, Single
  <2> QED BY <1>1, <1>4, <1>5, <2>1, AdvancedIsPlace
<1>7. c \in 1..Dist(head, rear) /\ Len(Items) = Dist(head, rear)
  BY <1>2, <1>4 DEF Elements
<1>8. Items' = List(head', rear', buffer')
  <2>1. ~Rewinding'
    BY <1>1, <1>2, RewindingStays DEF PublishHead, FifoInv
  <2>2. RingType'
    BY WritingSteps DEF GoodStep, FifoInv
  <2> QED BY <2>1, <2>2, ItemsIsList
<1>9. Items' = SubSeq(Items, c + 1, Len(Items)) /\ tmp[t] = SubSeq(Items, 1, c)
  <2>1. /\ List(Place(head, c), rear, buffer)
             = SubSeq(List(head, rear, buffer), c + 1, Dist(head, rear))
        /\ [i \in 1..c |-> buffer[Place(head, i - 1)]] = SubSeq(List(head, rear, buffer), 1, c)
    <3> HIDE DEF c
    <3> QED BY ZenonT(30), <1>5, <1>7, TakingFirst
  <2>2. Items' = List(Place(head, c), rear, buffer)
    BY <1>1, <1>6, <1>8
  <2> QED BY <1>2, <1>4, <1>7, <2>1, <2>2
<1>10. Fifo!Get(t)
  <2>1. c \in 1..Len(Items)
    BY <1>7
  <2>2. Fifo!Answer(t, "get", SubSeq(Items, 1, c))
    BY <1>1, <1>2, <1>9 DEF Fifo!Answer, None, Fifo!None
  <2> QED BY <1>9, <2>1, <2>2 DEF Fifo!Get
<1> QED BY <1>10 DEF Fifo!Next

\* A putter's publication appends the part of its batch that it has stored.
LEMMA PublishRearImplements ==
  ASSUME FifoInv, NEW t \in Threads, PublishRear(t)
  PROVE  [Fifo!Next]_(Fifo!vars)
<1> DEFINE c == cnt[t]  q == req[t].batch
<1>1. /\ pc[t] = "publish" /\ pc[t] \in InCall /\ Side(t) = "put"
      /\ UNCHANGED <<head, buffer>> /\ rear' = Advanced(t)
      /\ ret' = [ret EXCEPT ![t] = <<"put", SubSeq(q, 1, c)>>]
  BY DEF PublishRear, InCall, Answer
<1>2. /\ Items = List(head, rear, buffer) /\ Len(Items) = Elements
      /\ Elements \in 0..Cap-1 /\ Room = Cap - 1 - Elements /\ ret[t] = None /\ ~Rewinding
      /\ q \in Offers /\ q \in Seq(Values) /\ Len(q) \in Nat
  BY <1>1, InCallFacts
<1>3. RingType /\ PutterInv(t)
  BY <1>1 DEF FifoInv, QueueInv, InsideInv
<1>4. /\ at[t] = rear /\ c \in 1..Room /\ c <= Len(q)
      /\ \A i \in 1..c : buffer[Place(rear, i - 1)] = q[i]
  BY <1>1, <1>3 DEF PutterInv
<1>5. head \in 0..Cap-1 /\ rear \in 0..Cap-1 /\ buffer \in [0..Cap-1 -> Values]
  BY <1>3 DEF RingType
<1>6. rear' = Place(rear, c)
  <2>1. c \in 1..Cap-1 /\ (Single(t) => c = 1)
    BY <1>1, <1>2, <1>4, QueueAssumption DEF FifoInv, QueueInv, CallInv, Single
  <2> QED BY <1>1, <1>4, <1>5, <2>1, AdvancedIsPlace
<1>7. c \in 1..Cap-1-Dist(head, rear)
  BY <1>4 DEF Room
<1>8. Items' = List(head', rear', buffer')
  <2>1. ~Rewinding'
    BY <1>1, <1>2, RewindingStays DEF PublishRear, FifoInv
  <2>2. RingType'
    BY WritingSteps DEF GoodStep, FifoInv
  <2> QED BY <2>1, <2>2, ItemsIsList
<1>9. Items' = Items \o SubSeq(q, 1, c)
  <2>1. List(head, Place(rear, c), buffer) = List(head, rear, buffer) \o SubSeq(q, 1, c)
    <3>1. /\ q \in Seq(Values) /\ c \in 1..Cap-1-Dist(head, rear) /\ c <= Len(q)
          /\ \A i \in 1..c : buffer[Place(rear, i - 1)] = q[i]
      BY <1>2, <1>4, <1>7
    <3> HIDE DEF c, q
    <3> QED BY <1>5, <3>1, AddingLast
  <2> QED BY <1>1, <1>2, <1>6, <1>8, <2>1
<1>10. Fifo!Put(t, q)
  <2>1. c \in 1..Len(q) /\ Len(Items) + c <= Cap - 1
    BY <1>2, <1>4, QueueAssumption
  <2>2. Fifo!Answer(t, "put", SubSeq(q, 1, c))
    BY <1>1, <1>2 DEF Fifo!Answer, None, Fifo!None
  <2> QED BY <1>9, <2>1, <2>2 DEF Fifo!Put
<1> QED BY <1>2, <1>10 DEF Fifo!Next

\* A store into a slot that no element occupies.
LEMMA MoveInImplements ==
  ASSUME FifoInv, NEW t \in Threads, MoveIn(t)
  PROVE  [Fifo!Next]_(Fifo!vars)
<1>1. pc[t] = "move" /\ pc[t] \in InCall /\ ret' = ret
  BY DEF MoveIn, InCall
<1>2. /\ Items = List(head, rear, buffer) /\ Elements \in 0..Cap-1 /\ Room = Cap - 1 - Elements
      /\ ~Rewinding
  BY <1>1, InCallFacts
<1>3. /\ cnt[t] \in 1..Room /\ UNCHANGED <<head, rear>>
      /\ \A k \in 0..Cap-1 : (\A i \in 1..cnt[t] : k # Place(rear, i - 1)) => buffer'[k] = buffer[k]
  BY MoveInStores DEF FifoInv
<1>4. head \in 0..Cap-1 /\ rear \in 0..Cap-1 /\ Cap \in Nat
  BY QueueAssumption DEF FifoInv, QueueInv, RingType
<1>5. \A i \in 1..Elements : buffer'[Place(head, i - 1)] = buffer[Place(head, i - 1)]
  <2> SUFFICES ASSUME NEW i \in 1..Elements
               PROVE  buffer'[Place(head, i - 1)] = buffer[Place(head, i - 1)]
    OBVIOUS
  <2>1. i \in 1..Cap /\ i \in 1..Dist(head, rear)
    BY <1>2, <1>4 DEF Elements
  <2>2. Place(head, i - 1) \in 0..Cap-1
    BY <1>4, <2>1, MaskOfIndex
  <2>3. \A j \in 1..cnt[t] : j - 1 \in 0..Cap-2-Dist(head, rear)
    BY <1>2, <1>3, <1>4 DEF Elements
  <2>4. \A j \in 1..cnt[t] : Place(head, i - 1) # Place(rear, j - 1)
    BY <1>4, <2>1, <2>3, FreeSlots
  <2> QED BY <1>3, <2>2, <2>4
<1>6. Items' = List(head', rear', buffer')
  <2>1. ~Rewinding'
    BY <1>1, <1>2, RewindingStays DEF MoveIn, FifoInv
  <2>2. RingType'
    BY WritingSteps DEF GoodStep, FifoInv
  <2> QED BY <2>1, <2>2, ItemsIsList
<1>7. List(head', rear', buffer') = List(head, rear, buffer)
  BY <1>3, <1>5 DEF List, Elements
<1> QED BY <1>1, <1>2, <1>6, <1>7, StepOfList

\* A rewind empties the list with its first store, and keeps it empty.
LEMMA RewindImplements ==
  ASSUME FifoInv, NEW t \in Threads, RewindHead(t) \/ RewindRear(t)
  PROVE  [Fifo!Next]_(Fifo!vars)
<1>1. KeyType /\ QueueInv /\ OneInside /\ ret' = ret
  BY DEF FifoInv, RewindHead, RewindRear
<1>2. RingType'
  BY <1>1, WritingSteps DEF GoodStep
<1>3. CASE RewindHead(t)
  <2>1. Rewinding'
    BY <1>1, <1>3 DEF RewindHead, Goto, Rewinding, KeyType
  <2>2. Items' = <<>>
    BY <1>2, <2>1, ItemsIsList
  <2> QED BY <1>1, <2>2, StepOfList
<1>4. CASE RewindRear(t)
  <2>1. Rewinding /\ head = 0 /\ head' = 0 /\ rear' = 0
    BY <1>1, <1>4 DEF RewindRear, Rewinding, QueueInv, InsideInv, RewinderInv
  <2>2. Items = <<>>
    BY <1>1, <2>1, ItemsIsList DEF QueueInv
  <2>3. Dist(head', rear') = 0
    BY <2>1 DEF Dist
  <2>4. List(head', rear', buffer') \in Seq(Values) /\ Len(List(head', rear', buffer')) = 0
    BY <1>2, <2>3, ListFacts DEF RingType
  <2>5. Items' = <<>>
    BY <1>2, <2>4, EmptySeq, ItemsIsList
  <2> QED BY <1>1, <2>2, <2>5, StepOfList
<1> QED BY <1>3, <1>4

\* Every other step leaves the list alone, and its thread's answer too until it returns.
LEMMA OtherStepsImplement ==
  ASSUME FifoInv, Unbroken, NEW t \in Threads,
         \/ Begin(t) \/ Acquire(t) \/ Exchange(t) \/ Alive(t) \/ LoadSingle(t) \/ LoadGet(t)
         \/ LoadPut(t) \/ MoveOut(t) \/ Leave(t) \/ GiveBack(t) \/ RewindKget(t)
         \/ RewindBack(t) \/ RewindGiveKput(t) \/ RewindGiveKget(t) \/ Crash(t)
  PROVE  [Fifo!Next]_(Fifo!vars)
<1>1. KeyType /\ UNCHANGED <<head, rear, buffer>>
  BY DEF FifoInv, Begin, Acquire, Exchange, Alive, LoadSingle, LoadGet, LoadPut, MoveOut, Leave,
         GiveBack, RewindKget, RewindBack, RewindGiveKput, RewindGiveKget, Crash
<1>2. ret' = ret \/ ret' = [ret EXCEPT ![t] = None]
  BY DEF Begin, Acquire, Exchange, Alive, LoadSingle, LoadGet, LoadPut, MoveOut, Leave,
         GiveBack, RewindKget, RewindBack, RewindGiveKput, RewindGiveKget, Crash, Return
<1>3. pc[t] # "rw_rear"
  <2>1. CASE Crash(t)
    <3>1. MaxCrash # 0
      BY <2>1 DEF Crash, FifoInv, QueueInv, RingType
    <3>2. pc[t] = "rw_rear" => req[t] \in Calls[t] /\ req[t].op = "rewind"
      BY DEF FifoInv, QueueInv, CallInv, RewindLabels
    <3> QED BY <3>1, <3>2 DEF Unbroken
  <2>2. CASE ~Crash(t)
    BY <2>2 DEF Begin, Acquire, Exchange, Alive, LoadSingle, LoadGet, LoadPut, MoveOut, Leave,
         GiveBack, RewindKget, RewindBack, RewindGiveKput, RewindGiveKget
  <2> QED BY <2>1, <2>2
<1>4. UNCHANGED pc \/ \E l : Goto(t, l) /\ l # "rw_rear"
  BY DEF Begin, Acquire, Exchange, Alive, LoadSingle, LoadGet, LoadPut, MoveOut, Leave,
         GiveBack, RewindKget, RewindBack, RewindGiveKput, RewindGiveKget, Crash, Return
<1>5. Items' = Items
  <2>1. CASE UNCHANGED pc
    BY <1>1, <2>1 DEF Items
  <2>2. ASSUME NEW l, Goto(t, l), l # "rw_rear" PROVE Items' = Items
    BY <1>1, <1>3, <2>2, ItemsStay
  <2> QED BY <1>4, <2>1, <2>2
<1> QED BY <1>2, <1>5, StepOfList

\* An empty ring is an empty list.
LEMMA InitImplementsInit == Init => Fifo!Init
<1> SUFFICES ASSUME Init PROVE Fifo!Init
  OBVIOUS
<1>1. RingType /\ ~Rewinding
  BY QueueInvInit DEF QueueInv, Init, Rewinding
<1>2. Dist(head, rear) = 0
  BY DEF Init, Dist
<1>3. Items \in Seq(Values) /\ Len(Items) = 0
  BY <1>1, <1>2, ItemsIsList, ListFacts DEF RingType
<1>4. Items = <<>>
  BY <1>3, EmptySeq
<1> QED BY <1>4 DEF Init, Fifo!Init, None, Fifo!None

\* In a queue without QUEUE_TIMEOUT every call of getq(), putq(), their batch forms,
\* peek() and rewind() takes effect at one instant as on a bounded first-in first-out
\* list: for any number of threads, any capacity, any flags besides, and whoever dies,
\* but for a thread that dies in the middle of a rewind.
THEOREM ImplementsBoundedFifo ==
  ASSUME MaxCrash = 0 \/ \A t \in Threads : \A r \in Calls[t] : r.op # "rewind"
  PROVE  Spec /\ "TIMEOUT" \notin flags => ImplementsFifo
<1>1. Init /\ "TIMEOUT" \notin flags => FifoInv /\ Fifo!Init
  <2> SUFFICES ASSUME Init, "TIMEOUT" \notin flags PROVE FifoInv /\ Fifo!Init
    OBVIOUS
  <2>1. \A t \in Threads : \A s \in Sides : ~Holds(t, s)
    BY DEF Init, Holds, InCall, InRewind
  <2> QED BY <2>1, KeyTypeInit, QueueInvInit, InitImplementsInit DEF FifoInv, KeyHeld, OneInside
<1>2. FifoInv /\ [Next]_vars => FifoInv'
  <2> SUFFICES ASSUME FifoInv, [Next]_vars PROVE FifoInv'
    OBVIOUS
  <2>1. KeyType' /\ QueueInv' /\ "TIMEOUT" \notin flags'
    BY KeyTypeNext, QueueInvNext, FlagsFixed DEF FifoInv
  <2>2. CASE UNCHANGED vars
    BY <2>1, <2>2 DEF vars, FifoInv, KeyHeld, OneInside, Holds, Side
  <2>3. ASSUME NEW t \in Threads, Begin(t) \/ Step(t) \/ Crash(t) PROVE FifoInv'
    BY <2>1, <2>3, NextIsKeyStep, KeyStepPreserves DEF FifoInv
  <2> QED BY <2>2, <2>3 DEF Next
<1>3. FifoInv /\ [Next]_vars => [Fifo!Next]_(Fifo!vars)
  <2> SUFFICES ASSUME FifoInv, [Next]_vars PROVE [Fifo!Next]_(Fifo!vars)
    OBVIOUS
  <2>1. CASE UNCHANGED vars
    BY <2>1 DEF vars, Fifo!vars, Items
  <2>2. ASSUME NEW t \in Threads, Begin(t) \/ Step(t) \/ Crash(t)
        PROVE  [Fifo!Next]_(Fifo!vars)
    BY <2>2, TestImplements, PutDoesNotFitImplements, PublishHeadImplements,
       PublishRearImplements, MoveInImplements, RewindImplements, OtherStepsImplement
       DEF Step, Rewind, Unbroken
  <2> QED BY <2>1, <2>2 DEF Next
<1> QED BY <1>1, <1>2, <1>3, PTL DEF Spec, ImplementsFifo, Fifo!Spec

=============================================================================
