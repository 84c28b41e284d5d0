-------------------------- MODULE SessionIocp_proofs --------------------------
(***************************************************************************)
(* No operation of SessionIocp outlives its session, for any kinds and any *)
(* amount of data, when the pool has the one worker that activate() starts *)
(* unless told otherwise (iocp1.h:33).                                     *)
(*                                                                         *)
(* Each counter is the number of requests queued, of operations in the     *)
(* hands of the system and of packets in the port, and what the threads    *)
(* have still to count down (CountInv).  From Disconnect on the packet of  *)
(* its own is in one place, or it is given up and then nothing is left     *)
(* (NullInv); it counts as a receive, so the checker that reads no pending *)
(* receive, and then no pending send, finds both sides over (EndInv).      *)
(***************************************************************************)
EXTENDS TLAPS, SequenceTheorems, FiniteSetTheorems, FunctionTheorems

CONSTANTS Kinds, MaxData

VARIABLES kind, state, sendq, recvq, pendSend, pendRecv, flight, port, closed, good, pc, todo, seen

\* The worker.
w1 == "worker"

INSTANCE SessionIocp WITH Workers <- {w1}

-----------------------------------------------------------------------------
(* The inductive invariant *)

\* How many elements of s are in S; a condition as a number.
Num(s, S) == Cardinality({i \in DOMAIN s : s[i] \in S})
One(b) == IF b THEN 1 ELSE 0

\* The packets of the port for the operations O.
Packets(O) == Num(port, O \X BOOLEAN)
SendPackets == Packets({"send"})
RecvPackets == Packets({"recv", "accept"})
NullPackets == Packets({"null"})

\* The operations that m_nPendingRecv counts, and what counts an operation down.
Receives == {"recv", "accept"}
Uncounts(op) == IF op = "send" THEN "sent" ELSE "received"

Places == {"idle", "ops", "count", "call", "close", "hold", "post", "drainRecv", "drainedRecv",
           "drainSend", "drainedSend", "handle", "nullSend", "nullRecv", "again", "hasPending"}

\* What the variables hold.
Types ==
  /\ kind \in AllKinds /\ state \in {"OK", "DISCONNECT", "READY"}
  /\ sendq \in Nat /\ recvq \in Nat /\ pendSend \in Int /\ pendRecv \in Int
  /\ flight \in [Ops -> Nat] /\ closed \in BOOLEAN
  /\ port \in Seq((Ops \union {"null"}) \X BOOLEAN)
  /\ pc \in [Threads -> Places] /\ todo \in [Threads -> Seq(Tasks)]
  /\ seen \in [Threads -> {<<>>} \union ((Ops \union {"null"}) \X BOOLEAN)]

\* What a thread has still to count down, less what it has queued and not yet counted.
NumSent(s) == Num(s, {"sent"})
NumReceived(s) == Num(s, {"received"})
Sent(t) == NumSent(todo[t])
Received(t) == NumReceived(todo[t])
OwesSend(t) ==
  Sent(t) + One(pc[t] = "call" /\ Head(todo[t]) = "beginSend") + One(pc[t] = "drainedSend")
  + One(pc[t] = "handle" /\ seen[t][1] = "send") - One(pc[t] = "count" /\ Head(todo[t]) = "send")
OwesRecv(t) ==
  Received(t) + One(pc[t] = "call" /\ Head(todo[t]) # "beginSend")
  + One(pc[t] \in {"post", "drainedRecv", "nullSend", "nullRecv", "again"})
  + One(pc[t] = "handle" /\ seen[t][1] \in Receives) - One(pc[t] = "count" /\ Head(todo[t]) = "recv")

\* Each counter is what is queued, in the hands of the system, in the port, and owed.
SumSend == OwesSend("starter") + OwesSend("checker") + OwesSend(w1)
SumRecv == OwesRecv("starter") + OwesRecv("checker") + OwesRecv(w1)

CountInv ==
  /\ pendSend = sendq + flight["send"] + SendPackets + SumSend
  /\ pendRecv = recvq + flight["recv"] + flight["accept"] + RecvPackets + NullPackets
                + SumRecv

\* What the threads may have to do, and where.
StarterTodos == {<<>>, <<"send">>, <<"recv">>, <<"accept">>, <<"beginSend">>, <<"beginRecv">>}
RecvToCome == {<<"send", "recv">>, <<"beginSend", "recv">>, <<"sent", "disconnect", "recv">>,
               <<"disconnect", "recv">>, <<"recv">>}
CheckerTodos == RecvToCome \union {<<>>, <<"beginRecv">>, <<"received", "disconnect">>, <<"disconnect">>}
\* What a worker that has taken a packet of op may have to do.
Steps(k, op) ==
  IF op = "send" THEN {"beginSend", "sent", "disconnect"}
                      \union (IF k \in {"pingpong", "udpclient"}
                              THEN {"recv", "beginRecv", "received"} ELSE {})
  ELSE Tasks

PlaceInv ==
  /\ \A t \in Threads :
       /\ pc[t] \in {"idle", "handle", "nullSend", "nullRecv", "again", "hasPending"} => todo[t] = <<>>
       /\ pc[t] = "count" => todo[t] # <<>> /\ Head(todo[t]) \in {"send", "recv"}
       /\ pc[t] = "call" => todo[t] # <<>> /\ Head(todo[t]) \in {"beginSend", "beginRecv", "accept"}
       /\ pc[t] \in {"close", "hold", "post", "drainRecv", "drainedRecv", "drainSend", "drainedSend"}
          => todo[t] # <<>> /\ Head(todo[t]) = "disconnect" /\ state # "OK"
  /\ todo["starter"] \in StarterTodos /\ pc["starter"] \in {"idle", "ops", "count", "call"}
  /\ todo["checker"] \in CheckerTodos
  /\ pc["checker"] \notin {"handle", "nullSend", "nullRecv", "again"}
  /\ seen["starter"] = <<>> /\ seen["checker"] = <<>>
  /\ kind = "client" => pc["starter"] = "idle"
  /\ pc[w1] # "hasPending" /\ (pc[w1] = "idle" <=> seen[w1] = <<>>)
  /\ seen[w1] # <<>> /\ seen[w1][1] = "null" =>
       /\ pc[w1] \in {"nullSend", "nullRecv", "again", "ops"}
       /\ todo[w1] \in {<<>>, <<"received">>}
  /\ seen[w1] # <<>> /\ seen[w1][1] # "null" =>
       /\ pc[w1] \notin {"nullSend", "nullRecv", "again"}
       /\ todo[w1] \in Seq(Steps(kind, seen[w1][1]))
       /\ todo[w1] # <<>> => todo[w1][Len(todo[w1])] = Uncounts(seen[w1][1])

\* Before the first request is counted nobody else runs, and the receive of a client is its first.
NoFlight(O) == \A o \in O : flight[o] = 0
FreshInv ==
  /\ todo["starter"] # <<>> => pc["checker"] = "idle"
  /\ todo["starter"] # <<>> \/ todo["checker"] = <<"send", "recv">> =>
       /\ state = "OK" /\ ~closed /\ NoFlight(Ops) /\ port = <<>> /\ pc[w1] = "idle"
RecvToComeInv ==
  todo["checker"] \in RecvToCome =>
    /\ kind = "client" /\ NoFlight(Receives) /\ RecvPackets = 0
    /\ seen[w1] # <<>> => seen[w1][1] \in {"send", "null"}

\* The packet of Disconnect: on its way, held by a worker, or given up, and then nothing is left.
Nulls == NullPackets + One(pc[w1] \in {"nullSend", "nullRecv", "again"})
         + One(pc[w1] \in {"close", "hold", "post"}) + One(pc["checker"] \in {"close", "hold", "post"})
Quiet == /\ closed /\ NoFlight(Ops) /\ port = <<>>
         /\ pc[w1] # "idle" => pc[w1] = "ops" /\ seen[w1][1] = "null"
NullInv ==
  /\ IF state = "OK" THEN Nulls = 0 /\ ~closed ELSE Nulls = 1 \/ (Nulls = 0 /\ Quiet)
  /\ state # "OK" => closed \/ pc[w1] = "close" \/ pc["checker"] = "close"
  /\ pc[w1] = "nullRecv" => flight["send"] = 0 /\ SendPackets = 0

\* A side is over: nothing in the hands of the system, no packet, no callback.
Over(O) == seen[w1] # <<>> /\ seen[w1][1] \in O => pc[w1] = "ops" /\ todo[w1] = <<>>
RecvDone == NoFlight(Receives) /\ RecvPackets = 0 /\ Over(Receives)
SendDone == NoFlight({"send"}) /\ SendPackets = 0 /\ Over({"send"})
EndInv ==
  /\ pc["checker"] = "hasPending" => state = "DISCONNECT" /\ RecvDone
  /\ state = "READY" => pc["checker"] = "idle" /\ RecvDone /\ SendDone

IInv == Types /\ CountInv /\ PlaceInv /\ FreshInv /\ RecvToComeInv /\ NullInv /\ EndInv

-----------------------------------------------------------------------------
(* Counting *)

\* Num and One count.
LEMMA OneIs == ASSUME NEW b \in BOOLEAN PROVE One(b) \in {0, 1} /\ (One(b) = 1 <=> b)
BY DEF One

\* A count is a number.
LEMMA NumNat ==
  ASSUME NEW X, NEW s \in Seq(X), NEW S
  PROVE  /\ Num(s, S) \in Nat
         /\ Num(s, S) = 0 => \A i \in DOMAIN s : s[i] \notin S
         /\ (\A i \in DOMAIN s : s[i] \notin S) => Num(s, S) = 0
<1> DEFINE I == {i \in DOMAIN s : s[i] \in S}
<1>1. DOMAIN s = 1..Len(s) /\ Len(s) \in Nat
  OBVIOUS
<1>2. IsFiniteSet(I)
  <2>1. IsFiniteSet(1..Len(s)) /\ I \in SUBSET (1..Len(s))
    BY <1>1, FS_Interval
  <2> QED BY <2>1, FS_Subset
<1>3. Num(s, S) = Cardinality(I)
  BY DEF Num
<1> QED BY <1>2, <1>3, FS_CardinalityType, FS_EmptySet

\* The elements of two sequences one after the other.
LEMMA NumConcat ==
  ASSUME NEW X, NEW s \in Seq(X), NEW t \in Seq(X), NEW S
  PROVE  Num(s \o t, S) = Num(s, S) + Num(t, S)
<1> DEFINE m == Len(s)  I == {i \in DOMAIN s : s[i] \in S}  J == {i \in DOMAIN t : t[i] \in S}
           c == s \o t  K == {i \in DOMAIN c : c[i] \in S}  shift(j) == m + j
           JJ == {shift(j) : j \in J}  f == [j \in J |-> m + j]
<1>1. /\ m \in Nat /\ Len(t) \in Nat /\ DOMAIN s = 1..m /\ DOMAIN t = 1..Len(t)
      /\ c \in Seq(X) /\ Len(c) = m + Len(t) /\ DOMAIN c = 1..(m + Len(t))
      /\ \A i \in 1..(m + Len(t)) : c[i] = IF i <= m THEN s[i] ELSE t[i - m]
  BY ConcatProperties
<1> HIDE DEF m, c
<1>2. IsFiniteSet(I) /\ IsFiniteSet(J)
  <2>1. IsFiniteSet(1..m) /\ I \in SUBSET (1..m)
    BY <1>1, FS_Interval
  <2>2. IsFiniteSet(1..Len(t)) /\ J \in SUBSET (1..Len(t))
    BY <1>1, FS_Interval
  <2> QED BY <2>1, <2>2, FS_Subset
<1>3. f \in Bijection(J, JJ)
  <2>1. f \in [J -> JJ]
    OBVIOUS
  <2>2. \A a1, a2 \in J : f[a1] = f[a2] => a1 = a2
    BY <1>1
  <2>3. \A b1 \in JJ : \E a1 \in J : f[a1] = b1
    OBVIOUS
  <2> QED BY <2>1, <2>2, <2>3, Fun_IsBij
<1>4. IsFiniteSet(JJ) /\ Cardinality(JJ) = Cardinality(J)
  BY <1>2, <1>3, FS_Bijection DEF ExistsBijection
<1>5. K = I \union JJ
  <2>1. ASSUME NEW k \in K PROVE k \in I \union JJ
    <3>1. CASE k <= m
      BY <1>1, <3>1
    <3>2. CASE k > m
      <4>1. k - m \in J /\ k = shift(k - m)
        BY <1>1, <3>2
      <4> QED BY <4>1
    <3> QED BY <1>1, <3>1, <3>2
  <2>2. I \subseteq K
    BY <1>1
  <2>3. ASSUME NEW j \in J PROVE m + j \in K
    BY <1>1
  <2> QED BY <2>1, <2>2, <2>3
<1>6. I \cap JJ = {}
  BY <1>1
<1>7. Cardinality(K) = Cardinality(I) + Cardinality(JJ) - Cardinality(I \cap JJ)
  BY <1>2, <1>4, <1>5, FS_Union
<1>8. Cardinality(I) \in Nat /\ Cardinality(J) \in Nat
  BY <1>2, FS_CardinalityType
<1>9. Cardinality(K) = Cardinality(I) + Cardinality(J)
  <2>1. Cardinality(I \cap JJ) = 0
    BY <1>6, FS_EmptySet
  <2> HIDE DEF I, J, K, JJ
  <2> QED BY <2>1, <1>4, <1>7, <1>8
<1> QED BY <1>9 DEF Num, c

\* A sequence of one element.
LEMMA NumSingle ==
  ASSUME NEW x, NEW S
  PROVE  Num(<<x>>, S) = One(x \in S)
<1>1. CASE x \in S
  <2>1. {i \in DOMAIN <<x>> : <<x>>[i] \in S} = {1}
    BY <1>1
  <2> QED BY <1>1, <2>1, FS_Singleton DEF Num, One
<1>2. CASE x \notin S
  <2>1. {i \in DOMAIN <<x>> : <<x>>[i] \in S} = {}
    BY <1>2
  <2> QED BY <1>2, <2>1, FS_EmptySet DEF Num, One
<1> QED BY <1>1, <1>2

\* Nothing is counted in the empty sequence.
LEMMA NumEmpty == ASSUME NEW S PROVE Num(<<>>, S) = 0
BY FS_EmptySet DEF Num

\* A sequence is its first element and the others.
LEMMA HeadTail ==
  ASSUME NEW X, NEW s \in Seq(X), s # <<>>
  PROVE  /\ Head(s) \in X /\ Tail(s) \in Seq(X) /\ s = <<Head(s)>> \o Tail(s)
         /\ Len(Tail(s)) = Len(s) - 1 /\ Head(s) = s[1]
         /\ \A i \in 1..Len(Tail(s)) : Tail(s)[i] = s[i + 1]
<1>1. Head(s) \in X /\ Tail(s) \in Seq(X) /\ Len(Tail(s)) = Len(s) - 1 /\ Len(s) \in Nat \ {0}
      /\ Head(s) = s[1] /\ \A i \in 1..Len(Tail(s)) : Tail(s)[i] = s[i + 1]
  BY HeadTailProperties
<1>2. /\ <<Head(s)>> \in Seq(X) /\ <<Head(s)>> \o Tail(s) \in Seq(X)
      /\ Len(<<Head(s)>> \o Tail(s)) = Len(s)
      /\ \A i \in 1..Len(s) : (<<Head(s)>> \o Tail(s))[i] = s[i]
  BY <1>1, ConcatProperties
<1>3. s = <<Head(s)>> \o Tail(s)
  BY <1>2, SeqEqual
<1> QED BY <1>1, <1>3

\* Tail takes the first element out of the count.
LEMMA NumTail ==
  ASSUME NEW X, NEW s \in Seq(X), s # <<>>, NEW S
  PROVE  Num(s, S) = One(Head(s) \in S) + Num(Tail(s), S)
<1>1. Head(s) \in X /\ Tail(s) \in Seq(X) /\ s = <<Head(s)>> \o Tail(s) /\ <<Head(s)>> \in Seq(X)
  BY HeadTail
<1>2. Num(<<Head(s)>> \o Tail(s), S) = Num(<<Head(s)>>, S) + Num(Tail(s), S)
  BY <1>1, NumConcat
<1> QED BY <1>1, <1>2, NumSingle

\* Append counts its element.
LEMMA NumAppend ==
  ASSUME NEW X, NEW s \in Seq(X), NEW x \in X, NEW S
  PROVE  Num(Append(s, x), S) = Num(s, S) + One(x \in S) /\ Append(s, x) \in Seq(X)
<1>1. Append(s, x) = s \o <<x>> /\ <<x>> \in Seq(X) /\ Append(s, x) \in Seq(X)
  BY AppendIsConcat
<1>2. Num(s \o <<x>>, S) = Num(s, S) + Num(<<x>>, S)
  BY <1>1, NumConcat
<1> QED BY <1>1, <1>2, NumSingle

-----------------------------------------------------------------------------
(* Threads and what they have to do *)

\* The threads of a pool of one worker.
LEMMA ThreadsAre ==
  /\ Threads = {"starter", "checker", w1} /\ w1 # "starter" /\ w1 # "checker"
BY DEF Threads, w1

\* What the callbacks do are sequences of known operations.
LEMMA Concats ==
  ASSUME NEW X, NEW x \in X, NEW y \in X, NEW z \in X
  PROVE  <<x>> \o <<y>> = <<x, y>> /\ <<x, y>> \o <<z>> = <<x, y, z>> /\ <<x>> \o <<y, z>> = <<x, y, z>>
<1>1. /\ <<x>> \in Seq(X) /\ <<y>> \in Seq(X) /\ <<z>> \in Seq(X) /\ <<x, y>> \in Seq(X)
      /\ <<y, z>> \in Seq(X) /\ <<x, y, z>> \in Seq(X)
  OBVIOUS
<1>2. <<x>> \o <<y>> = <<x, y>>
  <2>1. <<x>> \o <<y>> \in Seq(X) /\ Len(<<x>> \o <<y>>) = 2
        /\ (<<x>> \o <<y>>)[1] = x /\ (<<x>> \o <<y>>)[2] = y
    BY <1>1, ConcatProperties
  <2>2. \A i \in 1..2 : (<<x>> \o <<y>>)[i] = <<x, y>>[i]
    BY <2>1
  <2> QED BY <1>1, <2>1, <2>2, SeqEqual
<1>3. <<x, y>> \o <<z>> = <<x, y, z>>
  <2>1. <<x, y>> \o <<z>> \in Seq(X) /\ Len(<<x, y>> \o <<z>>) = 3
        /\ (<<x, y>> \o <<z>>)[1] = x /\ (<<x, y>> \o <<z>>)[2] = y /\ (<<x, y>> \o <<z>>)[3] = z
    BY <1>1, ConcatProperties
  <2>2. \A i \in 1..3 : (<<x, y>> \o <<z>>)[i] = <<x, y, z>>[i]
    BY <2>1
  <2> QED BY <1>1, <2>1, <2>2, SeqEqual
<1>4. <<x>> \o <<y, z>> = <<x, y, z>>
  <2>1. <<x>> \o <<y, z>> \in Seq(X) /\ Len(<<x>> \o <<y, z>>) = 3
        /\ (<<x>> \o <<y, z>>)[1] = x /\ (<<x>> \o <<y, z>>)[2] = y /\ (<<x>> \o <<y, z>>)[3] = z
    BY <1>1, ConcatProperties
  <2>2. \A i \in 1..3 : (<<x>> \o <<y, z>>)[i] = <<x, y, z>>[i]
    BY <2>1
  <2> QED BY <1>1, <2>1, <2>2, SeqEqual
<1> QED BY <1>2, <1>3, <1>4

\* A callback is a list of operations that counts nothing down.
LEMMA CallbackIs ==
  ASSUME NEW k \in AllKinds, NEW op \in Ops
  PROVE  Callback(k, op) \in Seq(Steps(k, op)) /\ Callback(k, op) \in Seq(Tasks)
         /\ Num(Callback(k, op), {"sent"}) = 0 /\ Num(Callback(k, op), {"received"}) = 0
<1> DEFINE c == Callback(k, op)
<1>a. \A x, y, z \in Tasks : <<x>> \o <<y>> = <<x, y>> /\ <<x, y>> \o <<z>> = <<x, y, z>>
  BY Concats
<1>1. /\ c \in Seq(Steps(k, op)) /\ c \in Seq(Tasks)
      /\ \A i \in DOMAIN c : c[i] \notin {"sent", "received"}
  <2>1. CASE op = "send" /\ k \in {"pingpong", "udpclient"}
    <3>1. <<"recv">> \o <<"beginSend">> = <<"recv", "beginSend">>
      BY <1>a DEF Tasks
    <3> QED BY <2>1, <3>1 DEF Callback, Steps, Tasks
  <2>2. CASE op = "send" /\ k \notin {"pingpong", "udpclient"}
    <3>1. <<>> \o <<"beginSend">> = <<"beginSend">>
      <4>1. <<"beginSend">> \in Seq({"beginSend"})
        OBVIOUS
      <4> QED BY <4>1, ConcatEmptySeq
    <3> QED BY <2>2, <3>1 DEF Callback, Steps, Tasks
  <2>3. CASE op = "recv" /\ k \in {"pingpong", "udpclient"}
    <3>1. <<"send">> \o <<"beginRecv">> = <<"send", "beginRecv">>
      BY <1>a DEF Tasks
    <3> QED BY <2>3, <3>1 DEF Callback, Steps, Tasks
  <2>4. CASE op = "recv" /\ k \notin {"pingpong", "udpclient"}
    <3>1. <<"send", "recv">> \o <<"beginRecv">> = <<"send", "recv", "beginRecv">>
      BY <1>a DEF Tasks
    <3> QED BY <2>4, <3>1 DEF Callback, Steps, Tasks
  <2>5. CASE op = "accept"
    BY <2>5 DEF Callback, Steps, Tasks
  <2> QED BY <2>1, <2>2, <2>3, <2>4, <2>5 DEF Ops
<1> HIDE DEF c
<1>2. \A i \in DOMAIN c : c[i] \notin {"sent"} /\ c[i] \notin {"received"}
  BY <1>1
<1>3. Num(c, {"sent"}) = 0 /\ Num(c, {"received"}) = 0
  BY <1>1, <1>2, NumNat
<1> QED BY <1>1, <1>3 DEF c

\* The operations that Instead puts in.
LEMMA NumOps ==
  /\ \A x, y \in Tasks : /\ Num(<<x>>, {y}) = One(x = y)
                          /\ <<x>> \in Seq(Tasks)
  /\ \A x, y, z \in Tasks : /\ Num(<<x, z>>, {y}) = One(x = y) + One(z = y)
                             /\ <<x, z>> \in Seq(Tasks)
<1>1. ASSUME NEW x \in Tasks, NEW y \in Tasks, NEW z \in Tasks
      PROVE  /\ Num(<<x>>, {y}) = One(x = y) /\ <<x>> \in Seq(Tasks) /\ <<x, z>> \in Seq(Tasks)
             /\ Num(<<x, z>>, {y}) = One(x = y) + One(z = y)
  <2>1. Num(<<x>>, {y}) = One(x = y) /\ Num(<<z>>, {y}) = One(z = y)
    <3>1. Num(<<x>>, {y}) = One(x \in {y}) /\ Num(<<z>>, {y}) = One(z \in {y})
      BY NumSingle
    <3> QED BY <3>1 DEF One
  <2>2. <<x>> \in Seq(Tasks) /\ <<z>> \in Seq(Tasks) /\ <<x, z>> \in Seq(Tasks)
    OBVIOUS
  <2>4. <<x, z>> = <<x>> \o <<z>>
    BY Concats
  <2>5. Num(<<x>> \o <<z>>, {y}) = Num(<<x>>, {y}) + Num(<<z>>, {y})
    <3>1. ASSUME NEW S PROVE Num(<<x>> \o <<z>>, S) = Num(<<x>>, S) + Num(<<z>>, S)
      BY <2>2, NumConcat
    <3> QED BY <3>1
  <2> QED BY <2>1, <2>2, <2>4, <2>5
<1>2. \A x, y \in Tasks : Num(<<x>>, {y}) = One(x = y) /\ <<x>> \in Seq(Tasks)
  <2> TAKE x, y \in Tasks
  <2> QED BY <1>1 DEF One
<1>3. \A x, y, z \in Tasks : Num(<<x, z>>, {y}) = One(x = y) + One(z = y)
                              /\ <<x, z>> \in Seq(Tasks)
  <2> TAKE x, y, z \in Tasks
  <2> QED BY ZenonT(30), <1>1 DEF One
<1> QED BY <1>2, <1>3

\* The next operation is done, or replaced.
LEMMA AdvanceIs ==
  ASSUME Types, NEW t \in Threads, todo[t] # <<>>, todo' = [todo EXCEPT ![t] = Tail(@)]
  PROVE  /\ todo' \in [Threads -> Seq(Tasks)] /\ todo'[t] = Tail(todo[t])
         /\ Head(todo[t]) \in Tasks
         /\ \A x \in Tasks : Num(todo'[t], {x}) = Num(todo[t], {x}) - One(Head(todo[t]) = x)
<1>1. todo[t] \in Seq(Tasks) /\ todo \in [Threads -> Seq(Tasks)]
  BY DEF Types
<1>2. Head(todo[t]) \in Tasks /\ Tail(todo[t]) \in Seq(Tasks)
  BY <1>1, HeadTail
<1>3. todo' \in [Threads -> Seq(Tasks)] /\ todo'[t] = Tail(todo[t])
  BY <1>1, <1>2
<1>4. ASSUME NEW x \in Tasks
      PROVE  Num(todo'[t], {x}) = Num(todo[t], {x}) - One(Head(todo[t]) = x)
  <2>1. Num(todo[t], {x}) = One(Head(todo[t]) \in {x}) + Num(Tail(todo[t]), {x})
    BY <1>1, NumTail
  <2>2. Num(todo[t], {x}) = One(Head(todo[t]) = x) + Num(Tail(todo[t]), {x})
    BY <2>1 DEF One
  <2>3. Num(todo[t], {x}) \in Nat /\ Num(Tail(todo[t]), {x}) \in Nat
    BY <1>1, <1>2, NumNat
  <2> QED BY <1>3, <2>2, <2>3 DEF One
<1> QED BY <1>2, <1>3, <1>4

\* Instead replaces the first operation.
LEMMA InsteadIs ==
  ASSUME Types, NEW t \in Threads, todo[t] # <<>>, NEW ops \in Seq(Tasks),
         todo' = [todo EXCEPT ![t] = ops \o Tail(@)]
  PROVE  /\ todo' \in [Threads -> Seq(Tasks)] /\ todo'[t] = ops \o Tail(todo[t])
         /\ Head(todo[t]) \in Tasks
         /\ \A x \in Tasks : Num(todo'[t], {x}) = Num(ops, {x}) + Num(todo[t], {x})
                                                   - One(Head(todo[t]) = x)
<1>1. todo[t] \in Seq(Tasks) /\ todo \in [Threads -> Seq(Tasks)]
  BY DEF Types
<1>2. Head(todo[t]) \in Tasks /\ Tail(todo[t]) \in Seq(Tasks)
  BY <1>1, HeadTail
<1>3. todo' \in [Threads -> Seq(Tasks)] /\ todo'[t] = ops \o Tail(todo[t])
  BY <1>1, <1>2
<1>4. ASSUME NEW x \in Tasks
      PROVE  Num(todo'[t], {x}) = Num(ops, {x}) + Num(todo[t], {x}) - One(Head(todo[t]) = x)
  <2>1. Num(todo[t], {x}) = One(Head(todo[t]) \in {x}) + Num(Tail(todo[t]), {x})
    BY <1>1, NumTail
  <2>2. Num(todo[t], {x}) = One(Head(todo[t]) = x) + Num(Tail(todo[t]), {x})
    BY <2>1 DEF One
  <2>3. Num(todo[t], {x}) \in Nat /\ Num(Tail(todo[t]), {x}) \in Nat /\ Num(ops, {x}) \in Nat
    BY <1>1, <1>2, NumNat
  <2>4. Num(todo'[t], {x}) = Num(ops, {x}) + Num(Tail(todo[t]), {x})
    <3>1. Num(ops \o Tail(todo[t]), {x}) = Num(ops, {x}) + Num(Tail(todo[t]), {x})
      <4>1. ASSUME NEW S PROVE Num(ops \o Tail(todo[t]), S) = Num(ops, S) + Num(Tail(todo[t]), S)
        BY <1>2, NumConcat
      <4> QED BY <4>1
    <3> QED BY <1>3, <3>1
  <2> QED BY <2>2, <2>3, <2>4 DEF One
<1> QED BY <1>2, <1>3, <1>4

\* A thread owes whole numbers.
LEMMA OwesInt ==
  ASSUME Types, NEW t \in Threads
  PROVE  OwesSend(t) \in Int /\ OwesRecv(t) \in Int
<1>1. todo[t] \in Seq(Tasks)
  BY DEF Types
<1>2. Num(todo[t], {"sent"}) \in Nat /\ Num(todo[t], {"received"}) \in Nat
  BY <1>1, NumNat
<1>3. \A b : One(b) \in Int
  BY DEF One
<1> QED BY <1>2, <1>3 DEF Sent, Received, NumSent, NumReceived, OwesSend, OwesRecv

\* The same after a step.
LEMMA OwesIntNext ==
  ASSUME Types', NEW t \in Threads
  PROVE  OwesSend(t)' \in Int /\ OwesRecv(t)' \in Int
<1>1. todo'[t] \in Seq(Tasks)
  BY DEF Types
<1>2. Num(todo'[t], {"sent"}) \in Nat /\ Num(todo'[t], {"received"}) \in Nat
  BY <1>1, NumNat
<1>3. \A b : One(b) \in Int
  BY DEF One
<1> QED BY <1>2, <1>3 DEF Sent, Received, NumSent, NumReceived, OwesSend, OwesRecv

\* What a step of one thread changes in the sums is what that thread owes more.
LEMMA SumFrame ==
  ASSUME Types, Types', NEW t \in Threads,
         \A u \in Threads \ {t} : pc'[u] = pc[u] /\ todo'[u] = todo[u] /\ seen'[u] = seen[u]
  PROVE  /\ SumSend \in Int /\ SumRecv \in Int
         /\ SumSend' = SumSend + OwesSend(t)' - OwesSend(t)
         /\ SumRecv' = SumRecv + OwesRecv(t)' - OwesRecv(t)
<1>1. \A u \in Threads \ {t} : OwesSend(u)' = OwesSend(u) /\ OwesRecv(u)' = OwesRecv(u)
  BY DEF Sent, Received, NumSent, NumReceived, OwesSend, OwesRecv
<1>2. \A u \in Threads : /\ OwesSend(u) \in Int /\ OwesRecv(u) \in Int
                         /\ OwesSend(u)' \in Int /\ OwesRecv(u)' \in Int
  BY OwesInt, OwesIntNext
<1>3. /\ Threads = {"starter", "checker", w1} /\ w1 # "starter" /\ w1 # "checker"
      /\ t = "starter" \/ t = "checker" \/ t = w1
  BY ThreadsAre
<1>4. SumSend \in Int /\ SumRecv \in Int
  BY <1>2, <1>3 DEF SumSend, SumRecv
<1>5. SumSend' = SumSend + OwesSend(t)' - OwesSend(t)
  BY <1>1, <1>2, <1>3 DEF SumSend, w1
<1>6. SumRecv' = SumRecv + OwesRecv(t)' - OwesRecv(t)
  BY <1>1, <1>2, <1>3 DEF SumRecv, w1
<1> QED BY <1>4, <1>5, <1>6

-----------------------------------------------------------------------------
(* Types *)

Operation(t) == Put(t) \/ Count(t) \/ Begin(t) \/ Call(t) \/ Uncount(t) \/ Disconnect(t) \/ Hold(t)
                \/ Post(t) \/ Drain(t) \/ OpsOver(t)

\* A thread that is at an operation has one to do.
LEMMA AtHas ==
  ASSUME Types, PlaceInv, NEW t \in Threads
  PROVE  /\ pc[t] \in {"count", "call", "close", "hold", "post", "drainRecv", "drainedRecv", "drainSend",
                       "drainedSend"} => todo[t] # <<>>
         /\ \A op : At(t, op) => todo[t] # <<>> /\ pc[t] = "ops" /\ Head(todo[t]) = op
BY DEF PlaceInv, At

\* The packet of Disconnect in the port.
LEMMA NullAppended ==
  Types => Append(port, <<"null", TRUE>>) \in Seq((Ops \union {"null"}) \X BOOLEAN)
<1>1. <<"null", TRUE>> \in (Ops \union {"null"}) \X BOOLEAN
  OBVIOUS
<1> QED BY <1>1, NumAppend DEF Types

\* Types of the steps of a thread.
LEMMA TypesOperate ==
  ASSUME Types, PlaceInv, NEW t \in Threads, Operate(t)
  PROVE  Types'
<1>h. /\ pc[t] \in {"count", "call", "close", "hold", "post", "drainRecv", "drainedRecv", "drainSend",
                       "drainedSend"} => todo[t] # <<>>
      /\ \A op : At(t, op) => todo[t] # <<>> /\ pc[t] = "ops" /\ Head(todo[t]) = op
  BY AtHas
<1>o. /\ <<"beginSend">> \in Seq(Tasks) /\ <<"beginRecv">> \in Seq(Tasks)
      /\ <<"sent", "disconnect">> \in Seq(Tasks) /\ <<"received", "disconnect">> \in Seq(Tasks)
      /\ <<"disconnect", "received">> \in Seq(Tasks)
  BY NumOps DEF Tasks
<1>1. CASE Put(t)
  BY <1>1 DEF Put, Types, Goto, counters, Places
<1>2. CASE Count(t)
  <2>1. todo[t] # <<>>
    BY <1>2, <1>h DEF Count
  <2>2. todo' \in [Threads -> Seq(Tasks)]
    <3>1. ASSUME Advance(t) PROVE todo' \in [Threads -> Seq(Tasks)]
      BY <3>1, <2>1, AdvanceIs DEF Advance
    <3>2. ASSUME NEW ops \in Seq(Tasks), Instead(t, ops) PROVE todo' \in [Threads -> Seq(Tasks)]
      BY <3>2, <2>1, InsteadIs DEF Instead
    <3>3. UNCHANGED todo => todo' \in [Threads -> Seq(Tasks)]
      BY DEF Types
    <3> QED BY <1>2, <1>o, <3>1, <3>2, <3>3 DEF Count
  <2>3. /\ pc' \in [Threads -> Places] /\ pendSend' \in Int /\ pendRecv' \in Int
    <3>1. \E l \in {"ops", "call"} : pc' = [pc EXCEPT ![t] = l]
      BY <1>2 DEF Count, Goto, Advance, Instead
    <3>2. pc' \in [Threads -> Places]
      BY <3>1 DEF Types, Places
    <3>3. pendSend' \in {pendSend, pendSend + 1} /\ pendRecv' \in {pendRecv, pendRecv + 1}
      BY <1>2 DEF Count
    <3> QED BY <3>2, <3>3 DEF Types
  <2> QED BY <1>2, <2>2, <2>3 DEF Count, Types, queues
<1>3. CASE Begin(t)
  <2>1. todo[t] # <<>>
    BY <1>3, <1>h DEF Begin
  <2>2. todo' \in [Threads -> Seq(Tasks)]
    <3>1. ASSUME Advance(t) PROVE todo' \in [Threads -> Seq(Tasks)]
      BY <3>1, <2>1, AdvanceIs DEF Advance
    <3>3. UNCHANGED todo => todo' \in [Threads -> Seq(Tasks)]
      BY DEF Types
    <3> QED BY <1>3, <3>1, <3>3 DEF Begin
  <2>3. /\ pc' \in [Threads -> Places] /\ sendq' \in Nat /\ recvq' \in Nat
    <3>1. \E l \in {"ops", "call"} : pc' = [pc EXCEPT ![t] = l]
      BY <1>3 DEF Begin, Goto, Advance
    <3>2. pc' \in [Threads -> Places]
      BY <3>1 DEF Types, Places
    <3>3. /\ sendq' = sendq \/ (sendq > 0 /\ sendq' = sendq - 1)
          /\ recvq' = recvq \/ (recvq > 0 /\ recvq' = recvq - 1)
      BY <1>3 DEF Begin, queues
    <3> QED BY <3>2, <3>3 DEF Types
  <2> QED BY <1>3, <2>2, <2>3 DEF Begin, Types, counters
<1>4. CASE Call(t)
  <2>1. todo[t] # <<>>
    BY <1>4, <1>h DEF Call
  <2>2. todo' \in [Threads -> Seq(Tasks)] /\ pc' \in [Threads -> Places]
    <3>1. ASSUME Advance(t) PROVE todo' \in [Threads -> Seq(Tasks)]
      BY <3>1, <2>1, AdvanceIs DEF Advance
    <3>2. ASSUME NEW ops \in Seq(Tasks), Instead(t, ops) PROVE todo' \in [Threads -> Seq(Tasks)]
      BY <3>2, <2>1, InsteadIs DEF Instead
    <3> DEFINE failed == CASE Called(t) = "send" -> <<"sent", "disconnect">>
                        [] Called(t) = "recv" -> <<"received", "disconnect">>
                        [] OTHER -> <<"disconnect", "received">>
    <3>3. failed \in Seq(Tasks)
      BY <1>o
    <3>4. Advance(t) \/ Instead(t, failed)
      BY <1>4 DEF Call
    <3>5. pc' \in [Threads -> Places]
      <4> HIDE DEF failed
      <4> QED BY <3>4 DEF Advance, Instead, Goto, Types, Places
    <3> QED BY <3>1, <3>2, <3>3, <3>4, <3>5
  <2>3. flight' \in [Ops -> Nat]
    <3>1. Called(t) \in Ops
      BY DEF Called, Ops
    <3>2. flight' = [flight EXCEPT ![Called(t)] = @ + 1] \/ flight' = flight
      BY <1>4 DEF Call
    <3>3. flight \in [Ops -> Nat]
      BY DEF Types
    <3> HIDE DEF Called
    <3> QED BY <3>1, <3>2, <3>3
  <2> QED BY <1>4, <2>2, <2>3 DEF Call, Types, counters, queues
<1>5. CASE Uncount(t)
  <2>1. todo[t] # <<>>
    BY <1>5, <1>h DEF Uncount
  <2>2. todo' \in [Threads -> Seq(Tasks)]
    BY <1>5, <2>1, AdvanceIs DEF Advance, Uncount
  <2>3. pc' \in [Threads -> Places] /\ pendSend' \in Int /\ pendRecv' \in Int
    BY <1>5 DEF Uncount, Types, Goto, Advance, Places
  <2> QED BY <1>5, <2>2, <2>3 DEF Uncount, Types, queues
<1>6. CASE Disconnect(t)
  <2>1. todo[t] # <<>>
    BY <1>6, <1>h DEF Disconnect
  <2>2. todo' \in [Threads -> Seq(Tasks)]
    <3>1. ASSUME Advance(t) PROVE todo' \in [Threads -> Seq(Tasks)]
      BY <3>1, <2>1, AdvanceIs DEF Advance
    <3>3. UNCHANGED todo => todo' \in [Threads -> Seq(Tasks)]
      BY DEF Types
    <3> QED BY <1>6, <3>1, <3>3 DEF Disconnect
  <2>3. /\ pc' \in [Threads -> Places] /\ state' \in {"OK", "DISCONNECT", "READY"}
    BY <1>6 DEF Disconnect, Types, Goto, Advance, Places
  <2>4. closed' \in BOOLEAN
    BY <1>6, Zenon DEF Disconnect, Types
  <2> QED BY <1>6, <2>2, <2>3, <2>4 DEF Disconnect, Types, counters, queues
<1>7. CASE Hold(t)
  BY <1>7 DEF Hold, Types, Goto, queues, Places
<1>8. CASE Post(t)
  <2>1. port' \in Seq((Ops \union {"null"}) \X BOOLEAN)
    BY <1>8, NullAppended DEF Post
  <2> QED BY <1>8, <2>1 DEF Post, Types, Goto, queues, counters, Places
<1>9. CASE Drain(t)
  <2>1. todo[t] # <<>>
    BY <1>9, <1>h DEF Drain
  <2>2. todo' \in [Threads -> Seq(Tasks)]
    <3>1. ASSUME Advance(t) PROVE todo' \in [Threads -> Seq(Tasks)]
      BY <3>1, <2>1, AdvanceIs DEF Advance
    <3>3. UNCHANGED todo => todo' \in [Threads -> Seq(Tasks)]
      BY DEF Types
    <3> QED BY <1>9, <3>1, <3>3 DEF Drain
  <2>3. /\ pc' \in [Threads -> Places] /\ sendq' \in Nat /\ recvq' \in Nat
        /\ pendSend' \in Int /\ pendRecv' \in Int
    <3>1. \E l \in {"drainedRecv", "drainRecv", "drainSend", "drainedSend", "ops"} :
            pc' = [pc EXCEPT ![t] = l]
      BY <1>9 DEF Drain, Goto, Advance
    <3>2. pc' \in [Threads -> Places]
      BY <3>1 DEF Types, Places
    <3>3. /\ sendq' = sendq \/ (sendq > 0 /\ sendq' = sendq - 1)
          /\ recvq' = recvq \/ (recvq > 0 /\ recvq' = recvq - 1)
          /\ pendSend' \in {pendSend, pendSend - 1} /\ pendRecv' \in {pendRecv, pendRecv - 1}
      BY <1>9 DEF Drain, queues, counters
    <3> QED BY <3>2, <3>3 DEF Types
  <2> QED BY <1>9, <2>2, <2>3 DEF Drain, Types
<1>10. CASE OpsOver(t)
  BY <1>10 DEF OpsOver, Types, Goto, queues, counters, Places
<1> QED
  BY <1>1, <1>2, <1>3, <1>4, <1>5, <1>6, <1>7, <1>8, <1>9, <1>10 DEF Operate

\* A packet that is taken is one of an operation, or the one of Disconnect.
LEMMA PacketIs ==
  ASSUME Types, port # <<>>
  PROVE  /\ Head(port) \in (Ops \union {"null"}) \X BOOLEAN /\ Head(port) # <<>>
         /\ Head(port)[1] \in Ops \union {"null"}
         /\ Tail(port) \in Seq((Ops \union {"null"}) \X BOOLEAN)
<1>1. /\ Head(port) \in (Ops \union {"null"}) \X BOOLEAN
      /\ Tail(port) \in Seq((Ops \union {"null"}) \X BOOLEAN)
  BY HeadTail DEF Types
<1>2. Head(port) # <<>> /\ Head(port)[1] \in Ops \union {"null"}
  BY <1>1
<1> QED BY <1>1, <1>2

\* A worker keeps the types,
LEMMA TypesWorker ==
  ASSUME Types, PlaceInv, Dequeue(w1) \/ Handle(w1) \/ Null(w1)
  PROVE  Types'
<1>w. w1 \in Threads
  BY ThreadsAre
<1>o. \A x, z \in Tasks : <<x>> \in Seq(Tasks) /\ <<x, z>> \in Seq(Tasks)
  BY NumOps
<1>1. CASE Dequeue(w1)
  <2>1. /\ seen' \in [Threads -> {<<>>} \union ((Ops \union {"null"}) \X BOOLEAN)]
        /\ port' \in Seq((Ops \union {"null"}) \X BOOLEAN)
    BY <1>1, <1>w, PacketIs DEF Dequeue, Types
  <2>2. pc' \in [Threads -> Places]
    BY <1>1, <1>w DEF Dequeue, Types, Goto, Places
  <2>3. todo' \in [Threads -> Seq(Tasks)]
    <3>1. <<"disconnect", IF Head(port)[1] = "send" THEN "sent" ELSE "received">> \in Seq(Tasks)
      BY <1>o DEF Tasks
    <3> QED BY <1>1, <1>w, <3>1 DEF Dequeue, Types
  <2> QED BY <1>1, <2>1, <2>2, <2>3 DEF Dequeue, Types, queues, counters
<1>2. CASE Handle(w1)
  <2>1. seen[w1][1] \in Ops
    <3>1. pc[w1] = "handle"
      BY <1>2 DEF Handle
    <3>2. seen[w1] # <<>> /\ seen[w1][1] # "null"
      BY <3>1 DEF PlaceInv
    <3>3. seen[w1] \in (Ops \union {"null"}) \X BOOLEAN
      BY <1>w, <3>2 DEF Types
    <3> QED BY <3>2, <3>3
  <2> DEFINE c == (IF state = "DISCONNECT" THEN <<>> ELSE Callback(kind, seen[w1][1]))
             u == <<IF seen[w1][1] = "send" THEN "sent" ELSE "received">>
  <2>2. c \in Seq(Tasks) /\ u \in Seq(Tasks)
    <3>1. u \in Seq(Tasks)
      BY <1>o DEF Tasks
    <3>2. kind \in AllKinds
      BY ThreadsAre DEF Types
    <3> QED BY <2>1, <3>1, <3>2, CallbackIs
  <2>3. todo' = [todo EXCEPT ![w1] = c \o u]
    BY <1>2 DEF Handle
  <2> HIDE DEF c, u
  <2>4. todo' \in [Threads -> Seq(Tasks)]
    BY <1>w, <2>2, <2>3, ConcatProperties DEF Types
  <2>5. pc' \in [Threads -> Places]
    BY <1>2, <1>w DEF Handle, Types, Goto, Places
  <2> QED BY <1>2, <2>4, <2>5 DEF Handle, Types, queues, counters
<1>3. CASE Null(w1)
  <2>1. todo' \in [Threads -> Seq(Tasks)]
    BY <1>3, <1>w, <1>o DEF Null, Types, Tasks
  <2>2. pc' \in [Threads -> Places]
    BY <1>3, <1>w DEF Null, Types, Goto, Places
  <2>3. port' \in Seq((Ops \union {"null"}) \X BOOLEAN)
    <3>1. port' = port \/ port' = Append(port, <<"null", TRUE>>)
      BY <1>3 DEF Null
    <3> QED BY <3>1, NullAppended DEF Types
  <2>4. pendSend' = pendSend /\ pendRecv' = pendRecv
    BY <1>3 DEF Null, counters
  <2> QED BY <1>3, <2>1, <2>2, <2>3, <2>4 DEF Null, Types, queues
<1> QED BY <1>1, <1>2, <1>3

\* and so do the checker and the system.
LEMMA TypesOthers ==
  ASSUME Types, Check \/ Complete
  PROVE  Types'
<1>1. CASE Check
  <2>1. todo' \in [Threads -> Seq(Tasks)]
    <3>1. <<"disconnect">> \in Seq(Tasks)
      BY NumOps DEF Tasks
    <3>2. todo' = todo \/ todo' = [todo EXCEPT !["checker"] = <<"disconnect">>]
      BY <1>1 DEF Check
    <3>3. todo \in [Threads -> Seq(Tasks)]
      BY DEF Types
    <3>4. CASE todo' = [todo EXCEPT !["checker"] = <<"disconnect">>]
      BY <3>1, <3>3, <3>4
    <3> QED BY <3>2, <3>3, <3>4
  <2>2. pc' \in [Threads -> Places] /\ state' \in {"OK", "DISCONNECT", "READY"}
    BY <1>1, ThreadsAre DEF Check, Types, Goto, Places
  <2> QED BY <1>1, <2>1, <2>2 DEF Check, Types, queues, counters
<1>2. CASE Complete
  <2>1. PICK o \in Ops : /\ flight' = [flight EXCEPT ![o] = @ - 1] /\ flight[o] > 0
                         /\ \E b \in BOOLEAN : port' = Append(port, <<o, b>>)
    BY <1>2 DEF Complete
  <2>2. port' \in Seq((Ops \union {"null"}) \X BOOLEAN)
    BY <2>1 DEF Types
  <2>3. flight' \in [Ops -> Nat]
    BY <2>1 DEF Types
  <2> QED BY <1>2, <2>2, <2>3 DEF Complete, Types, queues, counters
<1> QED BY <1>1, <1>2

-----------------------------------------------------------------------------
(* The counters *)

\* The packets are counted by natural numbers.
LEMMA PacketsNat == ASSUME Types PROVE \A O : Packets(O) \in Nat
BY NumNat DEF Types, Packets

\* A packet is put into the port, or taken.
LEMMA PortAppend ==
  ASSUME Types, NEW o \in Ops \union {"null"}, NEW b \in BOOLEAN, port' = Append(port, <<o, b>>)
  PROVE  /\ SendPackets' = SendPackets + One(o = "send")
         /\ RecvPackets' = RecvPackets + One(o \in Receives)
         /\ NullPackets' = NullPackets + One(o = "null")
<1>1. <<o, b>> \in (Ops \union {"null"}) \X BOOLEAN
  OBVIOUS
<1>2. ASSUME NEW S PROVE Num(Append(port, <<o, b>>), S) = Num(port, S) + One(<<o, b>> \in S)
  <2>1. port \in Seq((Ops \union {"null"}) \X BOOLEAN)
    BY DEF Types
  <2> QED BY <1>1, <2>1, NumAppend
<1>3. ASSUME NEW O PROVE Num(port', O \X BOOLEAN) = Num(port, O \X BOOLEAN) + One(o \in O)
  <2>1. Num(port', O \X BOOLEAN) = Num(port, O \X BOOLEAN) + One(<<o, b>> \in O \X BOOLEAN)
    BY <1>2
  <2>2. One(<<o, b>> \in O \X BOOLEAN) = One(o \in O)
    BY DEF One
  <2> QED BY <2>1, <2>2
<1>4. /\ SendPackets' = SendPackets + One(o \in {"send"})
      /\ RecvPackets' = RecvPackets + One(o \in Receives)
      /\ NullPackets' = NullPackets + One(o \in {"null"})
  BY <1>3, Zenon DEF SendPackets, RecvPackets, NullPackets, Packets, Receives
<1> QED BY <1>4 DEF One

\* The packet of Disconnect is one more.
LEMMA PortNull ==
  ASSUME Types, port' = Append(port, <<"null", TRUE>>)
  PROVE  SendPackets' = SendPackets /\ RecvPackets' = RecvPackets /\ NullPackets' = NullPackets + 1
<1>1. "null" \in Ops \union {"null"} /\ TRUE \in BOOLEAN
  OBVIOUS
<1>2. /\ SendPackets' = SendPackets + One("null" = "send")
      /\ RecvPackets' = RecvPackets + One("null" \in Receives)
      /\ NullPackets' = NullPackets + One("null" = "null")
  BY <1>1, PortAppend
<1>3. SendPackets \in Nat /\ RecvPackets \in Nat
  BY PacketsNat DEF SendPackets, RecvPackets
<1> QED BY <1>2, <1>3 DEF One, Receives

\* A packet that is taken is one less.
LEMMA PortTail ==
  ASSUME Types, port # <<>>, port' = Tail(port)
  PROVE  /\ SendPackets = SendPackets' + One(Head(port)[1] = "send")
         /\ RecvPackets = RecvPackets' + One(Head(port)[1] \in Receives)
         /\ NullPackets = NullPackets' + One(Head(port)[1] = "null")
         /\ SendPackets' \in Nat /\ RecvPackets' \in Nat /\ NullPackets' \in Nat
<1>1. Head(port) \in (Ops \union {"null"}) \X BOOLEAN
      /\ Tail(port) \in Seq((Ops \union {"null"}) \X BOOLEAN)
  BY PacketIs
<1>2. ASSUME NEW O PROVE /\ Num(port, O \X BOOLEAN) = Num(port', O \X BOOLEAN) + One(Head(port)[1] \in O)
                         /\ Num(port', O \X BOOLEAN) \in Nat
  <2>1. Num(port, O \X BOOLEAN) = One(Head(port) \in O \X BOOLEAN) + Num(Tail(port), O \X BOOLEAN)
    BY NumTail DEF Types
  <2>2. One(Head(port) \in O \X BOOLEAN) = One(Head(port)[1] \in O)
    BY <1>1 DEF One
  <2>3. Num(Tail(port), O \X BOOLEAN) \in Nat /\ One(Head(port)[1] \in O) \in Nat
    BY <1>1, NumNat DEF One
  <2> QED BY <2>1, <2>2, <2>3
<1>3. /\ SendPackets = SendPackets' + One(Head(port)[1] \in {"send"})
      /\ RecvPackets = RecvPackets' + One(Head(port)[1] \in Receives)
      /\ NullPackets = NullPackets' + One(Head(port)[1] \in {"null"})
      /\ SendPackets' \in Nat /\ RecvPackets' \in Nat /\ NullPackets' \in Nat
  BY <1>2, Zenon DEF SendPackets, RecvPackets, NullPackets, Packets, Receives
<1> QED BY <1>3 DEF One

\* A step of one thread that leaves the port alone and does what its sums say.
LEMMA CountFrame ==
  ASSUME Types, Types', CountInv, NEW t \in Threads, port' = port,
         \A u \in Threads \ {t} : pc'[u] = pc[u] /\ todo'[u] = todo[u] /\ seen'[u] = seen[u],
         OwesSend(t)' - OwesSend(t) = (pendSend' - sendq' - flight'["send"])
                                      - (pendSend - sendq - flight["send"]),
         OwesRecv(t)' - OwesRecv(t) = (pendRecv' - recvq' - flight'["recv"] - flight'["accept"])
                                      - (pendRecv - recvq - flight["recv"] - flight["accept"])
  PROVE  CountInv'
<1>2. /\ SumSend \in Int /\ SumRecv \in Int
      /\ SumSend' = SumSend + OwesSend(t)' - OwesSend(t)
      /\ SumRecv' = SumRecv + OwesRecv(t)' - OwesRecv(t)
      /\ OwesSend(t) \in Int /\ OwesRecv(t) \in Int /\ OwesSend(t)' \in Int /\ OwesRecv(t)' \in Int
  BY SumFrame, OwesInt, OwesIntNext
<1>3. /\ sendq \in Int /\ recvq \in Int /\ pendSend \in Int /\ pendRecv \in Int
      /\ sendq' \in Int /\ recvq' \in Int /\ pendSend' \in Int /\ pendRecv' \in Int
      /\ \A o \in Ops : flight[o] \in Int /\ flight'[o] \in Int
  BY DEF Types
<1>4. "send" \in Ops /\ "recv" \in Ops /\ "accept" \in Ops
  BY DEF Ops
<1>5. /\ SendPackets' = SendPackets /\ RecvPackets' = RecvPackets
      /\ NullPackets' = NullPackets /\ SendPackets \in Int
      /\ RecvPackets \in Int /\ NullPackets \in Int
  <2>1. /\ SendPackets' = SendPackets /\ RecvPackets' = RecvPackets
        /\ NullPackets' = NullPackets
    BY Zenon DEF SendPackets, RecvPackets, NullPackets, Packets, Receives
  <2>2. /\ SendPackets \in Nat /\ RecvPackets \in Nat /\ NullPackets \in Nat
    BY PacketsNat DEF SendPackets, RecvPackets, NullPackets
  <2> QED BY <2>1, <2>2
<1>6. pendSend' = sendq' + flight'["send"] + SendPackets' + SumSend'
  BY <1>2, <1>3, <1>4, <1>5 DEF CountInv
<1>7. pendRecv' = recvq' + flight'["recv"] + flight'["accept"] + RecvPackets'
                  + NullPackets' + SumRecv'
  <2>1. /\ flight["recv"] \in Int /\ flight["accept"] \in Int
        /\ flight'["recv"] \in Int /\ flight'["accept"] \in Int
    BY <1>3, <1>4
  <2>2. SumRecv = pendRecv - recvq - flight["recv"] - flight["accept"] - RecvPackets - NullPackets
    BY <1>2, <1>3, <1>5, <2>1 DEF CountInv
  <2>3. SumRecv' = SumRecv + (pendRecv' - recvq' - flight'["recv"] - flight'["accept"])
                   - (pendRecv - recvq - flight["recv"] - flight["accept"])
    BY <1>2, <1>3, <2>1
  <2>4. SumRecv' = pendRecv' - recvq' - flight'["recv"] - flight'["accept"] - RecvPackets - NullPackets
    BY <1>2, <1>3, <1>5, <2>1, <2>2, <2>3
  <2> QED BY <1>2, <1>3, <1>5, <2>1, <2>4
<1> QED BY <1>6, <1>7 DEF CountInv

\* What a thread owes when it is at a place.
LEMMA OwesAt ==
  ASSUME Types, PlaceInv, NEW t \in Threads
  PROVE  /\ pc[t] \in {"ops", "close", "hold", "drainRecv", "drainSend", "hasPending", "idle"} =>
              OwesSend(t) = Sent(t) /\ OwesRecv(t) = Received(t)
         /\ pc[t] \in {"post", "drainedRecv"} =>
              OwesSend(t) = Sent(t) /\ OwesRecv(t) = Received(t) + 1
         /\ pc[t] = "drainedSend" =>
              OwesSend(t) = Sent(t) + 1 /\ OwesRecv(t) = Received(t)
         /\ pc[t] = "count" /\ Head(todo[t]) = "send" =>
              OwesSend(t) = Sent(t) - 1 /\ OwesRecv(t) = Received(t)
         /\ pc[t] = "count" /\ Head(todo[t]) = "recv" =>
              OwesSend(t) = Sent(t) /\ OwesRecv(t) = Received(t) - 1
         /\ pc[t] = "call" /\ Head(todo[t]) = "beginSend" =>
              OwesSend(t) = Sent(t) + 1 /\ OwesRecv(t) = Received(t)
         /\ pc[t] = "call" /\ Head(todo[t]) # "beginSend" =>
              OwesSend(t) = Sent(t) /\ OwesRecv(t) = Received(t) + 1
         /\ pc[t] \in {"nullSend", "nullRecv", "again"} =>
              OwesSend(t) = Sent(t) /\ OwesRecv(t) = Received(t) + 1
         /\ Sent(t) \in Nat /\ Received(t) \in Nat
<1>1. Sent(t) \in Nat /\ Received(t) \in Nat
  BY NumNat DEF Types, Sent, Received, NumSent, NumReceived
<1> QED BY <1>1 DEF OwesSend, OwesRecv, One

\* The same after a step.
LEMMA OwesAtNext ==
  ASSUME Types', NEW t \in Threads
  PROVE  /\ pc'[t] \in {"ops", "close", "hold", "drainRecv", "drainSend", "hasPending", "idle"} =>
              OwesSend(t)' = Sent(t)' /\ OwesRecv(t)' = Received(t)'
         /\ pc'[t] \in {"post", "drainedRecv"} =>
              OwesSend(t)' = Sent(t)' /\ OwesRecv(t)' = Received(t)' + 1
         /\ pc'[t] = "drainedSend" =>
              OwesSend(t)' = Sent(t)' + 1 /\ OwesRecv(t)' = Received(t)'
         /\ pc'[t] = "count" /\ Head(todo'[t]) = "send" =>
              OwesSend(t)' = Sent(t)' - 1 /\ OwesRecv(t)' = Received(t)'
         /\ pc'[t] = "count" /\ Head(todo'[t]) = "recv" =>
              OwesSend(t)' = Sent(t)' /\ OwesRecv(t)' = Received(t)' - 1
         /\ pc'[t] = "call" /\ Head(todo'[t]) = "beginSend" =>
              OwesSend(t)' = Sent(t)' + 1 /\ OwesRecv(t)' = Received(t)'
         /\ pc'[t] = "call" /\ Head(todo'[t]) # "beginSend" =>
              OwesSend(t)' = Sent(t)' /\ OwesRecv(t)' = Received(t)' + 1
         /\ pc'[t] \in {"nullSend", "nullRecv", "again"} =>
              OwesSend(t)' = Sent(t)' /\ OwesRecv(t)' = Received(t)' + 1
         /\ Sent(t)' \in Nat /\ Received(t)' \in Nat
<1>1. Sent(t)' \in Nat /\ Received(t)' \in Nat
  BY NumNat DEF Types, Sent, Received, NumSent, NumReceived
<1> QED BY <1>1 DEF OwesSend, OwesRecv, One

\* What a thread has still to count down.
LEMMA SentAdvance ==
  ASSUME Types, NEW t \in Threads, todo[t] # <<>>, todo' = [todo EXCEPT ![t] = Tail(@)]
  PROVE  /\ Sent(t)' = Sent(t) - One(Head(todo[t]) = "sent")
         /\ Received(t)' = Received(t) - One(Head(todo[t]) = "received")
<1>1. \A x \in Tasks : Num(todo'[t], {x}) = Num(todo[t], {x}) - One(Head(todo[t]) = x)
  BY AdvanceIs
<1> QED BY <1>1 DEF Tasks, Sent, Received, NumSent, NumReceived

\* The same for what replaces an operation.
LEMMA SentInstead ==
  ASSUME Types, NEW t \in Threads, todo[t] # <<>>, NEW ops \in Seq(Tasks),
         todo' = [todo EXCEPT ![t] = ops \o Tail(@)]
  PROVE  /\ Sent(t)' = NumSent(ops) + Sent(t) - One(Head(todo[t]) = "sent")
         /\ Received(t)' = NumReceived(ops) + Received(t) - One(Head(todo[t]) = "received")
<1>1. \A x \in Tasks : Num(todo'[t], {x}) = Num(ops, {x}) + Num(todo[t], {x})
                                               - One(Head(todo[t]) = x)
  BY InsteadIs
<1> QED BY <1>1 DEF Tasks, Sent, Received, NumSent, NumReceived

\* What two operations count down.
LEMMA SentPair ==
  \A x, z \in Tasks : /\ <<x, z>> \in Seq(Tasks)
                       /\ NumSent(<<x, z>>) = One(x = "sent") + One(z = "sent")
                       /\ NumReceived(<<x, z>>) = One(x = "received") + One(z = "received")
<1> TAKE x, z \in Tasks
<1>1. "sent" \in Tasks /\ "received" \in Tasks
  BY DEF Tasks
<1> QED BY <1>1, NumOps DEF NumSent, NumReceived

\* What the lists of SessionIocp count down.
LEMMA SentOps ==
  /\ \A x \in Tasks : /\ <<x>> \in Seq(Tasks)
                        /\ NumSent(<<x>>) = One(x = "sent") /\ NumReceived(<<x>>) = One(x = "received")
  /\ <<"beginSend">> \in Seq(Tasks) /\ <<"beginRecv">> \in Seq(Tasks)
  /\ <<"sent", "disconnect">> \in Seq(Tasks) /\ <<"received", "disconnect">> \in Seq(Tasks)
  /\ <<"disconnect", "received">> \in Seq(Tasks)
  /\ NumSent(<<"beginSend">>) = 0 /\ NumReceived(<<"beginSend">>) = 0
  /\ NumSent(<<"beginRecv">>) = 0 /\ NumReceived(<<"beginRecv">>) = 0
  /\ NumSent(<<"sent", "disconnect">>) = 1 /\ NumReceived(<<"sent", "disconnect">>) = 0
  /\ NumSent(<<"received", "disconnect">>) = 0 /\ NumReceived(<<"received", "disconnect">>) = 1
  /\ NumSent(<<"disconnect", "received">>) = 0 /\ NumReceived(<<"disconnect", "received">>) = 1
<1>1. \A x \in Tasks : /\ <<x>> \in Seq(Tasks)
                        /\ NumSent(<<x>>) = One(x = "sent") /\ NumReceived(<<x>>) = One(x = "received")
  BY NumOps DEF Tasks, One, NumSent, NumReceived
<1> QED BY <1>1, SentPair DEF Tasks, One

\* The counters agree after a step of a thread.
LEMMA CountOperate ==
  ASSUME Types, PlaceInv, CountInv, NEW t \in Threads, Operate(t)
  PROVE  CountInv'
<1>t. Types'
  BY TypesOperate
<1>h. /\ pc[t] \in {"count", "call", "close", "hold", "post", "drainRecv", "drainedRecv", "drainSend",
                       "drainedSend"} => todo[t] # <<>>
      /\ \A op : At(t, op) => todo[t] # <<>> /\ pc[t] = "ops" /\ Head(todo[t]) = op
  BY AtHas
<1>f. /\ pc \in [Threads -> Places] /\ todo \in [Threads -> Seq(Tasks)]
      /\ sendq \in Nat /\ recvq \in Nat /\ pendSend \in Int /\ pendRecv \in Int
      /\ flight["send"] \in Nat /\ flight["recv"] \in Nat /\ flight["accept"] \in Nat
      /\ flight \in [Ops -> Nat]
  BY DEF Types, Ops
<1>a. ASSUME Advance(t), todo[t] # <<>>
      PROVE  /\ \A u \in Threads \ {t} : pc'[u] = pc[u] /\ todo'[u] = todo[u]
             /\ pc'[t] = "ops"
             /\ Head(todo[t]) = "sent" => Sent(t)' = Sent(t) - 1 /\ Received(t)' = Received(t)
             /\ Head(todo[t]) = "received" => Sent(t)' = Sent(t) /\ Received(t)' = Received(t) - 1
             /\ Head(todo[t]) \notin {"sent", "received"} => Sent(t)' = Sent(t) /\ Received(t)' = Received(t)
  <2>1. Sent(t)' = Sent(t) - One(Head(todo[t]) = "sent")
        /\ Received(t)' = Received(t) - One(Head(todo[t]) = "received")
    BY <1>a, SentAdvance DEF Advance
  <2>3. Sent(t) \in Nat /\ Received(t) \in Nat
    BY OwesAt
  <2> QED BY <1>a, <1>f, <2>1, <2>3 DEF Advance, Goto, One
<1>i. ASSUME NEW ops \in Seq(Tasks), Instead(t, ops), todo[t] # <<>>,
             Head(todo[t]) \notin {"sent", "received"}
      PROVE  /\ \A u \in Threads \ {t} : pc'[u] = pc[u] /\ todo'[u] = todo[u]
             /\ pc'[t] = "ops"
             /\ Sent(t)' = NumSent(ops) + Sent(t)
             /\ Received(t)' = NumReceived(ops) + Received(t)
  <2>1. Sent(t)' = NumSent(ops) + Sent(t) - One(Head(todo[t]) = "sent")
        /\ Received(t)' = NumReceived(ops) + Received(t) - One(Head(todo[t]) = "received")
    BY <1>i, SentInstead DEF Instead
  <2>3. Sent(t) \in Nat /\ Received(t) \in Nat /\ NumSent(ops) \in Nat /\ NumReceived(ops) \in Nat
    BY OwesAt, NumNat DEF NumSent, NumReceived
  <2> QED BY <1>i, <1>f, <2>1, <2>3 DEF Instead, Goto, One
<1>o. /\ <<"beginSend">> \in Seq(Tasks) /\ <<"beginRecv">> \in Seq(Tasks)
      /\ <<"sent", "disconnect">> \in Seq(Tasks) /\ <<"received", "disconnect">> \in Seq(Tasks)
      /\ <<"disconnect", "received">> \in Seq(Tasks)
      /\ NumSent(<<"beginSend">>) = 0 /\ NumReceived(<<"beginSend">>) = 0
      /\ NumSent(<<"beginRecv">>) = 0 /\ NumReceived(<<"beginRecv">>) = 0
      /\ NumSent(<<"sent", "disconnect">>) = 1 /\ NumReceived(<<"sent", "disconnect">>) = 0
      /\ NumSent(<<"received", "disconnect">>) = 0 /\ NumReceived(<<"received", "disconnect">>) = 1
      /\ NumSent(<<"disconnect", "received">>) = 0 /\ NumReceived(<<"disconnect", "received">>) = 1
  BY SentOps
<1> DEFINE
      Frame == \A u \in Threads \ {t} : pc'[u] = pc[u] /\ todo'[u] = todo[u] /\ seen'[u] = seen[u]
      SendKept == OwesSend(t)' - OwesSend(t) = (pendSend' - sendq' - flight'["send"])
                                               - (pendSend - sendq - flight["send"])
      RecvKept == OwesRecv(t)' - OwesRecv(t) =
                    (pendRecv' - recvq' - flight'["recv"] - flight'["accept"])
                    - (pendRecv - recvq - flight["recv"] - flight["accept"])
<1>c. ASSUME port' = port, Frame, SendKept, RecvKept PROVE CountInv'
  BY <1>c, <1>t, CountFrame
<1>p. /\ pc[t] \in {"ops", "close", "hold", "drainRecv", "drainSend", "hasPending", "idle"} =>
           OwesSend(t) = Sent(t) /\ OwesRecv(t) = Received(t)
      /\ pc[t] \in {"post", "drainedRecv"} =>
           OwesSend(t) = Sent(t) /\ OwesRecv(t) = Received(t) + 1
      /\ pc[t] = "drainedSend" =>
           OwesSend(t) = Sent(t) + 1 /\ OwesRecv(t) = Received(t)
      /\ pc[t] = "count" /\ Head(todo[t]) = "send" =>
           OwesSend(t) = Sent(t) - 1 /\ OwesRecv(t) = Received(t)
      /\ pc[t] = "count" /\ Head(todo[t]) = "recv" =>
           OwesSend(t) = Sent(t) /\ OwesRecv(t) = Received(t) - 1
      /\ pc[t] = "call" /\ Head(todo[t]) = "beginSend" =>
           OwesSend(t) = Sent(t) + 1 /\ OwesRecv(t) = Received(t)
      /\ pc[t] = "call" /\ Head(todo[t]) # "beginSend" =>
           OwesSend(t) = Sent(t) /\ OwesRecv(t) = Received(t) + 1
      /\ pc[t] \in {"nullSend", "nullRecv", "again"} =>
           OwesSend(t) = Sent(t) /\ OwesRecv(t) = Received(t) + 1
      /\ Sent(t) \in Nat /\ Received(t) \in Nat
  BY OwesAt
<1>q. /\ pc'[t] \in {"ops", "close", "hold", "drainRecv", "drainSend", "hasPending", "idle"} =>
           OwesSend(t)' = Sent(t)' /\ OwesRecv(t)' = Received(t)'
      /\ pc'[t] \in {"post", "drainedRecv"} =>
           OwesSend(t)' = Sent(t)' /\ OwesRecv(t)' = Received(t)' + 1
      /\ pc'[t] = "drainedSend" =>
           OwesSend(t)' = Sent(t)' + 1 /\ OwesRecv(t)' = Received(t)'
      /\ pc'[t] = "count" /\ Head(todo'[t]) = "send" =>
           OwesSend(t)' = Sent(t)' - 1 /\ OwesRecv(t)' = Received(t)'
      /\ pc'[t] = "count" /\ Head(todo'[t]) = "recv" =>
           OwesSend(t)' = Sent(t)' /\ OwesRecv(t)' = Received(t)' - 1
      /\ pc'[t] = "call" /\ Head(todo'[t]) = "beginSend" =>
           OwesSend(t)' = Sent(t)' + 1 /\ OwesRecv(t)' = Received(t)'
      /\ pc'[t] = "call" /\ Head(todo'[t]) # "beginSend" =>
           OwesSend(t)' = Sent(t)' /\ OwesRecv(t)' = Received(t)' + 1
      /\ pc'[t] \in {"nullSend", "nullRecv", "again"} =>
           OwesSend(t)' = Sent(t)' /\ OwesRecv(t)' = Received(t)' + 1
      /\ Sent(t)' \in Nat /\ Received(t)' \in Nat
  BY <1>t, OwesAtNext
<1>s. todo' = todo => Sent(t)' = Sent(t) /\ Received(t)' = Received(t)
  BY DEF Sent, Received
<1>1. CASE Put(t)
  <2>1. todo' = todo /\ seen' = seen /\ pc' = [pc EXCEPT ![t] = "count"] /\ port' = port
        /\ flight' = flight /\ pendSend' = pendSend /\ pendRecv' = pendRecv /\ pc[t] = "ops"
    BY <1>1 DEF Put, Goto, At, counters
  <2>2. \/ Head(todo[t]) = "send" /\ sendq' = sendq + 1 /\ recvq' = recvq
        \/ Head(todo[t]) = "recv" /\ recvq' = recvq + 1 /\ sendq' = sendq
    BY <1>1 DEF Put, At
  <2> QED
    <3>a. Frame
      BY <1>f, <2>1, <2>2
    <3>b. SendKept
      BY <1>f, <2>1, <2>2, <1>p, <1>q, <1>s
    <3>c. RecvKept
      BY SMTT(30), <1>f, <2>1, <2>2, <1>p, <1>q, <1>s
    <3> QED BY <1>f, <2>1, <2>2, <3>a, <3>b, <3>c, <1>c
<1>2. CASE Count(t)
  <2>1. seen' = seen /\ port' = port /\ flight' = flight /\ sendq' = sendq /\ recvq' = recvq
        /\ todo[t] # <<>>
    BY <1>2, <1>h DEF Count, queues
  <2>2. CASE pc[t] = "count" /\ Head(todo[t]) = "send"
    <3>1. /\ pendSend' = pendSend + 1 /\ pendRecv' = pendRecv
          /\ Advance(t) \/ Instead(t, <<"beginSend">>)
      BY <1>2, <2>2 DEF Count, At
    <3>2. CASE Advance(t)
      <4>a. Frame /\ pc'[t] = "ops" /\ Sent(t)' = Sent(t) /\ Received(t)' = Received(t)
        BY <1>f, <1>a, <2>1, <2>2, <3>1, <3>2
      <4>b. SendKept
        BY <1>f, <2>1, <2>2, <3>1, <3>2, <4>a, <1>p, <1>q
      <4>c. RecvKept
        BY <1>f, <2>1, <2>2, <3>1, <3>2, <4>a, <1>p, <1>q
      <4> QED BY <1>f, <2>1, <2>2, <3>1, <3>2, <4>a, <4>b, <4>c, <1>c
    <3>3. CASE Instead(t, <<"beginSend">>)
      <4>a. Frame /\ pc'[t] = "ops" /\ Sent(t)' = Sent(t) /\ Received(t)' = Received(t)
        <5>1. /\ Frame /\ pc'[t] = "ops" /\ Sent(t)' = NumSent(<<"beginSend">>) + Sent(t)
              /\ Received(t)' = NumReceived(<<"beginSend">>) + Received(t)
          BY <2>2, <3>3, <1>f, <1>i, <1>o, <2>1
        <5> QED BY <5>1, <1>o, <1>p
      <4>b. SendKept
        BY <1>f, <2>1, <2>2, <3>1, <3>3, <4>a, <1>p, <1>q
      <4>c. RecvKept
        BY <1>f, <2>1, <2>2, <3>1, <3>3, <4>a, <1>p, <1>q
      <4> QED BY <1>f, <2>1, <2>2, <3>1, <3>3, <4>a, <4>b, <4>c, <1>c
    <3> QED BY <3>1, <3>2, <3>3
  <2>3. CASE pc[t] = "count" /\ Head(todo[t]) = "recv"
    <3>1. /\ pendSend' = pendSend /\ pendRecv' = pendRecv + 1
          /\ Advance(t) \/ Instead(t, <<"beginRecv">>)
      BY <1>2, <2>3 DEF Count, At
    <3>2. CASE Advance(t)
      <4>a. Frame /\ pc'[t] = "ops" /\ Sent(t)' = Sent(t) /\ Received(t)' = Received(t)
        BY <1>f, <1>a, <2>1, <2>3, <3>1, <3>2
      <4>b. SendKept
        BY <1>f, <2>1, <2>3, <3>1, <3>2, <4>a, <1>p, <1>q
      <4>c. RecvKept
        BY <1>f, <2>1, <2>3, <3>1, <3>2, <4>a, <1>p, <1>q
      <4> QED BY <1>f, <2>1, <2>3, <3>1, <3>2, <4>a, <4>b, <4>c, <1>c
    <3>3. CASE Instead(t, <<"beginRecv">>)
      <4>a. Frame /\ pc'[t] = "ops" /\ Sent(t)' = Sent(t) /\ Received(t)' = Received(t)
        <5>1. /\ Frame /\ pc'[t] = "ops" /\ Sent(t)' = NumSent(<<"beginRecv">>) + Sent(t)
              /\ Received(t)' = NumReceived(<<"beginRecv">>) + Received(t)
          BY <2>3, <3>3, <1>f, <1>i, <1>o, <2>1
        <5> QED BY <5>1, <1>o, <1>p
      <4>b. SendKept
        BY <1>f, <2>1, <2>3, <3>1, <3>3, <4>a, <1>p, <1>q
      <4>c. RecvKept
        BY <1>f, <2>1, <2>3, <3>1, <3>3, <4>a, <1>p, <1>q
      <4> QED BY <1>f, <2>1, <2>3, <3>1, <3>3, <4>a, <4>b, <4>c, <1>c
    <3> QED BY <3>1, <3>2, <3>3
  <2>4. CASE At(t, "accept")
    <3>1. /\ pendSend' = pendSend /\ pendRecv' = pendRecv + 1 /\ todo' = todo
          /\ pc' = [pc EXCEPT ![t] = "call"] /\ pc[t] = "ops" /\ Head(todo[t]) = "accept"
      BY <1>2, <2>4 DEF Count, At, Goto
    <3> QED
      <4>a. Frame
        BY <1>f, <2>1, <3>1
      <4>b. SendKept
        BY <1>f, <2>1, <3>1, <1>p, <1>q, <1>s
      <4>c. RecvKept
        BY <1>f, <2>1, <3>1, <1>p, <1>q, <1>s
      <4> QED BY <1>f, <2>1, <3>1, <4>a, <4>b, <4>c, <1>c
  <2> QED BY <1>2, <2>2, <2>3, <2>4 DEF Count
<1>3. CASE Begin(t)
  <2>1. seen' = seen /\ port' = port /\ flight' = flight /\ pendSend' = pendSend /\ pendRecv' = pendRecv
        /\ todo[t] # <<>> /\ pc[t] = "ops" /\ Head(todo[t]) \in {"beginSend", "beginRecv"}
    BY <1>3, <1>h DEF Begin, counters
  <2>2. \/ /\ Head(todo[t]) = "beginSend" /\ sendq' = sendq - 1 /\ recvq' = recvq
           /\ pc' = [pc EXCEPT ![t] = "call"] /\ todo' = todo
        \/ /\ Head(todo[t]) = "beginRecv" /\ recvq' = recvq - 1 /\ sendq' = sendq
           /\ pc' = [pc EXCEPT ![t] = "call"] /\ todo' = todo
        \/ Advance(t) /\ sendq' = sendq /\ recvq' = recvq
    BY <1>3 DEF Begin, At, Goto, queues
  <2>3. CASE Advance(t) /\ sendq' = sendq /\ recvq' = recvq
    <3>a. Frame /\ pc'[t] = "ops" /\ Sent(t)' = Sent(t) /\ Received(t)' = Received(t)
      BY <1>f, <1>a, <2>1, <2>3
    <3>b. SendKept
      BY <1>f, <2>1, <2>3, <3>a, <1>p, <1>q
    <3>c. RecvKept
      BY <1>f, <2>1, <2>3, <3>a, <1>p, <1>q
    <3> QED BY <1>f, <2>1, <2>3, <3>a, <3>b, <3>c, <1>c
  <2>4. CASE ~(Advance(t) /\ sendq' = sendq /\ recvq' = recvq)
    <3>a. Frame
      BY <1>f, <2>1, <2>2, <2>4
    <3>b. SendKept
      BY <1>f, <2>1, <2>2, <2>4, <1>p, <1>q, <1>s
    <3>c. RecvKept
      BY <1>f, <2>1, <2>2, <2>4, <1>p, <1>q, <1>s
    <3> QED BY <1>f, <2>1, <2>2, <2>4, <3>a, <3>b, <3>c, <1>c
  <2> QED BY <2>3, <2>4
<1>4. CASE Call(t)
  <2>1. /\ seen' = seen /\ port' = port /\ pendSend' = pendSend /\ pendRecv' = pendRecv
        /\ sendq' = sendq /\ recvq' = recvq /\ todo[t] # <<>> /\ pc[t] = "call"
        /\ Head(todo[t]) \in {"beginSend", "beginRecv", "accept"}
    BY <1>4, <1>h DEF Call, counters, queues, PlaceInv
  <2>2. Called(t) = IF Head(todo[t]) = "beginSend" THEN "send"
                    ELSE IF Head(todo[t]) = "beginRecv" THEN "recv" ELSE "accept"
    BY DEF Called
  <2>3. CASE Advance(t) /\ flight' = [flight EXCEPT ![Called(t)] = @ + 1]
    <3>1. /\ Head(todo[t]) = "beginSend" => flight' = [flight EXCEPT !["send"] = @ + 1]
          /\ Head(todo[t]) = "beginRecv" => flight' = [flight EXCEPT !["recv"] = @ + 1]
          /\ Head(todo[t]) = "accept" => flight' = [flight EXCEPT !["accept"] = @ + 1]
      BY <2>2, <2>3
    <3>2. /\ Head(todo[t]) = "beginSend" => flight'["send"] = flight["send"] + 1
                          /\ flight'["recv"] = flight["recv"] /\ flight'["accept"] = flight["accept"]
          /\ Head(todo[t]) # "beginSend" => flight'["send"] = flight["send"]
                          /\ flight'["recv"] + flight'["accept"] = flight["recv"] + flight["accept"] + 1
      <4>1. CASE Head(todo[t]) = "beginSend"
        BY <1>f, <3>1, <4>1 DEF Ops
      <4>2. CASE Head(todo[t]) = "beginRecv"
        BY <1>f, <3>1, <4>2 DEF Ops
      <4>3. CASE Head(todo[t]) = "accept"
        BY <1>f, <3>1, <4>3 DEF Ops
      <4> QED BY <2>1, <4>1, <4>2, <4>3
    <3> QED
      <4>a. Frame /\ pc'[t] = "ops" /\ Sent(t)' = Sent(t) /\ Received(t)' = Received(t)
        BY <1>f, <1>a, <2>1, <2>3, <3>2
      <4>b. SendKept
        BY <1>f, <2>1, <2>3, <3>2, <4>a, <1>p, <1>q
      <4>c. RecvKept
        BY SMTT(30), <1>f, <2>1, <2>3, <3>2, <4>a, <1>p, <1>q
      <4> QED BY <1>f, <2>1, <2>3, <3>2, <4>a, <4>b, <4>c, <1>c
  <2>4. CASE flight' = flight /\ Head(todo[t]) = "beginSend" /\ Instead(t, <<"sent", "disconnect">>)
    <3>a. Frame /\ pc'[t] = "ops" /\ Sent(t)' = Sent(t) + 1 /\ Received(t)' = Received(t)
      <4>1. /\ Frame /\ pc'[t] = "ops" /\ Sent(t)' = NumSent(<<"sent", "disconnect">>) + Sent(t)
            /\ Received(t)' = NumReceived(<<"sent", "disconnect">>) + Received(t)
        BY <2>4, <1>f, <1>i, <1>o, <2>1
      <4> QED BY <4>1, <1>o, <1>p
    <3>b. SendKept
      BY <1>f, <2>1, <2>4, <3>a, <1>p, <1>q
    <3>c. RecvKept
      BY <1>f, <2>1, <2>4, <3>a, <1>p, <1>q
    <3> QED BY <1>f, <2>1, <2>4, <3>a, <3>b, <3>c, <1>c
  <2>5. CASE flight' = flight /\ Head(todo[t]) = "beginRecv" /\ Instead(t, <<"received", "disconnect">>)
    <3>a. Frame /\ pc'[t] = "ops" /\ Sent(t)' = Sent(t) /\ Received(t)' = Received(t) + 1
      <4>1. /\ Frame /\ pc'[t] = "ops" /\ Sent(t)' = NumSent(<<"received", "disconnect">>) + Sent(t)
            /\ Received(t)' = NumReceived(<<"received", "disconnect">>) + Received(t)
        BY <2>5, <1>f, <1>i, <1>o, <2>1
      <4> QED BY <4>1, <1>o, <1>p
    <3>b. SendKept
      BY <1>f, <2>1, <2>5, <3>a, <1>p, <1>q
    <3>c. RecvKept
      BY <1>f, <2>1, <2>5, <3>a, <1>p, <1>q
    <3> QED BY <1>f, <2>1, <2>5, <3>a, <3>b, <3>c, <1>c
  <2>6. CASE flight' = flight /\ Head(todo[t]) = "accept" /\ Instead(t, <<"disconnect", "received">>)
    <3>a. Frame /\ pc'[t] = "ops" /\ Sent(t)' = Sent(t) /\ Received(t)' = Received(t) + 1
      <4>1. /\ Frame /\ pc'[t] = "ops" /\ Sent(t)' = NumSent(<<"disconnect", "received">>) + Sent(t)
            /\ Received(t)' = NumReceived(<<"disconnect", "received">>) + Received(t)
        BY <2>6, <1>f, <1>i, <1>o, <2>1
      <4> QED BY <4>1, <1>o, <1>p
    <3>b. SendKept
      BY <1>f, <2>1, <2>6, <3>a, <1>p, <1>q
    <3>c. RecvKept
      BY <1>f, <2>1, <2>6, <3>a, <1>p, <1>q
    <3> QED BY <1>f, <2>1, <2>6, <3>a, <3>b, <3>c, <1>c
  <2> QED BY <1>4, <2>1, <2>2, <2>3, <2>4, <2>5, <2>6 DEF Call
<1>5. CASE Uncount(t)
  <2>1. /\ seen' = seen /\ port' = port /\ flight' = flight
        /\ sendq' = sendq /\ recvq' = recvq /\ todo[t] # <<>> /\ pc[t] = "ops" /\ Advance(t)
        /\ \/ Head(todo[t]) = "sent" /\ pendSend' = pendSend - 1 /\ pendRecv' = pendRecv
           \/ Head(todo[t]) = "received" /\ pendRecv' = pendRecv - 1 /\ pendSend' = pendSend
    BY <1>5 DEF Uncount, At, queues
  <2>2. Frame /\ pc'[t] = "ops"
    BY <1>f, <1>a, <2>1
  <2>3. \/ /\ pendSend' = pendSend - 1 /\ pendRecv' = pendRecv
           /\ Sent(t)' = Sent(t) - 1 /\ Received(t)' = Received(t)
        \/ /\ pendSend' = pendSend /\ pendRecv' = pendRecv - 1
           /\ Sent(t)' = Sent(t) /\ Received(t)' = Received(t) - 1
    BY <1>a, <2>1
  <2>a. SendKept
    BY SMTT(30), <1>f, <2>1, <2>2, <2>3, <1>p, <1>q
  <2>b. RecvKept
    BY SMTT(30), <1>f, <2>1, <2>2, <2>3, <1>p, <1>q
  <2> QED BY <2>1, <2>2, <2>a, <2>b, <1>c
<1>6. CASE Disconnect(t)
  <2>1. /\ seen' = seen /\ port' = port /\ flight' = flight /\ pendSend' = pendSend /\ pendRecv' = pendRecv
        /\ sendq' = sendq /\ recvq' = recvq /\ todo[t] # <<>>
    BY <1>6, <1>h DEF Disconnect, counters, queues
  <2>2. CASE Advance(t) /\ pc[t] = "ops" /\ Head(todo[t]) = "disconnect"
    <3>a. Frame /\ pc'[t] = "ops" /\ Sent(t)' = Sent(t) /\ Received(t)' = Received(t)
      BY <1>f, <1>a, <2>1, <2>2
    <3>b. SendKept
      BY <1>f, <2>1, <2>2, <3>a, <1>p, <1>q
    <3>c. RecvKept
      BY <1>f, <2>1, <2>2, <3>a, <1>p, <1>q
    <3> QED BY <1>f, <2>1, <2>2, <3>a, <3>b, <3>c, <1>c
  <2>3. CASE /\ todo' = todo /\ pc[t] \in {"ops", "close"}
             /\ \E l \in {"close", "hold"} : pc' = [pc EXCEPT ![t] = l]
    BY <1>f, <2>1, <2>3, <1>c, <1>p, <1>q, <1>s
  <2> QED BY <1>6, <2>2, <2>3 DEF Disconnect, At, Goto
<1>7. CASE Hold(t)
  <2>1. /\ seen' = seen /\ port' = port /\ flight' = flight /\ pendSend' = pendSend
        /\ pendRecv' = pendRecv + 1 /\ pc[t] = "hold" /\ pc' = [pc EXCEPT ![t] = "post"] /\ todo' = todo
        /\ sendq' = sendq /\ recvq' = recvq 
    BY <1>7 DEF Hold, Goto, queues
  <2> QED
    <3>a. Frame
      BY <1>f, <2>1
    <3>b. SendKept
      BY <1>f, <2>1, <1>p, <1>q, <1>s
    <3>c. RecvKept
      BY <1>f, <2>1, <1>p, <1>q, <1>s
    <3> QED BY <1>f, <2>1, <3>a, <3>b, <3>c, <1>c
<1>8. CASE Post(t)
  <2>1. /\ seen' = seen /\ flight' = flight /\ pendSend' = pendSend /\ pendRecv' = pendRecv
        /\ sendq' = sendq /\ recvq' = recvq /\ todo' = todo /\ pc[t] = "post"
        /\ pc' = [pc EXCEPT ![t] = "drainRecv"] /\ port' = Append(port, <<"null", TRUE>>)
    BY <1>8 DEF Post, Goto, queues, counters
  <2>2. /\ SendPackets' = SendPackets /\ RecvPackets' = RecvPackets
        /\ NullPackets' = NullPackets + 1
    BY <2>1, PortNull
  <2>3. Frame /\ OwesSend(t)' = OwesSend(t) /\ OwesRecv(t)' = OwesRecv(t) - 1
    BY <1>f, <2>1, <1>p, <1>q, <1>s
  <2>4. /\ SumSend' = SumSend /\ SumRecv' = SumRecv - 1 /\ SumSend \in Int /\ SumRecv \in Int
    BY <1>t, <2>3, SumFrame, OwesInt
  <2>5. /\ SendPackets \in Nat /\ RecvPackets \in Nat /\ NullPackets \in Nat
    BY PacketsNat DEF SendPackets, RecvPackets, NullPackets
  <2>6. pendSend' = sendq' + flight'["send"] + SendPackets' + SumSend'
    BY <2>1, <2>2, <2>4 DEF CountInv
  <2>7. pendRecv' = recvq' + flight'["recv"] + flight'["accept"] + RecvPackets' + NullPackets' + SumRecv'
    <3>1. pendRecv = recvq + flight["recv"] + flight["accept"] + RecvPackets + NullPackets + SumRecv
      BY DEF CountInv
    <3>2. /\ flight' = flight /\ pendRecv' = pendRecv /\ recvq' = recvq /\ RecvPackets' = RecvPackets
          /\ NullPackets' = NullPackets + 1 /\ SumRecv' = SumRecv - 1
      BY <2>1, <2>2, <2>4
    <3>3. /\ pendRecv \in Int /\ recvq \in Nat /\ flight["recv"] \in Nat /\ flight["accept"] \in Nat
          /\ RecvPackets \in Nat /\ NullPackets \in Nat /\ SumRecv \in Int
      BY <1>f, <2>4, <2>5
    <3> QED BY <3>1, <3>2, <3>3
  <2> QED BY <2>6, <2>7 DEF CountInv
<1>9. CASE Drain(t)
  <2>1. /\ seen' = seen /\ port' = port /\ flight' = flight
    BY <1>9 DEF Drain
  <2>2. CASE Advance(t) /\ pc[t] = "drainSend" /\ UNCHANGED <<queues, counters>>
    <3>1. todo[t] # <<>> /\ Head(todo[t]) = "disconnect"
      BY <2>2 DEF PlaceInv
    <3>2. todo' = [todo EXCEPT ![t] = Tail(@)] /\ pc' = [pc EXCEPT ![t] = "ops"]
      BY <2>2 DEF Advance, Goto
    <3>3. recvq' = recvq /\ sendq' = sendq /\ pendSend' = pendSend /\ pendRecv' = pendRecv
      BY <2>2 DEF queues, counters
    <3>a. Frame
      BY <1>f, <2>1, <3>2
    <3>b. SendKept
      BY <1>f, <1>a, <2>1, <2>2, <3>1, <3>2, <3>3, <1>p, <1>q, <1>s
    <3>c. RecvKept
      BY <1>f, <1>a, <2>1, <2>2, <3>1, <3>2, <3>3, <1>p, <1>q, <1>s
    <3> QED BY <1>f, <2>1, <3>3, <3>a, <3>b, <3>c, <1>c
  <2>3. CASE todo' = todo /\
        \/ /\ pc[t] = "drainRecv" /\ recvq' = recvq - 1 /\ pc' = [pc EXCEPT ![t] = "drainedRecv"]
           /\ sendq' = sendq /\ pendSend' = pendSend /\ pendRecv' = pendRecv
        \/ /\ pc[t] = "drainedRecv" /\ recvq' = recvq /\ pc' = [pc EXCEPT ![t] = "drainRecv"]
           /\ sendq' = sendq /\ pendSend' = pendSend /\ pendRecv' = pendRecv - 1
        \/ /\ pc[t] = "drainRecv" /\ recvq' = recvq /\ pc' = [pc EXCEPT ![t] = "drainSend"]
           /\ sendq' = sendq /\ pendSend' = pendSend /\ pendRecv' = pendRecv
        \/ /\ pc[t] = "drainSend" /\ recvq' = recvq /\ pc' = [pc EXCEPT ![t] = "drainedSend"]
           /\ sendq' = sendq - 1 /\ pendSend' = pendSend /\ pendRecv' = pendRecv
        \/ /\ pc[t] = "drainedSend" /\ recvq' = recvq /\ pc' = [pc EXCEPT ![t] = "drainSend"]
           /\ sendq' = sendq /\ pendSend' = pendSend - 1 /\ pendRecv' = pendRecv
    <3>a. Frame
      BY <1>f, <2>1, <2>3
    <3>b. SendKept
      BY <1>f, <2>1, <2>3, <1>p, <1>q, <1>s
    <3>1. Received(t)' = Received(t)
      BY <2>3 DEF Received
    <3>2. /\ pc[t] = "drainedRecv" => OwesRecv(t) = Received(t) + 1
          /\ pc[t] \in {"drainRecv", "drainSend", "drainedSend"} => OwesRecv(t) = Received(t)
          /\ Received(t) \in Nat
      BY <1>p
    <3>3. /\ pc'[t] = "drainedRecv" => OwesRecv(t)' = Received(t) + 1
          /\ pc'[t] \in {"drainRecv", "drainSend", "drainedSend"} => OwesRecv(t)' = Received(t)
      BY <1>q, <3>1
    <3>4. \/ pc[t] = "drainRecv" /\ pc'[t] = "drainedRecv" /\ recvq' = recvq - 1 /\ pendRecv' = pendRecv
          \/ pc[t] = "drainedRecv" /\ pc'[t] = "drainRecv" /\ recvq' = recvq /\ pendRecv' = pendRecv - 1
          \/ /\ pc[t] \in {"drainRecv", "drainSend", "drainedSend"}
             /\ pc'[t] \in {"drainSend", "drainedSend"} /\ recvq' = recvq /\ pendRecv' = pendRecv
      BY <1>f, <2>3
    <3>5. flight' = flight
      BY <2>1
    <3>c. RecvKept
      BY <1>f, <3>2, <3>3, <3>4, <3>5
    <3> QED BY <1>f, <2>1, <2>3, <3>a, <3>b, <3>c, <1>c
  <2> QED BY <1>9, <2>2, <2>3 DEF Drain, Goto, queues, counters
<1>10. CASE OpsOver(t)
  <2>1. /\ port' = port /\ flight' = flight /\ pendSend' = pendSend /\ todo' = todo
        /\ pendRecv' = pendRecv /\ pc[t] = "ops" /\ pc' = [pc EXCEPT ![t] = "idle"]
        /\ sendq' = sendq /\ recvq' = recvq /\ seen' = [seen EXCEPT ![t] = <<>>]
    BY <1>10 DEF OpsOver, Goto, queues, counters
  <2>2. \A u \in Threads \ {t} : seen'[u] = seen[u]
    BY <2>1 DEF Types
  <2> QED
    <3>a. Frame
      BY <1>f, <2>1, <2>2
    <3>b. SendKept
      BY <1>f, <2>1, <2>2, <1>p, <1>q, <1>s
    <3>c. RecvKept
      BY <1>f, <2>1, <2>2, <1>p, <1>q, <1>s
    <3> QED BY <1>f, <2>1, <2>2, <3>a, <3>b, <3>c, <1>c
<1> QED BY <1>1, <1>2, <1>3, <1>4, <1>5, <1>6, <1>7, <1>8, <1>9, <1>10 DEF Operate

\* A worker that takes a packet owes what the packet was counted for.
LEMMA CountWorker ==
  ASSUME Types, PlaceInv, CountInv, Dequeue(w1) \/ Handle(w1) \/ Null(w1)
  PROVE  CountInv'
<1>t. Types' /\ w1 \in Threads
  BY TypesWorker, ThreadsAre
<1> DEFINE Frame == \A u \in Threads \ {w1} : pc'[u] = pc[u] /\ todo'[u] = todo[u] /\ seen'[u] = seen[u]
<1>f. /\ pc \in [Threads -> Places] /\ todo \in [Threads -> Seq(Tasks)]
      /\ seen \in [Threads -> {<<>>} \union ((Ops \union {"null"}) \X BOOLEAN)]
      /\ sendq \in Nat /\ recvq \in Nat /\ pendSend \in Int /\ pendRecv \in Int
      /\ flight["send"] \in Nat /\ flight["recv"] \in Nat /\ flight["accept"] \in Nat
      /\ SendPackets \in Nat /\ RecvPackets \in Nat /\ NullPackets \in Nat
  BY PacketsNat DEF Types, Ops, SendPackets, RecvPackets, NullPackets
<1>e. (Sent(w1) = 0 /\ Received(w1) = 0) \/ todo[w1] # <<>>
  BY NumEmpty DEF Sent, Received, NumSent, NumReceived
<1>s. Frame => /\ SumSend' = SumSend + OwesSend(w1)' - OwesSend(w1)
               /\ SumRecv' = SumRecv + OwesRecv(w1)' - OwesRecv(w1)
               /\ SumSend \in Int /\ SumRecv \in Int
  BY <1>t, SumFrame
<1>1. CASE Dequeue(w1)
  <2> DEFINE op == Head(port)[1]
  <2>1. /\ port # <<>> /\ port' = Tail(port) /\ pc[w1] = "idle"
        /\ seen' = [seen EXCEPT ![w1] = Head(port)]
        /\ flight' = flight /\ pendSend' = pendSend /\ pendRecv' = pendRecv
        /\ sendq' = sendq /\ recvq' = recvq
        /\ \/ op = "null" /\ pc' = [pc EXCEPT ![w1] = "nullSend"] /\ todo' = todo
           \/ op # "null" /\ pc' = [pc EXCEPT ![w1] = "handle"] /\ todo' = todo
           \/ /\ op # "null" /\ pc' = [pc EXCEPT ![w1] = "ops"]
              /\ todo' = [todo EXCEPT ![w1] = <<"disconnect",
                                               IF op = "send" THEN "sent" ELSE "received">>]
    BY <1>1 DEF Dequeue, Goto, queues, counters
  <2>2. /\ SendPackets = SendPackets' + One(op = "send")
        /\ RecvPackets = RecvPackets' + One(op \in Receives)
        /\ NullPackets = NullPackets' + One(op = "null")
        /\ SendPackets' \in Nat /\ RecvPackets' \in Nat /\ NullPackets' \in Nat
    BY <2>1, PortTail
  <2>3. op \in Ops \union {"null"} /\ todo[w1] = <<>>
    BY <1>t, <2>1, PacketIs DEF PlaceInv
  <2>4. Frame /\ seen'[w1] = Head(port)
    BY <1>f, <1>t, <2>1
  <2>5. OwesSend(w1) = 0 /\ OwesRecv(w1) = 0
    <3>1. Sent(w1) = 0 /\ Received(w1) = 0
      BY <2>3, NumEmpty DEF Sent, Received, NumSent, NumReceived
    <3> QED BY <1>t, <2>1, <3>1, OwesAt
  <2>6. OwesSend(w1)' = One(op = "send") /\ OwesRecv(w1)' = One(op \in Receives) + One(op = "null")
    <3>1. CASE todo' = todo
      <4>1. Sent(w1)' = 0 /\ Received(w1)' = 0
        BY <2>3, <3>1, NumEmpty DEF Sent, Received, NumSent, NumReceived
      <4>2. CASE op = "null" /\ pc'[w1] = "nullSend"
        BY <1>t, <4>1, <4>2, OwesAtNext DEF One, Receives
      <4>3. CASE op # "null" /\ pc'[w1] = "handle"
        BY <2>3, <2>4, <4>1, <4>3 DEF OwesSend, OwesRecv, One
      <4>4. \/ op = "null" /\ pc' = [pc EXCEPT ![w1] = "nullSend"]
            \/ op # "null" /\ pc' = [pc EXCEPT ![w1] = "handle"]
        <5>1. <<"disconnect", IF op = "send" THEN "sent" ELSE "received">> # <<>>
          OBVIOUS
        <5>2. todo' = [todo EXCEPT ![w1] = <<"disconnect", IF op = "send" THEN "sent" ELSE "received">>]
              => todo'[w1] # <<>>
          BY <1>f, <1>t, <5>1
        <5> QED BY <2>1, <2>3, <3>1, <5>2
      <4> QED BY <1>f, <1>t, <4>2, <4>3, <4>4
    <3>2. CASE pc' = [pc EXCEPT ![w1] = "ops"]
      <4>1. /\ op # "null" /\ pc'[w1] = "ops"
            /\ todo'[w1] = <<"disconnect", IF op = "send" THEN "sent" ELSE "received">>
        BY <1>f, <1>t, <2>1, <3>2
      <4>2. CASE op = "send"
        <5>1. NumSent(<<"disconnect", "sent">>) = 1 /\ NumReceived(<<"disconnect", "sent">>) = 0
          BY SentPair DEF Tasks, One
        <5>2. Sent(w1)' = 1 /\ Received(w1)' = 0
          BY <4>1, <4>2, <5>1 DEF Sent, Received
        <5> QED BY <1>t, <4>1, <4>2, <5>2, OwesAtNext DEF One, Receives
      <4>3. CASE op # "send"
        <5>2. Sent(w1)' = 0 /\ Received(w1)' = 1
          BY <4>1, <4>3, SentOps DEF Sent, Received
        <5>3. op \in Receives
          BY <2>3, <4>1, <4>3 DEF Ops, Receives
        <5> QED BY <1>t, <4>1, <4>3, <5>2, <5>3, OwesAtNext DEF One
      <4> QED BY <4>2, <4>3
    <3> QED BY <2>1, <3>1, <3>2
  <2>7. SumSend' = SumSend + One(op = "send") /\ SumRecv' = SumRecv + One(op \in Receives) + One(op = "null")
        /\ SumSend \in Int /\ SumRecv \in Int
    BY <1>s, <2>4, <2>5, <2>6 DEF One
  <2>8. pendSend' = sendq' + flight'["send"] + SendPackets' + SumSend'
    <3>1. pendSend = sendq + flight["send"] + SendPackets + SumSend
      BY DEF CountInv
    <3>2. SendPackets + SumSend = SendPackets' + SumSend'
      BY <2>2, <2>7 DEF One
    <3>3. SumSend' \in Int
      BY <2>7 DEF One
    <3>4. /\ flight' = flight /\ pendSend' = pendSend /\ sendq' = sendq
      BY <2>1
    <3>5. /\ pendSend \in Int /\ sendq \in Nat /\ flight["send"] \in Nat
          /\ SendPackets \in Nat /\ SendPackets' \in Nat /\ SumSend \in Int
      BY <1>f, <2>2, <2>7
    <3>6. SendPackets' \in Int /\ SumSend' \in Int
      BY <3>3, <3>5
    <3>7. SendPackets' + SumSend' = pendSend - (sendq + flight["send"])
      <4>1. SendPackets + SumSend = pendSend - (sendq + flight["send"])
        BY <3>1, <3>5
      <4> QED BY <3>2, <4>1
    <3>8. pendSend = sendq + flight["send"] + SendPackets' + SumSend'
      BY <3>5, <3>6, <3>7
    <3> QED BY <3>4, <3>8
  <2>9. pendRecv' = recvq' + flight'["recv"] + flight'["accept"] + RecvPackets' + NullPackets' + SumRecv'
    <3>1. pendRecv = recvq + flight["recv"] + flight["accept"] + RecvPackets + NullPackets + SumRecv
      BY DEF CountInv
    <3>2. RecvPackets + NullPackets + SumRecv = RecvPackets' + NullPackets' + SumRecv'
      BY <2>2, <2>7 DEF One
    <3>3. SumRecv' \in Int
      BY <2>7 DEF One
    <3>4. /\ flight' = flight /\ pendRecv' = pendRecv /\ recvq' = recvq
      BY <2>1
    <3>5. /\ pendRecv \in Int /\ recvq \in Nat /\ flight["recv"] \in Nat /\ flight["accept"] \in Nat
          /\ RecvPackets \in Nat /\ RecvPackets' \in Nat /\ NullPackets \in Nat
          /\ NullPackets' \in Nat /\ SumRecv \in Int
      BY <1>f, <2>2, <2>7
    <3>6. RecvPackets' \in Int /\ NullPackets' \in Int /\ SumRecv' \in Int
      BY <3>3, <3>5
    <3>7. pendRecv = recvq + flight["recv"] + flight["accept"] + (RecvPackets' + NullPackets' + SumRecv')
      <4>1. RecvPackets + NullPackets + SumRecv
            = pendRecv - (recvq + flight["recv"] + flight["accept"])
        BY <3>1, <3>5
      <4>2. RecvPackets' + NullPackets' + SumRecv'
            = pendRecv - (recvq + flight["recv"] + flight["accept"])
        BY <3>2, <4>1
      <4> QED BY <3>5, <3>6, <4>2
    <3>8. pendRecv = recvq + flight["recv"] + flight["accept"] + RecvPackets' + NullPackets' + SumRecv'
      BY <3>5, <3>6, <3>7
    <3> QED BY <3>4, <3>8
  <2> QED BY <2>8, <2>9 DEF CountInv
<1>2. CASE Handle(w1)
  <2>1. pc[w1] = "handle" /\ port' = port /\ seen' = seen
        /\ flight' = flight /\ pendSend' = pendSend /\ pendRecv' = pendRecv
        /\ sendq' = sendq /\ recvq' = recvq /\ pc' = [pc EXCEPT ![w1] = "ops"]
    BY <1>2 DEF Handle, Goto, queues, counters
  <2>2. seen[w1][1] \in Ops
    <3>2. seen[w1] # <<>> /\ seen[w1][1] # "null"
      BY <2>1 DEF PlaceInv
    <3>3. seen[w1] \in (Ops \union {"null"}) \X BOOLEAN
      BY <1>f, <1>t, <3>2
    <3> QED BY <3>2, <3>3
  <2> DEFINE c == (IF state = "DISCONNECT" THEN <<>> ELSE Callback(kind, seen[w1][1]))
             u == <<IF seen[w1][1] = "send" THEN "sent" ELSE "received">>
  <2>3. /\ c \in Seq(Tasks) /\ u \in Seq(Tasks) /\ NumSent(c) = 0 /\ NumReceived(c) = 0
        /\ NumSent(u) = One(seen[w1][1] = "send") /\ NumReceived(u) = One(seen[w1][1] # "send")
    <3>1. /\ u \in Seq(Tasks) /\ NumSent(u) = One(seen[w1][1] = "send")
          /\ NumReceived(u) = One(seen[w1][1] # "send")
      BY SentOps DEF Tasks, One
    <3>2. kind \in AllKinds
      BY ThreadsAre DEF Types
    <3>3. CASE state = "DISCONNECT"
      BY <3>1, <3>3, NumEmpty DEF NumSent, NumReceived
    <3>4. CASE state # "DISCONNECT"
      BY <2>2, <3>1, <3>2, <3>4, CallbackIs DEF NumSent, NumReceived
    <3> QED BY <3>3, <3>4
  <2>4. todo' = [todo EXCEPT ![w1] = c \o u]
    BY <1>2 DEF Handle
  <2> HIDE DEF c, u
  <2>5. NumSent(c \o u) = NumSent(c) + NumSent(u) /\ NumReceived(c \o u) = NumReceived(c) + NumReceived(u)
    <3>1. ASSUME NEW S PROVE Num(c \o u, S) = Num(c, S) + Num(u, S)
      BY <2>3, NumConcat
    <3> QED BY <3>1 DEF NumSent, NumReceived
  <2>6. Frame /\ todo'[w1] = c \o u /\ pc'[w1] = "ops"
    BY <1>f, <1>t, <2>1, <2>4
  <2>7. Sent(w1)' = One(seen[w1][1] = "send") /\ Received(w1)' = One(seen[w1][1] # "send")
    BY <2>3, <2>5, <2>6 DEF Sent, Received, One
  <2>8. OwesSend(w1)' = One(seen[w1][1] = "send") /\ OwesRecv(w1)' = One(seen[w1][1] # "send")
    BY <1>t, <2>6, <2>7, OwesAtNext
  <2>9. OwesSend(w1) = One(seen[w1][1] = "send") /\ OwesRecv(w1) = One(seen[w1][1] # "send")
    <3>1. Sent(w1) = 0 /\ Received(w1) = 0
      <4>1. todo[w1] = <<>>
        BY <1>t, <2>1 DEF PlaceInv
      <4> QED BY <4>1, NumEmpty DEF Sent, Received, NumSent, NumReceived
    <3> QED BY <2>1, <2>2, <3>1 DEF OwesSend, OwesRecv, One, Ops, Receives
  <2>10. SumSend' = SumSend /\ SumRecv' = SumRecv
    BY <1>s, <2>6, <2>8, <2>9 DEF One
  <2>11. /\ SendPackets' = SendPackets /\ RecvPackets' = RecvPackets
        /\ NullPackets' = NullPackets
    BY <2>1, Zenon DEF SendPackets, RecvPackets, NullPackets, Packets, Receives
  <2> QED BY <2>1, <2>10, <2>11 DEF CountInv
<1>3. CASE Null(w1)
  <2>1. /\ seen' = seen /\ flight' = flight /\ sendq' = sendq /\ recvq' = recvq
        /\ pendSend' = pendSend /\ pendRecv' = pendRecv
    BY <1>3 DEF Null, queues, counters
  <2>2. \/ /\ pc[w1] = "nullSend" /\ port' = port /\ todo' = todo
           /\ \E l \in {"nullRecv", "again"} : pc' = [pc EXCEPT ![w1] = l]
        \/ /\ pc[w1] = "nullRecv" /\ port' = port /\ todo' = [todo EXCEPT ![w1] = <<"received">>]
           /\ pc' = [pc EXCEPT ![w1] = "ops"]
        \/ /\ pc[w1] = "nullRecv" /\ port' = port /\ todo' = todo /\ pc' = [pc EXCEPT ![w1] = "again"]
        \/ /\ pc[w1] = "again" /\ port' = Append(port, <<"null", TRUE>>) /\ todo' = todo
           /\ pc' = [pc EXCEPT ![w1] = "ops"]
    BY <1>3 DEF Null, Goto
  <2>3. todo[w1] = <<>> /\ pc[w1] \in {"nullSend", "nullRecv", "again"}
    BY <1>t, <2>2 DEF PlaceInv
  <2>4. Sent(w1) = 0 /\ Received(w1) = 0
    BY <2>3, NumEmpty DEF Sent, Received, NumSent, NumReceived
  <2>5. OwesSend(w1) = 0 /\ OwesRecv(w1) = 1
    BY <1>t, <2>3, <2>4, OwesAt
  <2>6. Frame
    BY <1>f, <1>t, <2>1, <2>2
  <2>7. CASE port' = port
    <3>1. OwesSend(w1)' = 0 /\ OwesRecv(w1)' = 1
      <4>1. CASE todo' = todo /\ pc'[w1] \in {"nullRecv", "again"}
        <5>1. Sent(w1)' = 0 /\ Received(w1)' = 0
          BY <2>4, <4>1 DEF Sent, Received
        <5> QED BY <1>t, <4>1, <5>1, OwesAtNext
      <4>2. CASE todo'[w1] = <<"received">> /\ pc'[w1] = "ops"
        <5>1. NumSent(<<"received">>) = 0 /\ NumReceived(<<"received">>) = 1
          BY SentOps DEF Tasks, One
        <5>2. Sent(w1)' = 0 /\ Received(w1)' = 1
          BY <4>2, <5>1 DEF Sent, Received
        <5> QED BY <1>t, <4>2, <5>2, OwesAtNext
      <4>3. \/ todo' = todo /\ pc'[w1] \in {"nullRecv", "again"}
            \/ todo'[w1] = <<"received">> /\ pc'[w1] = "ops"
            \/ port' = Append(port, <<"null", TRUE>>)
        BY <1>f, <1>t, <2>2
      <4>4. Append(port, <<"null", TRUE>>) # port
        <5>1. <<"null", TRUE>> \in (Ops \union {"null"}) \X BOOLEAN
          OBVIOUS
        <5>2. Len(Append(port, <<"null", TRUE>>)) = Len(port) + 1 /\ Len(port) \in Nat
          BY <5>1 DEF Types
        <5>3. Len(Append(port, <<"null", TRUE>>)) # Len(port)
          BY <5>2
        <5> QED BY <5>3
      <4> QED BY <2>7, <4>1, <4>2, <4>3, <4>4
    <3>2. /\ SendPackets' = SendPackets /\ RecvPackets' = RecvPackets
          /\ NullPackets' = NullPackets
      BY <2>7, Zenon DEF SendPackets, RecvPackets, NullPackets, Packets, Receives
    <3>3. SumSend' = SumSend /\ SumRecv' = SumRecv
      BY <1>s, <2>5, <2>6, <3>1
    <3> QED BY <2>1, <3>2, <3>3 DEF CountInv
  <2>8. CASE /\ port' = Append(port, <<"null", TRUE>>) /\ todo' = todo
             /\ pc' = [pc EXCEPT ![w1] = "ops"]
    <3>1. OwesSend(w1)' = 0 /\ OwesRecv(w1)' = 0
      <4>1. Sent(w1)' = 0 /\ Received(w1)' = 0 /\ pc'[w1] = "ops"
        BY <1>f, <1>t, <2>4, <2>8 DEF Sent, Received
      <4> QED BY <1>t, <4>1, OwesAtNext
    <3>2. /\ SendPackets' = SendPackets /\ RecvPackets' = RecvPackets
          /\ NullPackets' = NullPackets + 1
      BY <2>8, PortNull
    <3>3. SumSend' = SumSend /\ SumRecv' = SumRecv - 1 /\ SumRecv \in Int
      BY <1>s, <2>5, <2>6, <3>1
    <3>4. pendSend' = sendq' + flight'["send"] + SendPackets' + SumSend'
      BY <2>1, <3>2, <3>3 DEF CountInv
    <3>5. pendRecv' = recvq' + flight'["recv"] + flight'["accept"] + RecvPackets'
                      + NullPackets' + SumRecv'
      <4>1. pendRecv = recvq + flight["recv"] + flight["accept"] + RecvPackets + NullPackets + SumRecv
        BY DEF CountInv
      <4> QED BY SMTT(30), <1>f, <2>1, <3>2, <3>3, <4>1
    <3> QED BY <3>4, <3>5 DEF CountInv
  <2> QED BY <2>2, <2>7, <2>8
<1> QED BY <1>1, <1>2, <1>3

\* A completion turns an operation into a packet.
LEMMA CountOthers ==
  ASSUME Types, PlaceInv, CountInv, Check \/ Complete
  PROVE  CountInv'
<1>t. Types' /\ "checker" \in Threads
  BY TypesOthers, ThreadsAre
<1>f. /\ pc \in [Threads -> Places] /\ todo \in [Threads -> Seq(Tasks)]
      /\ sendq \in Nat /\ recvq \in Nat /\ pendSend \in Int /\ pendRecv \in Int
      /\ flight["send"] \in Nat /\ flight["recv"] \in Nat /\ flight["accept"] \in Nat
      /\ flight \in [Ops -> Nat]
      /\ SendPackets \in Nat /\ RecvPackets \in Nat /\ NullPackets \in Nat
  BY PacketsNat DEF Types, Ops, SendPackets, RecvPackets, NullPackets
<1>1. CASE Check
  <2>1. /\ seen' = seen /\ flight' = flight /\ sendq' = sendq /\ recvq' = recvq
        /\ pendSend' = pendSend /\ pendRecv' = pendRecv /\ port' = port
        /\ pc["checker"] \in {"idle", "hasPending"}
        /\ \E l \in {"idle", "hasPending", "ops"} : pc' = [pc EXCEPT !["checker"] = l]
        /\ todo' = todo \/ todo' = [todo EXCEPT !["checker"] = <<"disconnect">>]
    BY <1>1 DEF Check, Goto, queues, counters
  <2>2. todo["checker"] = <<>>
    BY <1>t, <2>1 DEF PlaceInv
  <2>3. Sent("checker") = 0 /\ Received("checker") = 0
    BY <2>2, NumEmpty DEF Sent, Received, NumSent, NumReceived
  <2>4. Sent("checker")' = 0 /\ Received("checker")' = 0
    <3>1. CASE todo' = todo
      BY <2>3, <3>1 DEF Sent, Received
    <3>2. CASE todo' = [todo EXCEPT !["checker"] = <<"disconnect">>]
      <4>1. todo'["checker"] = <<"disconnect">>
        BY <1>f, <1>t, <3>2
      <4>2. NumSent(<<"disconnect">>) = 0 /\ NumReceived(<<"disconnect">>) = 0
        BY SentOps DEF Tasks, One
      <4> QED BY <4>1, <4>2 DEF Sent, Received
    <3> QED BY <2>1, <3>1, <3>2
  <2>5. \A u \in Threads \ {"checker"} : pc'[u] = pc[u] /\ todo'[u] = todo[u] /\ seen'[u] = seen[u]
    BY <1>f, <1>t, <2>1
  <2>6. pc'["checker"] \in {"idle", "hasPending", "ops"}
    BY <1>f, <1>t, <2>1
  <2>7. OwesSend("checker") = 0 /\ OwesRecv("checker") = 0
        /\ OwesSend("checker")' = 0 /\ OwesRecv("checker")' = 0
    BY <1>t, <2>1, <2>3, <2>4, <2>6, OwesAt, OwesAtNext
  <2>8. OwesSend("checker")' - OwesSend("checker") = (pendSend' - sendq' - flight'["send"])
                                                    - (pendSend - sendq - flight["send"])
    BY <1>f, <2>1, <2>7
  <2>9. OwesRecv("checker")' - OwesRecv("checker") =
          (pendRecv' - recvq' - flight'["recv"] - flight'["accept"])
          - (pendRecv - recvq - flight["recv"] - flight["accept"])
    BY <1>f, <2>1, <2>7
  <2> QED BY <1>t, <2>1, <2>5, <2>8, <2>9, CountFrame
<1>2. CASE Complete
  <2>1. PICK o \in Ops, b \in BOOLEAN :
           /\ flight' = [flight EXCEPT ![o] = @ - 1] /\ flight[o] > 0 /\ port' = Append(port, <<o, b>>)
    BY <1>2 DEF Complete
  <2>2. /\ sendq' = sendq /\ recvq' = recvq /\ pendSend' = pendSend /\ pendRecv' = pendRecv
        /\ pc' = pc /\ todo' = todo /\ seen' = seen
    BY <1>2 DEF Complete, queues, counters
  <2>3. /\ SendPackets' = SendPackets + One(o = "send")
        /\ RecvPackets' = RecvPackets + One(o \in Receives)
        /\ NullPackets' = NullPackets + One(o = "null")
    BY <2>1, PortAppend
  <2>4. SumSend' = SumSend /\ SumRecv' = SumRecv /\ SumSend \in Int /\ SumRecv \in Int
    <3>1. SumSend' = SumSend /\ SumRecv' = SumRecv
      BY <2>2 DEF SumSend, SumRecv, OwesSend, OwesRecv, Sent, Received
    <3>2. SumSend \in Int /\ SumRecv \in Int
      BY ThreadsAre, OwesInt DEF SumSend, SumRecv
    <3> QED BY <3>1, <3>2
  <2>5. /\ o = "send" => flight'["send"] = flight["send"] - 1 /\ flight'["recv"] = flight["recv"]
                          /\ flight'["accept"] = flight["accept"]
        /\ o = "recv" => flight'["send"] = flight["send"] /\ flight'["recv"] = flight["recv"] - 1
                          /\ flight'["accept"] = flight["accept"]
        /\ o = "accept" => flight'["send"] = flight["send"] /\ flight'["recv"] = flight["recv"]
                          /\ flight'["accept"] = flight["accept"] - 1
    BY <1>f, <2>1 DEF Ops
  <2>6. o = "send" \/ o = "recv" \/ o = "accept"
    BY DEF Ops
  <2>7. pendSend' = sendq' + flight'["send"] + SendPackets' + SumSend'
    <3>1. pendSend = sendq + flight["send"] + SendPackets + SumSend
      BY DEF CountInv
    <3>2. flight["send"] + SendPackets = flight'["send"] + SendPackets'
      BY <1>f, <2>3, <2>5, <2>6 DEF One
    <3>3. flight'["send"] \in Int /\ SendPackets' \in Int
      BY <1>f, <2>3, <2>5, <2>6 DEF One
    <3>4. /\ pendSend' = pendSend /\ sendq' = sendq /\ SumSend' = SumSend /\ SumSend \in Int
      BY <2>2, <2>4
    <3>5. /\ pendSend \in Int /\ sendq \in Nat /\ flight["send"] \in Nat /\ SendPackets \in Nat
      BY <1>f
    <3> QED BY <3>1, <3>2, <3>3, <3>4, <3>5
  <2>8. pendRecv' = recvq' + flight'["recv"] + flight'["accept"] + RecvPackets' + NullPackets' + SumRecv'
    <3>1. pendRecv = recvq + flight["recv"] + flight["accept"] + RecvPackets + NullPackets + SumRecv
      BY DEF CountInv
    <3>2. /\ flight["recv"] + flight["accept"] + RecvPackets
             = flight'["recv"] + flight'["accept"] + RecvPackets'
          /\ NullPackets' = NullPackets
      <4>0. /\ flight["recv"] \in Nat /\ flight["accept"] \in Nat /\ RecvPackets \in Nat
            /\ NullPackets \in Nat
        BY <1>f
      <4>1. CASE o = "send"
        <5>1. RecvPackets' = RecvPackets + 0 /\ NullPackets' = NullPackets + 0
          BY <2>3, <4>1 DEF One, Receives
        <5> QED BY <2>5, <4>0, <4>1, <5>1
      <4>2. CASE o = "recv"
        <5>1. RecvPackets' = RecvPackets + 1 /\ NullPackets' = NullPackets + 0
          BY <2>3, <4>2 DEF One, Receives
        <5> QED BY <2>5, <4>0, <4>2, <5>1
      <4>3. CASE o = "accept"
        <5>1. RecvPackets' = RecvPackets + 1 /\ NullPackets' = NullPackets + 0
          BY <2>3, <4>3 DEF One, Receives
        <5> QED BY <2>5, <4>0, <4>3, <5>1
      <4> QED BY <2>6, <4>1, <4>2, <4>3
    <3>3. flight'["recv"] \in Int /\ flight'["accept"] \in Int /\ RecvPackets' \in Int
      BY <1>f, <2>3, <2>5, <2>6 DEF One
    <3>4. /\ pendRecv' = pendRecv /\ recvq' = recvq /\ SumRecv' = SumRecv /\ SumRecv \in Int
      BY <2>2, <2>4
    <3>5. /\ pendRecv \in Int /\ recvq \in Nat /\ flight["recv"] \in Nat /\ flight["accept"] \in Nat
          /\ RecvPackets \in Nat /\ NullPackets \in Nat
      BY <1>f
    <3> QED BY <3>1, <3>2, <3>3, <3>4, <3>5
  <2> QED BY <2>7, <2>8 DEF CountInv
<1> QED BY <1>1, <1>2

-----------------------------------------------------------------------------
(* Moves and places *)

\* What an operation does with the list of its thread.
Kept(t) == todo'[t] = todo[t]
Popped(t) == todo'[t] = Tail(todo[t]) /\ pc'[t] = "ops"
Replaced(t, ops) == todo'[t] = ops \o Tail(todo[t]) /\ pc'[t] = "ops"
Failed(t) == CASE Called(t) = "send" -> <<"sent", "disconnect">>
               [] Called(t) = "recv" -> <<"received", "disconnect">>
               [] OTHER -> <<"disconnect", "received">>
Closing == {"close", "hold", "post"}
Draining == {"drainRecv", "drainedRecv", "drainSend", "drainedSend"}
Nulling == {"nullSend", "nullRecv", "again"}
Ended(t) == pc[t] = "ops" /\ todo[t] = <<>> /\ pc'[t] = "idle" /\ Kept(t)
Counted(t) == \/ pc[t] = "ops" /\ Head(todo[t]) \in {"send", "recv"} /\ pc'[t] = "count" /\ Kept(t)
              \/ pc[t] = "count" /\ Head(todo[t]) = "send" /\ (Popped(t) \/ Replaced(t, <<"beginSend">>))
              \/ pc[t] = "count" /\ Head(todo[t]) = "recv" /\ (Popped(t) \/ Replaced(t, <<"beginRecv">>))
Begun(t) == \/ /\ pc[t] = "ops" /\ Head(todo[t]) \in {"accept", "beginSend", "beginRecv"}
               /\ pc'[t] = "call" /\ Kept(t)
            \/ pc[t] = "ops" /\ Head(todo[t]) \in {"beginSend", "beginRecv", "sent", "received"} /\ Popped(t)
MadeCall(t) == /\ pc[t] = "call" /\ Head(todo[t]) \in {"beginSend", "beginRecv", "accept"}
               /\ Popped(t) \/ ((t # "starter" \/ closed) /\ Replaced(t, Failed(t)))
Disconnected(t) == \/ pc[t] = "ops" /\ Head(todo[t]) = "disconnect" /\ state # "OK" /\ Popped(t)
                   \/ /\ pc[t] = "ops" /\ Head(todo[t]) = "disconnect" /\ state = "OK"
                      /\ state' = "DISCONNECT" /\ pc'[t] = "close" /\ Kept(t)
                   \/ pc[t] = "close" /\ pc'[t] = "hold" /\ Kept(t)
                   \/ pc[t] = "hold" /\ pc'[t] = "post" /\ Kept(t)
                   \/ pc[t] = "post" /\ pc'[t] = "drainRecv" /\ Kept(t)
                   \/ pc[t] \in Draining /\ pc'[t] \in Draining /\ Kept(t)
                   \/ pc[t] = "drainSend" /\ Popped(t)
Move(t) == \/ Ended(t)
           \/ todo[t] # <<>> /\ (Counted(t) \/ Begun(t) \/ MadeCall(t) \/ Disconnected(t))

Others(t) == \A u \in Threads \ {t} : pc'[u] = pc[u] /\ todo'[u] = todo[u] /\ seen'[u] = seen[u]

\* An operation moves its own thread only.
LEMMA MoveIs ==
  ASSUME Types, PlaceInv, NEW t \in Threads, Operate(t)
  PROVE  Move(t) /\ Others(t)
<1>h. /\ pc[t] \in {"count", "call", "close", "hold", "post", "drainRecv", "drainedRecv", "drainSend",
                    "drainedSend"} => todo[t] # <<>>
      /\ \A op : At(t, op) => todo[t] # <<>> /\ pc[t] = "ops" /\ Head(todo[t]) = op
  BY AtHas
<1>f. /\ pc \in [Threads -> Places] /\ todo \in [Threads -> Seq(Tasks)] /\ DOMAIN seen = Threads
  BY DEF Types
<1>g. \A l : Goto(t, l) => pc'[t] = l /\ \A u \in Threads \ {t} : pc'[u] = pc[u]
  BY <1>f DEF Goto
<1>k. todo' = todo => Kept(t) /\ \A u \in Threads \ {t} : todo'[u] = todo[u]
  BY DEF Kept
<1>n. seen' = seen => \A u \in Threads \ {t} : seen'[u] = seen[u]
  OBVIOUS
<1>a. Advance(t) => Popped(t) /\ \A u \in Threads \ {t} : pc'[u] = pc[u] /\ todo'[u] = todo[u]
  BY <1>f, <1>g DEF Advance, Popped
<1>i. \A ops : Instead(t, ops) => /\ Replaced(t, ops)
                                  /\ \A u \in Threads \ {t} : pc'[u] = pc[u] /\ todo'[u] = todo[u]
  BY <1>f, <1>g DEF Instead, Replaced
<1>1. CASE Put(t)
  BY <1>1, <1>h, <1>g, <1>k, <1>n DEF Put, Move, Counted, Others
<1>2. CASE Count(t)
  <2>1. CASE At(t, "accept") /\ Goto(t, "call") /\ UNCHANGED todo
    BY <1>2, <2>1, <1>h, <1>g, <1>k, <1>n DEF Count, Move, Begun, Others
  <2>2. CASE /\ pc[t] = "count" /\ Head(todo[t]) = "send"
             /\ Instead(t, <<"beginSend">>) \/ Advance(t)
    BY <1>2, <2>2, <1>h, <1>a, <1>i, <1>n DEF Count, Move, Counted, Others
  <2>3. CASE /\ pc[t] = "count" /\ Head(todo[t]) = "recv"
             /\ Instead(t, <<"beginRecv">>) \/ Advance(t)
    BY <1>2, <2>3, <1>h, <1>a, <1>i, <1>n DEF Count, Move, Counted, Others
  <2> QED BY <1>2, <2>1, <2>2, <2>3 DEF Count
<1>3. CASE Begin(t)
  <2>1. CASE (At(t, "beginSend") \/ At(t, "beginRecv")) /\ Goto(t, "call") /\ UNCHANGED todo
    BY <1>3, <2>1, <1>h, <1>g, <1>k, <1>n DEF Begin, Move, Begun, Others
  <2>2. CASE (At(t, "beginSend") \/ At(t, "beginRecv")) /\ Advance(t)
    BY <1>3, <2>2, <1>h, <1>a, <1>n DEF Begin, Move, Begun, Others
  <2> QED BY <1>3, <2>1, <2>2 DEF Begin
<1>4. CASE Call(t)
  <2>1. pc[t] = "call" /\ todo[t] # <<>> /\ Head(todo[t]) \in {"beginSend", "beginRecv", "accept"}
    BY <1>4 DEF Call, PlaceInv
  <2>2. Advance(t) \/ ((t # "starter" \/ closed) /\ Instead(t, Failed(t)))
    BY <1>4 DEF Call, Failed
  <2> HIDE DEF Failed
  <2>3. MadeCall(t)
    BY <2>1, <2>2, <1>a, <1>i DEF MadeCall
  <2>4. Others(t)
    BY <1>4, <2>2, <1>a, <1>i, <1>n DEF Call, Others
  <2> QED BY <2>1, <2>3, <2>4 DEF Move
<1>5. CASE Uncount(t)
  BY <1>5, <1>h, <1>a, <1>n DEF Uncount, Move, Begun, Others
<1>6. CASE Disconnect(t)
  <2>1. CASE /\ At(t, "disconnect") /\ state = "OK" /\ state' = "DISCONNECT" /\ Goto(t, "close")
             /\ UNCHANGED todo
    BY <1>6, <2>1, <1>h, <1>g, <1>k, <1>n DEF Disconnect, Move, Disconnected, Others
  <2>2. CASE At(t, "disconnect") /\ state # "OK" /\ Advance(t)
    BY <1>6, <2>2, <1>h, <1>a, <1>n DEF Disconnect, Move, Disconnected, Others
  <2>3. CASE pc[t] = "close" /\ Goto(t, "hold") /\ UNCHANGED todo
    BY <1>6, <2>3, <1>h, <1>g, <1>k, <1>n DEF Disconnect, Move, Disconnected, Others
  <2> QED BY <1>6, <2>1, <2>2, <2>3 DEF Disconnect
<1>7. CASE Hold(t)
  BY <1>7, <1>h, <1>g, <1>k, <1>n DEF Hold, Move, Disconnected, Others
<1>8. CASE Post(t)
  BY <1>8, <1>h, <1>g, <1>k, <1>n DEF Post, Move, Disconnected, Others
<1>9. CASE Drain(t)
  <2>1. CASE /\ pc[t] \in Draining /\ UNCHANGED todo /\ \E l \in Draining : Goto(t, l)
    BY <1>9, <2>1, <1>h, <1>g, <1>k, <1>n DEF Drain, Move, Disconnected, Others, Draining
  <2>2. CASE pc[t] = "drainSend" /\ Advance(t)
    BY <1>9, <2>2, <1>h, <1>a, <1>n DEF Drain, Move, Disconnected, Others
  <2> QED BY <1>9, <2>1, <2>2 DEF Drain, Draining
<1>10. CASE OpsOver(t)
  <2>1. \A u \in Threads \ {t} : seen'[u] = seen[u]
    BY <1>10, <1>f DEF OpsOver
  <2> QED BY <1>10, <2>1, <1>g, <1>k DEF OpsOver, Move, Ended, Others
<1> QED
  BY <1>1, <1>2, <1>3, <1>4, <1>5, <1>6, <1>7, <1>8, <1>9, <1>10 DEF Operate

\* What an operation does outside its thread.
LEMMA EffectIs ==
  ASSUME Types, PlaceInv, NEW t \in Threads, Operate(t)
  PROVE  /\ kind' = kind
         /\ \/ state' = state
            \/ state = "OK" /\ state' = "DISCONNECT" /\ pc[t] = "ops" /\ pc'[t] = "close"
         /\ IF pc[t] = "close" THEN closed' = TRUE ELSE closed' = closed
         /\ \/ flight' = flight
            \/ /\ pc[t] = "call" /\ closed = FALSE /\ Called(t) \in Ops
               /\ flight' = [flight EXCEPT ![Called(t)] = @ + 1]
         /\ IF pc[t] = "post" THEN port' = Append(port, <<"null", TRUE>>) ELSE port' = port
         /\ \/ seen' = seen /\ (pc[t] = "ops" => todo[t] # <<>>)
            \/ /\ pc[t] = "ops" /\ todo[t] = <<>> /\ pc'[t] = "idle" /\ seen'[t] = <<>>
               /\ flight' = flight
<1>f. /\ pc \in [Threads -> Places] /\ todo \in [Threads -> Seq(Tasks)] /\ closed \in BOOLEAN
      /\ seen \in [Threads -> {<<>>} \union ((Ops \union {"null"}) \X BOOLEAN)]
  BY DEF Types
<1>h. /\ pc[t] \in {"count", "call", "close", "hold", "post", "drainRecv", "drainedRecv", "drainSend",
                    "drainedSend"} => todo[t] # <<>>
      /\ \A op : At(t, op) => todo[t] # <<>> /\ pc[t] = "ops" /\ Head(todo[t]) = op
  BY AtHas
<1>1. CASE Put(t)
  BY <1>1, <1>h DEF Put
<1>2. CASE Count(t)
  BY <1>2, <1>h DEF Count
<1>3. CASE Begin(t)
  BY <1>3, <1>h DEF Begin
<1>4. CASE Call(t)
  <2>1. Called(t) \in Ops
    BY DEF Called, Ops
  <2> HIDE DEF Called
  <2> QED BY <1>4, <1>f, <2>1 DEF Call
<1>5. CASE Uncount(t)
  BY <1>5, <1>h DEF Uncount
<1>6. CASE Disconnect(t)
  <2>1. pc' = [pc EXCEPT ![t] = "close"] => pc'[t] = "close"
    BY <1>f
  <2> QED BY <1>6, <1>h, <2>1 DEF Disconnect, Goto
<1>7. CASE Hold(t)
  BY <1>7 DEF Hold
<1>8. CASE Post(t)
  BY <1>8 DEF Post
<1>9. CASE Drain(t)
  BY <1>9 DEF Drain
<1>10. CASE OpsOver(t)
  BY <1>10, <1>f DEF OpsOver, Goto
<1> QED
  BY <1>1, <1>2, <1>3, <1>4, <1>5, <1>6, <1>7, <1>8, <1>9, <1>10 DEF Operate

\* Short lists of operations.
LEMMA Shorts ==
  ASSUME NEW X, NEW x \in X, NEW y \in X, NEW z \in X
  PROVE  /\ Head(<<x>>) = x /\ Tail(<<x>>) = <<>> /\ <<x>> # <<>>
         /\ Head(<<x, y>>) = x /\ Tail(<<x, y>>) = <<y>> /\ <<x, y>> # <<>>
         /\ Head(<<x, y, z>>) = x /\ Tail(<<x, y, z>>) = <<y, z>> /\ <<x, y, z>> # <<>>
         /\ <<x>> \o <<>> = <<x>> /\ <<x, y>> \o <<>> = <<x, y>>
<1>1. /\ <<x>> \in Seq(X) /\ <<x, y>> \in Seq(X) /\ <<x, y, z>> \in Seq(X)
      /\ <<y>> \in Seq(X) /\ <<y, z>> \in Seq(X) /\ <<>> \in Seq(X)
  OBVIOUS
<1>2. <<x>> \o <<>> = <<x>> /\ <<x, y>> \o <<>> = <<x, y>>
  BY <1>1, ConcatEmptySeq
<1>3. Tail(<<x>>) = <<>>
  <2>1. Tail(<<x>>) \in Seq(X) /\ Len(Tail(<<x>>)) = 0
    BY <1>1, HeadTailProperties
  <2> QED BY <2>1, EmptySeq
<1>4. Tail(<<x, y>>) = <<y>>
  <2>1. Tail(<<x, y>>) \in Seq(X) /\ Len(Tail(<<x, y>>)) = 1 /\ Tail(<<x, y>>)[1] = y
    BY <1>1, HeadTailProperties
  <2>2. \A i \in 1..1 : Tail(<<x, y>>)[i] = <<y>>[i]
    BY <2>1
  <2> QED BY <1>1, <2>1, <2>2, SeqEqual
<1>5. Tail(<<x, y, z>>) = <<y, z>>
  <2>1. /\ Tail(<<x, y, z>>) \in Seq(X) /\ Len(Tail(<<x, y, z>>)) = 2
        /\ Tail(<<x, y, z>>)[1] = y /\ Tail(<<x, y, z>>)[2] = z
    BY <1>1, HeadTailProperties
  <2>2. \A i \in 1..2 : Tail(<<x, y, z>>)[i] = <<y, z>>[i]
    BY <2>1
  <2> QED BY <1>1, <2>1, <2>2, SeqEqual
<1> QED BY <1>1, <1>2, <1>3, <1>4, <1>5

\* The last operation of a list is still the last when the first one is done or replaced.
LEMMA LastTail ==
  ASSUME NEW X, NEW s \in Seq(X), s # <<>>, Tail(s) # <<>>
  PROVE  Tail(s) \in Seq(X) /\ Len(Tail(s)) \in Nat /\ Len(Tail(s)) > 0 /\ Tail(s)[Len(Tail(s))] = s[Len(s)]
<1>1. /\ Tail(s) \in Seq(X) /\ Len(s) \in Nat /\ Len(Tail(s)) = Len(s) - 1
      /\ \A i \in 1..Len(Tail(s)) : Tail(s)[i] = s[i + 1]
  BY HeadTailProperties
<1>2. Len(Tail(s)) # 0
  BY <1>1, EmptySeq
<1> QED BY <1>1, <1>2

\* The last element of a concatenation is that of its second part.
LEMMA LastConcat ==
  ASSUME NEW X, NEW r \in Seq(X), NEW s \in Seq(X), s # <<>>
  PROVE  (r \o s)[Len(r \o s)] = s[Len(s)]
<1>1. /\ r \o s \in Seq(X) /\ Len(r \o s) = Len(r) + Len(s)
      /\ \A i \in 1..Len(r) + Len(s) : (r \o s)[i] = IF i <= Len(r) THEN r[i] ELSE s[i - Len(r)]
  BY ConcatProperties
<1>2. Len(s) # 0 /\ Len(s) \in Nat /\ Len(r) \in Nat
  BY EmptySeq
<1> QED BY <1>1, <1>2

\* The starter has at most one operation to do, and its calls do not fail.
LEMMA StarterMoves ==
  ASSUME Types, PlaceInv, FreshInv, Move("starter")
  PROVE  /\ todo'["starter"] \in StarterTodos /\ pc'["starter"] \in {"idle", "ops", "count", "call"}
         /\ todo'["starter"] # <<>> => todo["starter"] # <<>>
         /\ todo'["starter"] = <<>> \/ pc["starter"] # "call"
<1> DEFINE s == todo["starter"]
<1>1. s \in StarterTodos /\ pc["starter"] \in {"idle", "ops", "count", "call"}
  BY DEF PlaceInv
<1>2. \A x \in Tasks : Head(<<x>>) = x /\ Tail(<<x>>) = <<>> /\ <<x>> # <<>> /\ <<x>> \o <<>> = <<x>>
  BY Shorts
<1>3. s # <<>> => /\ Tail(s) = <<>> /\ s = <<Head(s)>>
                  /\ Head(s) \in {"send", "recv", "accept", "beginSend", "beginRecv"}
  BY <1>1, <1>2 DEF StarterTodos, Tasks
<1>4. <<"beginSend">> \o <<>> = <<"beginSend">> /\ <<"beginRecv">> \o <<>> = <<"beginRecv">>
  BY <1>2 DEF Tasks
<1>5. s # <<>> => ~closed
  BY DEF FreshInv
<1>6. CASE Ended("starter")
  BY <1>1, <1>6 DEF Ended, Kept
<1>7. CASE s # <<>> /\ Counted("starter")
  <2>1. pc'["starter"] \in {"ops", "count"} /\ pc["starter"] # "call"
    BY <1>7 DEF Counted, Popped, Replaced
  <2>2. todo'["starter"] \in {s, Tail(s), <<"beginSend">> \o Tail(s), <<"beginRecv">> \o Tail(s)}
    BY <1>7 DEF Counted, Popped, Replaced, Kept
  <2>3. todo'["starter"] \in {s, <<>>, <<"beginSend">>, <<"beginRecv">>}
    BY <1>3, <1>4, <1>7, <2>2
  <2> QED BY <1>1, <1>7, <2>1, <2>3 DEF StarterTodos
<1>8. CASE s # <<>> /\ Begun("starter")
  BY <1>1, <1>3, <1>8 DEF Begun, Popped, Kept, StarterTodos
<1>9. CASE s # <<>> /\ MadeCall("starter")
  BY <1>1, <1>3, <1>5, <1>9 DEF MadeCall, Popped, StarterTodos
<1>10. CASE s # <<>> /\ Disconnected("starter")
  BY <1>1, <1>3, <1>10 DEF Disconnected, Draining
<1> QED BY <1>6, <1>7, <1>8, <1>9, <1>10 DEF Move

\* The checker starts the client, or disconnects.
LEMMA CheckerMoves ==
  ASSUME Types, PlaceInv, Move("checker")
  PROVE  /\ todo'["checker"] \in CheckerTodos
         /\ todo'["checker"] \in RecvToCome => todo["checker"] \in RecvToCome
         /\ todo'["checker"] = <<"send", "recv">> =>
              todo["checker"] = <<"send", "recv">> /\ pc["checker"] = "ops" /\ pc'["checker"] = "count"
         /\ todo'["checker"] \in RecvToCome /\ pc["checker"] = "call" => Called("checker") = "send"
         /\ pc["checker"] = "call" => Called("checker") # "accept"
         /\ pc'["checker"] \notin {"handle", "nullSend", "nullRecv", "again", "hasPending"}
<1> DEFINE s == todo["checker"]  s1 == todo'["checker"]
<1>1. s \in CheckerTodos
  BY DEF PlaceInv
<1>2. \A x \in Tasks : Head(<<x>>) = x /\ Tail(<<x>>) = <<>> /\ <<x>> # <<>> /\ <<x>> \o <<>> = <<x>>
  BY Shorts
<1>3. \A x, y \in Tasks : /\ Head(<<x, y>>) = x /\ Tail(<<x, y>>) = <<y>> /\ <<x, y>> # <<>>
                           /\ <<x, y>> \o <<>> = <<x, y>> /\ <<x>> \o <<y>> = <<x, y>>
  <2> TAKE x, y \in Tasks
  <2>1. /\ Head(<<x, y>>) = x /\ Tail(<<x, y>>) = <<y>> /\ <<x, y>> # <<>>
        /\ <<x, y>> \o <<>> = <<x, y>>
    BY Shorts
  <2>2. <<x>> \o <<y>> = <<x, y>>
    BY Concats
  <2> QED BY <2>1, <2>2
<1>4. \A x, y, z \in Tasks : /\ Head(<<x, y, z>>) = x /\ Tail(<<x, y, z>>) = <<y, z>>
                              /\ <<x, y>> \o <<z>> = <<x, y, z>>
  <2> TAKE x, y, z \in Tasks
  <2>1. Head(<<x, y, z>>) = x /\ Tail(<<x, y, z>>) = <<y, z>>
    BY Shorts
  <2>2. <<x, y>> \o <<z>> = <<x, y, z>>
    BY Concats
  <2> QED BY <2>1, <2>2
<1>5. s # <<>> =>
        \/ s = <<"send", "recv">> /\ Head(s) = "send" /\ Tail(s) = <<"recv">>
        \/ s = <<"beginSend", "recv">> /\ Head(s) = "beginSend" /\ Tail(s) = <<"recv">>
        \/ s = <<"sent", "disconnect", "recv">> /\ Head(s) = "sent" /\ Tail(s) = <<"disconnect", "recv">>
        \/ s = <<"disconnect", "recv">> /\ Head(s) = "disconnect" /\ Tail(s) = <<"recv">>
        \/ s = <<"recv">> /\ Head(s) = "recv" /\ Tail(s) = <<>>
        \/ s = <<"beginRecv">> /\ Head(s) = "beginRecv" /\ Tail(s) = <<>>
        \/ s = <<"received", "disconnect">> /\ Head(s) = "received" /\ Tail(s) = <<"disconnect">>
        \/ s = <<"disconnect">> /\ Head(s) = "disconnect" /\ Tail(s) = <<>>
  <2>1. /\ Head(<<"send", "recv">>) = "send" /\ Tail(<<"send", "recv">>) = <<"recv">>
        /\ Head(<<"beginSend", "recv">>) = "beginSend" /\ Tail(<<"beginSend", "recv">>) = <<"recv">>
        /\ Head(<<"disconnect", "recv">>) = "disconnect" /\ Tail(<<"disconnect", "recv">>) = <<"recv">>
        /\ Head(<<"received", "disconnect">>) = "received"
        /\ Tail(<<"received", "disconnect">>) = <<"disconnect">>
    BY <1>3 DEF Tasks
  <2>2. /\ Head(<<"sent", "disconnect", "recv">>) = "sent"
        /\ Tail(<<"sent", "disconnect", "recv">>) = <<"disconnect", "recv">>
    BY <1>4 DEF Tasks
  <2>3. /\ Head(<<"recv">>) = "recv" /\ Tail(<<"recv">>) = <<>>
        /\ Head(<<"beginRecv">>) = "beginRecv" /\ Tail(<<"beginRecv">>) = <<>>
        /\ Head(<<"disconnect">>) = "disconnect" /\ Tail(<<"disconnect">>) = <<>>
    BY <1>2 DEF Tasks
  <2>4. s # <<>> => \/ s = <<"send", "recv">> \/ s = <<"beginSend", "recv">>
                    \/ s = <<"sent", "disconnect", "recv">> \/ s = <<"disconnect", "recv">>
                    \/ s = <<"recv">> \/ s = <<"beginRecv">> \/ s = <<"received", "disconnect">>
                    \/ s = <<"disconnect">>
    BY <1>1 DEF CheckerTodos, RecvToCome
  <2> HIDE DEF s
  <2> QED BY <2>1, <2>2, <2>3, <2>4
<1>6. /\ <<"beginSend">> \o <<"recv">> = <<"beginSend", "recv">>
      /\ <<"beginRecv">> \o <<>> = <<"beginRecv">>
      /\ <<"sent", "disconnect">> \o <<"recv">> = <<"sent", "disconnect", "recv">>
      /\ <<"received", "disconnect">> \o <<>> = <<"received", "disconnect">>
  BY <1>2, <1>3, <1>4 DEF Tasks
<1>7. /\ <<"send", "recv">> \notin {<<"beginSend", "recv">>, <<"recv">>, <<"disconnect", "recv">>, <<>>,
                                    <<"disconnect">>, <<"sent", "disconnect", "recv">>, <<"beginRecv">>,
                                    <<"received", "disconnect">>}
      /\ \A x \in {<<>>, <<"disconnect">>, <<"beginRecv">>, <<"received", "disconnect">>} :
           x \notin RecvToCome
  BY DEF RecvToCome
<1>8. \/ s1 = s
      \/ Head(s) = "send" /\ s1 \in {Tail(s), <<"beginSend">> \o Tail(s)}
      \/ Head(s) = "recv" /\ s1 \in {Tail(s), <<"beginRecv">> \o Tail(s)}
      \/ Head(s) \in {"beginSend", "beginRecv", "sent", "received", "disconnect"} /\ s1 = Tail(s)
      \/ Head(s) = "beginSend" /\ s1 \in {Tail(s), <<"sent", "disconnect">> \o Tail(s)}
      \/ Head(s) = "beginRecv" /\ s1 \in {Tail(s), <<"received", "disconnect">> \o Tail(s)}
      \/ Head(s) = "accept"
  <2>1. CASE Ended("checker")
    BY <2>1 DEF Ended, Kept
  <2>2. CASE Counted("checker")
    BY <2>2 DEF Counted, Kept, Popped, Replaced
  <2>3. CASE Begun("checker")
    BY <2>3 DEF Begun, Kept, Popped
  <2>4. CASE MadeCall("checker")
    <3>1. Head(s) = "beginSend" => Failed("checker") = <<"sent", "disconnect">>
      BY DEF Failed, Called
    <3>2. Head(s) = "beginRecv" => Failed("checker") = <<"received", "disconnect">>
      BY DEF Failed, Called
    <3> QED BY <2>4, <3>1, <3>2 DEF MadeCall, Popped, Replaced
  <2>5. CASE Disconnected("checker")
    <3>1. pc["checker"] = "drainSend" => Head(s) = "disconnect"
      BY ThreadsAre DEF PlaceInv
    <3> QED BY <2>5, <3>1 DEF Disconnected, Kept, Popped
  <2> QED BY <2>1, <2>2, <2>3, <2>4, <2>5 DEF Move
<1>9. s # <<>> \/ s1 = s
  BY DEF Move, Ended, Kept
<1>10. s1 # s => s1 \in CheckerTodos /\ (s1 \in RecvToCome => s \in RecvToCome) /\ s1 # <<"send", "recv">>
  <2>1. s1 # s => \/ s = <<"send", "recv">> /\ s1 \in {<<"recv">>, <<"beginSend", "recv">>}
                  \/ s = <<"beginSend", "recv">> /\ s1 \in {<<"recv">>, <<"sent", "disconnect", "recv">>}
                  \/ s = <<"sent", "disconnect", "recv">> /\ s1 = <<"disconnect", "recv">>
                  \/ s = <<"disconnect", "recv">> /\ s1 = <<"recv">>
                  \/ s = <<"recv">> /\ s1 \in {<<>>, <<"beginRecv">>}
                  \/ s = <<"beginRecv">> /\ s1 \in {<<>>, <<"received", "disconnect">>}
                  \/ s = <<"received", "disconnect">> /\ s1 = <<"disconnect">>
                  \/ s = <<"disconnect">> /\ s1 = <<>>
    BY <1>5, <1>6, <1>8, <1>9
  <2> QED BY <1>7, <2>1 DEF CheckerTodos, RecvToCome
<1>11. s1 = s /\ s = <<"send", "recv">> => pc["checker"] = "ops" /\ pc'["checker"] = "count"
  <2>1. s = <<"send", "recv">> => s # <<>> /\ Head(s) = "send" /\ Tail(s) = <<"recv">>
    BY <1>2, <1>3 DEF Tasks
  <2>2. s = <<"send", "recv">> /\ s1 = s => Counted("checker")
    <3>1. s = <<"send", "recv">> => ~Ended("checker") /\ ~Begun("checker") /\ ~MadeCall("checker")
      BY <2>1 DEF Ended, Begun, MadeCall
    <3>2. s = <<"send", "recv">> => ~Disconnected("checker")
      <4>1. pc["checker"] \in {"close", "hold", "post", "drainRecv", "drainedRecv", "drainSend",
                              "drainedSend"}
            => Head(s) = "disconnect"
        BY ThreadsAre DEF PlaceInv
      <4> QED BY <2>1, <4>1 DEF Disconnected, Draining
    <3> QED BY <3>1, <3>2 DEF Move
  <2>3. s = <<"send", "recv">> /\ s1 = s => ~Popped("checker") /\ ~Replaced("checker", <<"beginSend">>)
    BY <1>6, <1>7, <2>1 DEF Popped, Replaced
  <2> QED BY <2>1, <2>2, <2>3 DEF Counted
<1>12. pc["checker"] = "call" => /\ Called("checker") # "accept"
                                 /\ s1 \in RecvToCome => Called("checker") = "send"
  <2>1. SUFFICES ASSUME pc["checker"] = "call"
                 PROVE  Called("checker") # "accept" /\ (s1 \in RecvToCome => Called("checker") = "send")
    OBVIOUS
  <2>2. MadeCall("checker")
    BY <2>1 DEF Move, Ended, Counted, Begun, Disconnected, Draining
  <2>3. s # <<>> /\ Head(s) \in {"beginSend", "beginRecv"}
    BY <1>5, <2>1, <2>2 DEF MadeCall, Move, Ended
  <2>4. CASE Head(s) = "beginSend"
    BY <2>4 DEF Called
  <2>5. CASE Head(s) = "beginRecv"
    <3>1. Failed("checker") = <<"received", "disconnect">> /\ Called("checker") = "recv"
      BY <2>5 DEF Failed, Called
    <3>2. s1 = Tail(s) \/ s1 = <<"received", "disconnect">> \o Tail(s)
      BY <2>2, <3>1 DEF MadeCall, Popped, Replaced
    <3>3. s1 = <<>> \/ s1 = <<"received", "disconnect">>
      BY <1>5, <1>6, <2>3, <2>5, <3>2
    <3> QED BY <1>7, <3>1, <3>3
  <2> QED BY <2>3, <2>4, <2>5
<1>13. pc'["checker"] \notin {"handle", "nullSend", "nullRecv", "again", "hasPending"}
  BY DEF Move, Ended, Counted, Begun, MadeCall, Disconnected, Popped, Replaced, Draining
<1> QED BY <1>1, <1>10, <1>11, <1>12, <1>13

\* What may replace an operation of a worker is of the kind of its packet.
LEMMA WorkerMoves ==
  ASSUME Types, PlaceInv, Move(w1), seen[w1] # <<>>, seen[w1][1] # "null"
  PROVE  /\ todo'[w1] \in Seq(Steps(kind, seen[w1][1]))
         /\ todo'[w1] # <<>> => todo'[w1][Len(todo'[w1])] = Uncounts(seen[w1][1])
<1> DEFINE s == todo[w1]  S == Steps(kind, seen[w1][1])  u == Uncounts(seen[w1][1])
<1>1. s \in Seq(S) /\ (s # <<>> => s[Len(s)] = u)
  BY DEF PlaceInv
<1>2. u \in {"sent", "received"}
  BY DEF Uncounts
<1>3. /\ "send" \in S => seen[w1][1] # "send"
      /\ "accept" \in S => seen[w1][1] # "send"
      /\ "recv" \in S \/ "beginRecv" \in S => {"recv", "beginRecv", "received"} \subseteq S
      /\ {"beginSend", "sent", "disconnect"} \subseteq S
      /\ seen[w1][1] # "send" => S = Tasks
  BY DEF Steps, Tasks
<1> HIDE DEF S, u
<1>4. CASE s = <<>>
  <2>1. todo'[w1] = s
    BY <1>4 DEF Move, Ended, Kept
  <2> QED BY <1>1, <1>4, <2>1 DEF S, u
<1>5. CASE s # <<>>
  <2>1. Head(s) \in S /\ Tail(s) \in Seq(S)
    BY <1>1, <1>5, HeadTail
  <2>2. CASE Kept(w1)
    BY <1>1, <2>2 DEF Kept, S, u
  <2>3. CASE Popped(w1)
    <3>1. todo'[w1] = Tail(s)
      BY <2>3 DEF Popped
    <3>2. Tail(s) # <<>> => Tail(s)[Len(Tail(s))] = s[Len(s)]
      BY <1>1, <1>5, LastTail
    <3> QED BY <1>1, <1>5, <2>1, <3>1, <3>2 DEF S, u
  <2>4. ASSUME NEW ops \in Seq(S), Replaced(w1, ops),
               Head(s) \notin {"sent", "received"}
        PROVE  /\ todo'[w1] \in Seq(S) /\ todo'[w1][Len(todo'[w1])] = u
    <3>1. todo'[w1] = ops \o Tail(s)
      BY <2>4 DEF Replaced
    <3>2. Tail(s) # <<>>
      <4>1. Tail(s) = <<>> => Len(s) = 1
        <5>1. Len(Tail(s)) = Len(s) - 1 /\ Len(s) \in Nat
          BY <1>1, <1>5, HeadTailProperties
        <5>2. Tail(s) = <<>> => Len(Tail(s)) = 0
          BY EmptySeq
        <5> QED BY <5>1, <5>2
      <4>2. Head(s) = s[1]
        BY <1>1, <1>5
      <4> QED BY <1>1, <1>2, <1>5, <2>4, <4>1, <4>2
    <3>3. Tail(s)[Len(Tail(s))] = s[Len(s)]
      BY <1>1, <1>5, <3>2, LastTail
    <3>4. (ops \o Tail(s))[Len(ops \o Tail(s))] = Tail(s)[Len(Tail(s))]
      BY <2>1, <3>2, LastConcat
    <3>5. ops \o Tail(s) \in Seq(S)
      BY <2>1, ConcatProperties
    <3> QED BY <1>1, <1>5, <3>1, <3>3, <3>4, <3>5
  <2>5. CASE Counted(w1)
    <3>1. Head(s) = "send" => <<"beginSend">> \in Seq(S)
      BY <1>3
    <3>2. Head(s) = "recv" => <<"beginRecv">> \in Seq(S)
      BY <1>3, <2>1
    <3>3. \/ Kept(w1) \/ Popped(w1)
          \/ Head(s) = "send" /\ Replaced(w1, <<"beginSend">>)
          \/ Head(s) = "recv" /\ Replaced(w1, <<"beginRecv">>)
      BY <2>5 DEF Counted
    <3>4. CASE Head(s) = "send" /\ Replaced(w1, <<"beginSend">>)
      BY <2>4, <3>1, <3>4 DEF S, u
    <3>5. CASE Head(s) = "recv" /\ Replaced(w1, <<"beginRecv">>)
      BY <2>4, <3>2, <3>5 DEF S, u
    <3> QED BY <2>2, <2>3, <3>3, <3>4, <3>5
  <2>6. CASE Begun(w1)
    BY <2>2, <2>3, <2>6 DEF Begun
  <2>7. CASE MadeCall(w1)
    <3>1. Head(s) \in {"beginSend", "beginRecv", "accept"} /\ (Popped(w1) \/ Replaced(w1, Failed(w1)))
      BY <2>7 DEF MadeCall
    <3>2. Failed(w1) \in Seq(S)
      <4>1. CASE Head(s) = "beginSend"
        <5>1. Failed(w1) = <<"sent", "disconnect">>
          BY <4>1 DEF Failed, Called
        <5> QED BY <1>3, <5>1
      <4>2. CASE Head(s) = "beginRecv"
        <5>1. Failed(w1) = <<"received", "disconnect">>
          BY <4>2 DEF Failed, Called
        <5> QED BY <1>3, <2>1, <4>2, <5>1
      <4>3. CASE Head(s) = "accept"
        <5>1. Failed(w1) = <<"disconnect", "received">>
          BY <4>3 DEF Failed, Called
        <5>2. "disconnect" \in S /\ "received" \in S
          BY <1>3, <2>1, <4>3 DEF Tasks
        <5> QED BY <5>1, <5>2
      <4> QED BY <3>1, <4>1, <4>2, <4>3
    <3>3. CASE Replaced(w1, Failed(w1))
      BY <2>4, <3>1, <3>2, <3>3 DEF S, u
    <3> QED BY <2>3, <3>1, <3>3
  <2>8. CASE Disconnected(w1)
    BY <2>2, <2>3, <2>8 DEF Disconnected
  <2> QED BY <1>5, <2>5, <2>6, <2>7, <2>8 DEF Move, Ended
<1> QED BY <1>4, <1>5

\* Where a thread is fits what it has to do.
Fits(t) ==
  /\ pc[t] \in {"idle", "handle", "nullSend", "nullRecv", "again", "hasPending"} => todo[t] = <<>>
  /\ pc[t] = "count" => todo[t] # <<>> /\ Head(todo[t]) \in {"send", "recv"}
  /\ pc[t] = "call" => todo[t] # <<>> /\ Head(todo[t]) \in {"beginSend", "beginRecv", "accept"}
  /\ pc[t] \in {"close", "hold", "post", "drainRecv", "drainedRecv", "drainSend", "drainedSend"}
     => todo[t] # <<>> /\ Head(todo[t]) = "disconnect" /\ state # "OK"

\* A thread that stays keeps its place.
LEMMA FitsOthers ==
  ASSUME PlaceInv, NEW u \in Threads, pc'[u] = pc[u], todo'[u] = todo[u], state # "OK" => state' # "OK"
  PROVE  Fits(u)'
<1>1. Fits(u)
  BY DEF PlaceInv, Fits
<1> QED BY <1>1 DEF Fits

\* A move ends in a place that fits.
LEMMA FitsMove ==
  ASSUME PlaceInv, NEW t \in Threads, Move(t), state # "OK" => state' # "OK"
  PROVE  Fits(t)'
<1>1. Fits(t)
  BY DEF PlaceInv, Fits
<1>2. CASE Ended(t)
  BY <1>2 DEF Ended, Kept, Fits
<1>3. CASE todo[t] # <<>> /\ Counted(t)
  BY <1>3 DEF Counted, Popped, Replaced, Kept, Fits
<1>4. CASE todo[t] # <<>> /\ Begun(t)
  BY <1>4 DEF Begun, Popped, Kept, Fits
<1>5. CASE todo[t] # <<>> /\ MadeCall(t)
  BY <1>5 DEF MadeCall, Popped, Replaced, Fits
<1>6. CASE todo[t] # <<>> /\ Disconnected(t)
  BY <1>1, <1>6 DEF Disconnected, Popped, Kept, Fits, Draining
<1> QED BY <1>2, <1>3, <1>4, <1>5, <1>6 DEF Move

\* An operation keeps the places,
LEMMA PlaceOperate ==
  ASSUME Types, PlaceInv, FreshInv, NEW t \in Threads, Operate(t)
  PROVE  PlaceInv'
<1>m. Move(t) /\ Others(t)
  BY MoveIs
<1>e. kind' = kind /\ (state # "OK" => state' # "OK")
      /\ \/ seen' = seen /\ (pc[t] = "ops" => todo[t] # <<>>)
         \/ pc[t] = "ops" /\ todo[t] = <<>> /\ pc'[t] = "idle" /\ seen'[t] = <<>>
  BY EffectIs
<1>t. Threads = {"starter", "checker", w1} /\ w1 # "starter" /\ w1 # "checker"
  BY ThreadsAre
<1>1. \A u \in Threads : Fits(u)'
  <2> TAKE u \in Threads
  <2>1. CASE u = t
    BY <1>m, <1>e, <2>1, FitsMove
  <2>2. CASE u # t
    BY <1>m, <1>e, <2>2, FitsOthers DEF Others
  <2> QED BY <2>1, <2>2
<1>2. /\ todo'["starter"] \in StarterTodos /\ pc'["starter"] \in {"idle", "ops", "count", "call"}
      /\ kind' = "client" => pc'["starter"] = "idle"
  <2>1. CASE t = "starter"
    <3>1. todo'["starter"] \in StarterTodos /\ pc'["starter"] \in {"idle", "ops", "count", "call"}
      BY <1>m, <2>1, StarterMoves
    <3>2. pc["starter"] # "idle"
      BY <1>m, <2>1 DEF Move, Ended, Counted, Begun, MadeCall, Disconnected, Draining
    <3> QED BY <1>e, <3>1, <3>2 DEF PlaceInv
  <2>2. CASE t # "starter"
    BY <1>m, <1>e, <1>t, <2>2 DEF PlaceInv, Others
  <2> QED BY <2>1, <2>2
<1>3. /\ todo'["checker"] \in CheckerTodos
      /\ pc'["checker"] \notin {"handle", "nullSend", "nullRecv", "again"}
  <2>1. CASE t = "checker"
    BY <1>m, <2>1, CheckerMoves
  <2>2. CASE t # "checker"
    BY <1>m, <1>t, <2>2 DEF PlaceInv, Others
  <2> QED BY <2>1, <2>2
<1>4. seen'["starter"] = <<>> /\ seen'["checker"] = <<>>
  BY <1>m, <1>e, <1>t DEF PlaceInv, Others
<1>5. /\ pc'[w1] # "hasPending" /\ (pc'[w1] = "idle" <=> seen'[w1] = <<>>)
      /\ seen'[w1] # <<>> /\ seen'[w1][1] = "null" =>
           /\ pc'[w1] \in {"nullSend", "nullRecv", "again", "ops"}
           /\ todo'[w1] \in {<<>>, <<"received">>}
      /\ seen'[w1] # <<>> /\ seen'[w1][1] # "null" =>
           /\ pc'[w1] \notin {"nullSend", "nullRecv", "again"}
           /\ todo'[w1] \in Seq(Steps(kind', seen'[w1][1]))
           /\ todo'[w1] # <<>> => todo'[w1][Len(todo'[w1])] = Uncounts(seen'[w1][1])
  <2>1. CASE t # w1
    BY <1>m, <1>e, <1>t, <2>1 DEF PlaceInv, Others
  <2>2. CASE t = w1
    <3>1. /\ pc'[w1] \notin {"handle", "nullSend", "nullRecv", "again", "hasPending"}
          /\ pc[w1] \notin {"idle", "nullSend", "nullRecv", "again"}
          /\ pc'[w1] = "idle" => Ended(w1)
      BY <1>m, <2>2 DEF Move, Ended, Counted, Begun, MadeCall, Disconnected, Popped, Replaced, Draining
    <3>2. seen[w1] # <<>>
      BY <3>1 DEF PlaceInv
    <3>3. CASE Ended(w1)
      <4>1. seen'[w1] = <<>> /\ pc'[w1] = "idle"
        BY <1>e, <2>2, <3>3 DEF Ended
      <4> QED BY <4>1
    <3>4. CASE ~Ended(w1)
      <4>1. seen'[w1] = seen[w1] /\ pc'[w1] # "idle"
        BY <1>e, <1>m, <2>2, <3>1, <3>4 DEF Ended, Kept, Move
      <4>2. CASE seen[w1][1] # "null"
        <5>1. todo'[w1] \in Seq(Steps(kind, seen[w1][1]))
              /\ (todo'[w1] # <<>> => todo'[w1][Len(todo'[w1])] = Uncounts(seen[w1][1]))
          BY <1>m, <2>2, <3>2, <4>2, WorkerMoves
        <5> QED BY <1>e, <3>1, <3>2, <4>1, <4>2, <5>1
      <4>3. CASE seen[w1][1] = "null"
        <5>1. todo[w1] = <<"received">> /\ Head(todo[w1]) = "received" /\ Tail(todo[w1]) = <<>>
          <6>1. todo[w1] # <<>> /\ todo[w1] \in {<<>>, <<"received">>}
            BY <1>m, <2>2, <3>2, <3>4, <4>3 DEF PlaceInv, Move
          <6>2. Head(<<"received">>) = "received" /\ Tail(<<"received">>) = <<>>
            BY Shorts DEF Tasks
          <6> QED BY <6>1, <6>2
        <5>2. pc[w1] = "ops"
          BY <3>1, <3>2, <4>3 DEF PlaceInv
        <5>3. Popped(w1)
          BY <1>m, <2>2, <3>4, <5>1, <5>2 DEF Move, Counted, Begun, MadeCall, Disconnected, Draining
        <5> QED BY <3>1, <3>2, <4>1, <4>3, <5>1, <5>3 DEF Popped
      <4> QED BY <4>2, <4>3
    <3> QED BY <3>3, <3>4
  <2> QED BY <2>1, <2>2
<1> QED BY <1>1, <1>2, <1>3, <1>4, <1>5 DEF PlaceInv, Fits

\* What a worker's own steps do.
LEMMA WorkerIs ==
  ASSUME Types, PlaceInv, Dequeue(w1) \/ Handle(w1) \/ Null(w1)
  PROVE  /\ kind' = kind /\ state' = state /\ closed' = closed /\ flight' = flight /\ Others(w1)
         /\ \/ /\ pc[w1] = "idle" /\ port # <<>> /\ port' = Tail(port) /\ seen'[w1] = Head(port)
               /\ \/ pc'[w1] = "nullSend" /\ Head(port)[1] = "null" /\ todo'[w1] = <<>>
                  \/ pc'[w1] = "handle" /\ Head(port)[1] # "null" /\ todo'[w1] = <<>>
                  \/ /\ pc'[w1] = "ops" /\ Head(port)[1] # "null"
                     /\ todo'[w1] = <<"disconnect", Uncounts(Head(port)[1])>>
            \/ /\ pc[w1] = "handle" /\ port' = port /\ seen'[w1] = seen[w1] /\ pc'[w1] = "ops"
               /\ todo'[w1] = (IF state = "DISCONNECT" THEN <<>> ELSE Callback(kind, seen[w1][1]))
                              \o <<Uncounts(seen[w1][1])>>
            \/ /\ pc[w1] \in Nulling /\ seen'[w1] = seen[w1]
               /\ \/ pc[w1] = "nullSend" /\ pc'[w1] = "again" /\ port' = port /\ todo'[w1] = <<>>
                  \/ /\ pc[w1] = "nullSend" /\ pc'[w1] = "nullRecv" /\ port' = port /\ todo'[w1] = <<>>
                     /\ pendSend = 0
                  \/ pc[w1] = "nullRecv" /\ pc'[w1] = "again" /\ port' = port /\ todo'[w1] = <<>>
                  \/ /\ pc[w1] = "nullRecv" /\ pendRecv = 1 /\ pc'[w1] = "ops" /\ port' = port
                     /\ todo'[w1] = <<"received">>
                  \/ /\ pc[w1] = "again" /\ pc'[w1] = "ops" /\ port' = Append(port, <<"null", TRUE>>)
                     /\ todo'[w1] = <<>>
<1>f. /\ pc \in [Threads -> Places] /\ todo \in [Threads -> Seq(Tasks)] /\ DOMAIN seen = Threads
      /\ w1 \in Threads
  BY ThreadsAre DEF Types
<1>t. pc[w1] \in {"idle", "handle", "nullSend", "nullRecv", "again"} => todo[w1] = <<>>
  BY <1>f DEF PlaceInv
<1>g. \A l : Goto(w1, l) => pc'[w1] = l /\ \A u \in Threads \ {w1} : pc'[u] = pc[u]
  BY <1>f DEF Goto
<1>k. todo' = todo => todo'[w1] = todo[w1] /\ \A u \in Threads \ {w1} : todo'[u] = todo[u]
  OBVIOUS
<1>n. seen' = seen => seen'[w1] = seen[w1] /\ \A u \in Threads \ {w1} : seen'[u] = seen[u]
  OBVIOUS
<1>e. \A ops : todo' = [todo EXCEPT ![w1] = ops] =>
        todo'[w1] = ops /\ \A u \in Threads \ {w1} : todo'[u] = todo[u]
  BY <1>f
<1>1. CASE Dequeue(w1)
  <2> DEFINE op == Head(port)[1]
             ops == <<"disconnect", IF op = "send" THEN "sent" ELSE "received">>
  <2>1. /\ pc[w1] = "idle" /\ port # <<>> /\ port' = Tail(port)
        /\ kind' = kind /\ state' = state /\ closed' = closed /\ flight' = flight
        /\ seen' = [seen EXCEPT ![w1] = Head(port)]
        /\ \/ op = "null" /\ Goto(w1, "nullSend") /\ UNCHANGED todo
           \/ op # "null" /\ Goto(w1, "handle") /\ UNCHANGED todo
           \/ op # "null" /\ todo' = [todo EXCEPT ![w1] = ops] /\ Goto(w1, "ops")
    BY <1>1 DEF Dequeue
  <2>2. ops = <<"disconnect", Uncounts(op)>>
    BY DEF Uncounts
  <2>3. seen'[w1] = Head(port) /\ \A u \in Threads \ {w1} : seen'[u] = seen[u]
    BY <1>f, <2>1
  <2> HIDE DEF op, ops
  <2>4. Others(w1)
    BY <1>g, <1>k, <1>e, <2>1, <2>3 DEF Others
  <2>5. \/ pc'[w1] = "nullSend" /\ op = "null" /\ todo'[w1] = <<>>
        \/ pc'[w1] = "handle" /\ op # "null" /\ todo'[w1] = <<>>
        \/ pc'[w1] = "ops" /\ op # "null" /\ todo'[w1] = <<"disconnect", Uncounts(op)>>
    BY <1>g, <1>k, <1>e, <1>t, <2>1, <2>2
  <2> QED BY <2>1, <2>3, <2>4, <2>5 DEF op
<1>2. CASE Handle(w1)
  <2> DEFINE ops == (IF state = "DISCONNECT" THEN <<>> ELSE Callback(kind, seen[w1][1]))
                    \o <<Uncounts(seen[w1][1])>>
  <2>1. /\ pc[w1] = "handle" /\ port' = port /\ seen' = seen /\ Goto(w1, "ops")
        /\ kind' = kind /\ state' = state /\ closed' = closed /\ flight' = flight
        /\ todo' = [todo EXCEPT ![w1] = ops]
    BY <1>2 DEF Handle, Uncounts
  <2> HIDE DEF ops
  <2>2. Others(w1) /\ todo'[w1] = ops /\ pc'[w1] = "ops" /\ seen'[w1] = seen[w1]
    BY <1>g, <1>e, <1>n, <2>1 DEF Others
  <2> QED BY <2>1, <2>2 DEF ops
<1>3. CASE Null(w1)
  <2>1. /\ kind' = kind /\ state' = state /\ closed' = closed /\ flight' = flight /\ seen' = seen
    BY <1>3 DEF Null
  <2>2. \/ /\ pc[w1] = "nullSend" /\ pendSend = 0 /\ Goto(w1, "nullRecv")
           /\ port' = port /\ todo' = todo
        \/ pc[w1] = "nullSend" /\ Goto(w1, "again") /\ port' = port /\ todo' = todo
        \/ /\ pc[w1] = "nullRecv" /\ pendRecv = 1 /\ port' = port
           /\ todo' = [todo EXCEPT ![w1] = <<"received">>] /\ Goto(w1, "ops")
        \/ pc[w1] = "nullRecv" /\ Goto(w1, "again") /\ port' = port /\ todo' = todo
        \/ /\ pc[w1] = "again" /\ port' = Append(port, <<"null", TRUE>>)
           /\ Goto(w1, "ops") /\ todo' = todo
    BY <1>3 DEF Null
  <2>3. Others(w1) /\ seen'[w1] = seen[w1]
    BY <1>g, <1>k, <1>e, <1>n, <2>1, <2>2 DEF Others
  <2> QED BY <1>g, <1>k, <1>e, <1>t, <2>1, <2>2, <2>3 DEF Nulling
<1> QED BY <1>1, <1>2, <1>3

\* so does a worker of its own,
LEMMA PlaceWorker ==
  ASSUME Types, PlaceInv, Dequeue(w1) \/ Handle(w1) \/ Null(w1)
  PROVE  PlaceInv'
<1>w. /\ kind' = kind /\ state' = state /\ Others(w1)
      /\ pc'[w1] \in {"nullSend", "handle", "ops", "again", "nullRecv"}
      /\ pc'[w1] # "ops" => todo'[w1] = <<>>
  BY WorkerIs
<1>t. Threads = {"starter", "checker", w1} /\ w1 # "starter" /\ w1 # "checker" /\ kind \in AllKinds
  BY ThreadsAre DEF Types
<1>s. seen \in [Threads -> {<<>>} \union ((Ops \union {"null"}) \X BOOLEAN)]
  BY DEF Types
<1>1. \A u \in Threads : Fits(u)'
  <2> TAKE u \in Threads
  <2>1. CASE u = w1
    BY <1>w, <2>1 DEF Fits
  <2>2. CASE u # w1
    BY <1>w, <2>2, FitsOthers DEF Others
  <2> QED BY <2>1, <2>2
<1>2. /\ todo'["starter"] = todo["starter"] /\ pc'["starter"] = pc["starter"]
      /\ todo'["checker"] = todo["checker"] /\ pc'["checker"] = pc["checker"]
      /\ seen'["starter"] = seen["starter"] /\ seen'["checker"] = seen["checker"]
  BY <1>w, <1>t DEF Others
<1>3. /\ pc'[w1] # "hasPending" /\ (pc'[w1] = "idle" <=> seen'[w1] = <<>>)
      /\ seen'[w1] # <<>> /\ seen'[w1][1] = "null" =>
           /\ pc'[w1] \in {"nullSend", "nullRecv", "again", "ops"}
           /\ todo'[w1] \in {<<>>, <<"received">>}
      /\ seen'[w1] # <<>> /\ seen'[w1][1] # "null" =>
           /\ pc'[w1] \notin {"nullSend", "nullRecv", "again"}
           /\ todo'[w1] \in Seq(Steps(kind', seen'[w1][1]))
           /\ todo'[w1] # <<>> => todo'[w1][Len(todo'[w1])] = Uncounts(seen'[w1][1])
  <2>0. \A op \in Ops : Uncounts(op) \in Steps(kind, op) /\ "disconnect" \in Steps(kind, op)
    BY DEF Uncounts, Steps, Tasks
  <2>1. CASE /\ pc[w1] = "idle" /\ port # <<>> /\ port' = Tail(port) /\ seen'[w1] = Head(port)
             /\ \/ pc'[w1] = "nullSend" /\ Head(port)[1] = "null" /\ todo'[w1] = <<>>
                \/ pc'[w1] = "handle" /\ Head(port)[1] # "null" /\ todo'[w1] = <<>>
                \/ /\ pc'[w1] = "ops" /\ Head(port)[1] # "null"
                   /\ todo'[w1] = <<"disconnect", Uncounts(Head(port)[1])>>
    <3> DEFINE op == Head(port)[1]
    <3>1. Head(port) # <<>> /\ op \in Ops \union {"null"}
      BY <2>1, PacketIs
    <3>2. CASE op = "null"
      BY <2>1, <3>1, <3>2
    <3>3. CASE op # "null"
      <4>1. op \in Ops /\ Uncounts(op) \in Steps(kind, op) /\ "disconnect" \in Steps(kind, op)
        BY <2>0, <3>1, <3>3
      <4>2. seen'[w1][1] = op /\ seen'[w1] # <<>>
        BY <2>1, <3>1
      <4>3. CASE todo'[w1] = <<>> /\ pc'[w1] = "handle"
        <5>1. <<>> \in Seq(Steps(kind, op))
          OBVIOUS
        <5> QED BY <1>w, <3>3, <4>2, <4>3, <5>1
      <4>4. CASE todo'[w1] = <<"disconnect", Uncounts(op)>> /\ pc'[w1] = "ops"
        <5>1. /\ <<"disconnect", Uncounts(op)>> \in Seq(Steps(kind, op))
              /\ Len(<<"disconnect", Uncounts(op)>>) = 2
              /\ <<"disconnect", Uncounts(op)>>[2] = Uncounts(op)
          BY <4>1
        <5> QED BY <1>w, <3>3, <4>2, <4>4, <5>1
      <4> QED BY <2>1, <3>3, <4>3, <4>4
    <3> QED BY <3>2, <3>3
  <2>2. CASE /\ pc[w1] = "handle" /\ port' = port /\ seen'[w1] = seen[w1] /\ pc'[w1] = "ops"
             /\ todo'[w1] = (IF state = "DISCONNECT" THEN <<>> ELSE Callback(kind, seen[w1][1]))
                            \o <<Uncounts(seen[w1][1])>>
    <3> DEFINE op == seen[w1][1]
               c == IF state = "DISCONNECT" THEN <<>> ELSE Callback(kind, op)
               u == <<Uncounts(op)>>
    <3>1. seen[w1] # <<>> /\ op # "null" /\ op \in Ops
      <4>1. seen[w1] # <<>> /\ op # "null"
        BY <2>2 DEF PlaceInv
      <4>2. seen[w1] \in (Ops \union {"null"}) \X BOOLEAN
        BY <1>s, <1>t, <4>1
      <4> QED BY <4>1, <4>2
    <3>2. c \in Seq(Steps(kind, op))
      <4>1. state # "DISCONNECT" => c = Callback(kind, op)
        OBVIOUS
      <4>2. state = "DISCONNECT" => c = <<>>
        OBVIOUS
      <4>3. Callback(kind, op) \in Seq(Steps(kind, op))
        BY <1>t, <3>1, CallbackIs
      <4>4. <<>> \in Seq(Steps(kind, op))
        OBVIOUS
      <4> HIDE DEF c, op
      <4> QED BY <4>1, <4>2, <4>3, <4>4
    <3>3. u \in Seq(Steps(kind, op)) /\ u # <<>> /\ Len(u) = 1 /\ u[1] = Uncounts(op)
      BY <2>0, <3>1
    <3>4. todo'[w1] = c \o u
      BY <2>2
    <3>5. seen'[w1] = seen[w1] /\ pc'[w1] = "ops" /\ seen'[w1][1] = op
      BY <2>2
    <3> HIDE DEF c, u, op
    <3>6. c \o u \in Seq(Steps(kind, op)) /\ (c \o u)[Len(c \o u)] = Uncounts(op)
      BY <3>2, <3>3, LastConcat, ConcatProperties
    <3> QED BY <1>w, <3>1, <3>4, <3>5, <3>6
  <2>3. CASE /\ pc[w1] \in Nulling /\ seen'[w1] = seen[w1]
             /\ pc'[w1] \in {"nullSend", "nullRecv", "again", "ops"} /\ todo'[w1] \in {<<>>, <<"received">>}
    <3>1. seen[w1] # <<>> /\ seen[w1][1] = "null"
      BY <2>3 DEF PlaceInv, Nulling
    <3> QED BY <2>3, <3>1
  <2> QED BY <2>1, <2>2, <2>3, WorkerIs
<1> QED BY <1>w, <1>1, <1>2, <1>3 DEF PlaceInv, Fits

\* What the checker and the system do.
LEMMA CheckIs ==
  ASSUME Types, PlaceInv, Check
  PROVE  /\ kind' = kind /\ closed' = closed /\ flight' = flight /\ port' = port /\ seen' = seen
         /\ Others("checker")
         /\ \/ /\ pc["checker"] = "idle" /\ state = "OK" /\ state' = "OK" /\ pc["starter"] = "idle"
               /\ pc'["checker"] = "ops" /\ todo'["checker"] = <<"disconnect">>
            \/ /\ pc["checker"] = "idle" /\ state = "DISCONNECT" /\ state' = state /\ pendRecv = 0
               /\ pc'["checker"] = "hasPending" /\ todo'["checker"] = <<>>
            \/ /\ pc["checker"] = "hasPending" /\ pc'["checker"] = "idle" /\ todo'["checker"] = <<>>
               /\ state' = state \/ (state' = "READY" /\ pendSend = 0)
<1>f. /\ pc \in [Threads -> Places] /\ todo \in [Threads -> Seq(Tasks)] /\ "checker" \in Threads
  BY ThreadsAre DEF Types
<1>t. pc["checker"] \in {"idle", "hasPending"} => todo["checker"] = <<>>
  BY <1>f DEF PlaceInv
<1>g. \A l : Goto("checker", l) => pc'["checker"] = l /\ \A u \in Threads \ {"checker"} : pc'[u] = pc[u]
  BY <1>f DEF Goto
<1>e. todo' = [todo EXCEPT !["checker"] = <<"disconnect">>] =>
        todo'["checker"] = <<"disconnect">> /\ \A u \in Threads \ {"checker"} : todo'[u] = todo[u]
  BY <1>f
<1>1. CASE /\ pc["checker"] = "idle" /\ state = "OK" /\ pc["starter"] = "idle"
           /\ todo' = [todo EXCEPT !["checker"] = <<"disconnect">>] /\ Goto("checker", "ops")
           /\ UNCHANGED state
  BY <1>1, <1>g, <1>e DEF Check, Others
<1>2. CASE /\ pc["checker"] = "idle" /\ state = "DISCONNECT" /\ pendRecv = 0
           /\ Goto("checker", "hasPending") /\ UNCHANGED <<state, todo>>
  BY <1>2, <1>g, <1>t DEF Check, Others
<1>3. CASE /\ pc["checker"] = "hasPending"
           /\ state' = IF pendSend = 0 THEN "READY" ELSE state
           /\ Goto("checker", "idle") /\ UNCHANGED todo
  BY <1>3, <1>g, <1>t DEF Check, Others
<1> QED BY <1>1, <1>2, <1>3 DEF Check

\* and the checker and the system.
LEMMA PlaceOthers ==
  ASSUME Types, PlaceInv, Check \/ Complete
  PROVE  PlaceInv'
<1>t. Threads = {"starter", "checker", w1} /\ w1 # "starter" /\ w1 # "checker"
  BY ThreadsAre
<1>1. CASE Check
  <2>1. /\ kind' = kind /\ seen' = seen /\ Others("checker") /\ (state # "OK" => state' # "OK")
        /\ pc'["checker"] \in {"ops", "hasPending", "idle"}
        /\ todo'["checker"] \in {<<>>, <<"disconnect">>}
        /\ pc'["checker"] # "ops" => todo'["checker"] = <<>>
    BY <1>1, CheckIs
  <2>2. \A u \in Threads : Fits(u)'
    <3> TAKE u \in Threads
    <3>1. CASE u = "checker"
      BY <2>1, <3>1 DEF Fits
    <3>2. CASE u # "checker"
      BY <2>1, <3>2, FitsOthers DEF Others
    <3> QED BY <3>1, <3>2
  <2>3. /\ todo'["starter"] = todo["starter"] /\ pc'["starter"] = pc["starter"]
        /\ todo'[w1] = todo[w1] /\ pc'[w1] = pc[w1]
    BY <2>1, <1>t DEF Others
  <2>4. todo'["checker"] \in CheckerTodos
    BY <2>1 DEF CheckerTodos
  <2> QED BY <2>1, <2>2, <2>3, <2>4 DEF PlaceInv, Fits
<1>2. CASE Complete
  <2>1. kind' = kind /\ state' = state /\ pc' = pc /\ todo' = todo /\ seen' = seen
    BY <1>2 DEF Complete
  <2> QED BY <2>1 DEF PlaceInv
<1> QED BY <1>1, <1>2

-----------------------------------------------------------------------------
(* Before the first request *)

\* An operation is given to the system by a call, with the socket open.
LEMMA FlightIs ==
  ASSUME Types, PlaceInv, NEW t \in Threads, Operate(t), NEW o \in Ops
  PROVE  \/ flight'[o] = flight[o]
         \/ pc[t] = "call" /\ ~closed /\ Called(t) = o
<1>1. flight \in [Ops -> Nat]
  BY DEF Types
<1>2. flight' = flight \/ (/\ pc[t] = "call" /\ closed = FALSE /\ Called(t) \in Ops
                           /\ flight' = [flight EXCEPT ![Called(t)] = @ + 1])
  BY EffectIs
<1> HIDE DEF Called
<1> QED BY <1>1, <1>2

\* A thread that has nothing to do makes no step; a call of a worker is of a kind of its packet.
LEMMA BusyIs ==
  ASSUME PlaceInv, NEW t \in Threads, Move(t)
  PROVE  /\ pc[t] \notin {"idle", "handle", "nullSend", "nullRecv", "again", "hasPending"}
         /\ pc[t] = "call" => MadeCall(t) /\ todo[t] # <<>>
         /\ pc[t] \in {"close", "hold", "post"} => state # "OK"
         /\ pc'[t] \in Closing => /\ ~Ended(t)
                                  /\ pc[t] \in Closing \/ (pc[t] = "ops" /\ state = "OK" /\ state' # "OK")
         /\ pc[t] \in {"close", "hold"} => pc'[t] \in {"hold", "post"}
         /\ pc[t] = "post" => pc'[t] = "drainRecv"
         /\ pc'[t] \notin {"handle", "nullSend", "nullRecv", "again", "hasPending"}
<1>1. pc[t] \in {"close", "hold", "post"} => state # "OK"
  BY DEF PlaceInv
<1>2. CASE Ended(t)
  BY <1>2 DEF Ended, Closing
<1>3. CASE Counted(t) /\ todo[t] # <<>>
  BY <1>3 DEF Counted, Closing, Popped, Replaced
<1>4. CASE Begun(t) /\ todo[t] # <<>>
  BY <1>4 DEF Begun, Closing, Popped
<1>5. CASE MadeCall(t) /\ todo[t] # <<>>
  <2>1. pc[t] = "call" /\ pc'[t] = "ops"
    BY <1>5 DEF MadeCall, Popped, Replaced
  <2> QED BY <1>5, <2>1 DEF Closing, Ended
<1>6. CASE Disconnected(t) /\ todo[t] # <<>>
  BY <1>1, <1>6 DEF Disconnected, Closing, Draining, Popped, Ended
<1> QED BY <1>2, <1>3, <1>4, <1>5, <1>6 DEF Move

\* Only a worker that has a packet calls.
LEMMA WorkerCalls ==
  ASSUME Types, PlaceInv, pc[w1] = "call"
  PROVE  /\ seen[w1] # <<>> /\ seen[w1][1] # "null"
         /\ seen[w1][1] = "send" /\ kind = "client" => Called(w1) = "send"
<1>1. seen[w1] # <<>> /\ seen[w1][1] # "null"
  BY DEF PlaceInv
<1>2. /\ todo[w1] \in Seq(Steps(kind, seen[w1][1])) /\ todo[w1] # <<>>
      /\ Head(todo[w1]) \in {"beginSend", "beginRecv", "accept"}
  BY <1>1, ThreadsAre DEF PlaceInv
<1>3. Head(todo[w1]) \in Steps(kind, seen[w1][1])
  BY <1>2, HeadTail
<1>4. seen[w1][1] = "send" /\ kind = "client" => Head(todo[w1]) = "beginSend"
  BY <1>2, <1>3 DEF Steps
<1> QED BY <1>1, <1>4 DEF Called

\* Nobody else runs before the first request, after an operation,
LEMMA FreshOperate ==
  ASSUME Types, PlaceInv, FreshInv, RecvToComeInv, NEW t \in Threads, Operate(t)
  PROVE  FreshInv'
<1>m. Move(t) /\ Others(t)
  BY MoveIs
<1>t. Threads = {"starter", "checker", w1} /\ w1 # "starter" /\ w1 # "checker"
  BY ThreadsAre
<1>b. pc[t] \notin {"idle"} /\ (pc[t] \in {"close", "hold", "post"} => state # "OK")
  BY <1>m, BusyIs
<1>1. todo'["starter"] # <<>> => todo["starter"] # <<>> /\ t # "checker" /\ pc'["checker"] = "idle"
  <2>1. todo'["starter"] # <<>> => todo["starter"] # <<>>
    BY <1>m, <1>t, StarterMoves DEF Others
  <2>2. todo["starter"] # <<>> => pc["checker"] = "idle" /\ t # "checker"
    BY <1>b DEF FreshInv
  <2> QED BY <1>m, <1>t, <2>1, <2>2 DEF Others
<1>2. todo'["checker"] = <<"send", "recv">> =>
        /\ todo["checker"] = <<"send", "recv">> /\ t # "starter"
        /\ t = "checker" => pc["checker"] = "ops" /\ pc'["checker"] = "count"
  <2>1. todo'["checker"] = <<"send", "recv">> =>
          /\ todo["checker"] = <<"send", "recv">>
          /\ t = "checker" => pc["checker"] = "ops" /\ pc'["checker"] = "count"
    BY <1>m, <1>t, CheckerMoves DEF Others
  <2>2. todo["checker"] = <<"send", "recv">> => pc["starter"] = "idle"
    BY DEF RecvToComeInv, RecvToCome, PlaceInv
  <2> QED BY <1>b, <2>1, <2>2
<1>3. SUFFICES ASSUME todo'["starter"] # <<>> \/ todo'["checker"] = <<"send", "recv">>
               PROVE  /\ state' = "OK" /\ ~closed' /\ NoFlight(Ops)' /\ port' = <<>> /\ pc'[w1] = "idle"
  BY <1>1 DEF FreshInv
<1>4. state = "OK" /\ ~closed /\ NoFlight(Ops) /\ port = <<>> /\ pc[w1] = "idle" /\ t # w1
  BY <1>1, <1>2, <1>3, <1>b DEF FreshInv
<1>5. t = "starter" => pc[t] # "call" /\ pc'[t] # "close"
  <2>1. t = "starter" => todo'["starter"] # <<>>
    BY <1>2, <1>3
  <2> QED BY <1>m, <2>1, StarterMoves
<1>6. t = "checker" => pc[t] # "call" /\ pc'[t] # "close"
  BY <1>1, <1>2, <1>3
<1>7. pc[t] # "call" /\ pc'[t] # "close" /\ pc'[w1] = pc[w1]
  BY <1>m, <1>t, <1>4, <1>5, <1>6 DEF Others
<1>8. /\ state' = state /\ closed' = closed /\ flight' = flight /\ port' = port
  BY <1>b, <1>4, <1>7, EffectIs
<1> QED BY <1>4, <1>7, <1>8 DEF NoFlight

\* a step of a worker,
LEMMA FreshWorker ==
  ASSUME Types, PlaceInv, FreshInv, Dequeue(w1) \/ Handle(w1) \/ Null(w1)
  PROVE  FreshInv'
<1>1. todo'["starter"] = todo["starter"] /\ todo'["checker"] = todo["checker"]
      /\ pc'["checker"] = pc["checker"]
  BY WorkerIs, ThreadsAre DEF Others
<1>2. pc[w1] \in {"handle", "nullSend", "nullRecv", "again"} \/ port # <<>>
  BY WorkerIs DEF Nulling
<1>3. todo["starter"] = <<>> /\ todo["checker"] # <<"send", "recv">>
  BY <1>2 DEF FreshInv
<1> QED BY <1>1, <1>3 DEF FreshInv

\* and a step of the checker or the system.
LEMMA FreshOthers ==
  ASSUME Types, PlaceInv, FreshInv, Check \/ Complete
  PROVE  FreshInv'
<1>1. CASE Check
  <2>1. todo'["starter"] = todo["starter"] /\ todo'["checker"] \in {<<>>, <<"disconnect">>}
    BY <1>1, CheckIs, ThreadsAre DEF Others
  <2>2. todo["starter"] = <<>>
    <3>1. pc["starter"] = "idle" => todo["starter"] = <<>>
      BY ThreadsAre DEF PlaceInv
    <3>2. pc["starter"] = "idle" \/ state # "OK" \/ pc["checker"] # "idle"
      BY <1>1, CheckIs
    <3> QED BY <3>1, <3>2 DEF FreshInv
  <2>3. todo'["checker"] # <<"send", "recv">>
    BY <2>1
  <2> QED BY <2>1, <2>2, <2>3 DEF FreshInv
<1>2. CASE Complete
  <2>1. todo' = todo /\ \E o \in Ops : flight[o] > 0
    BY <1>2 DEF Complete
  <2>2. ~NoFlight(Ops)
    BY <2>1 DEF NoFlight
  <2>3. todo["starter"] = <<>> /\ todo["checker"] # <<"send", "recv">>
    BY <2>2 DEF FreshInv
  <2> QED BY <2>1, <2>3 DEF FreshInv
<1> QED BY <1>1, <1>2

\* The packets of the port after a step of a thread.
LEMMA PacketsKept ==
  port' = port => /\ SendPackets' = SendPackets /\ RecvPackets' = RecvPackets
                  /\ NullPackets' = NullPackets
BY Zenon DEF SendPackets, RecvPackets, NullPackets, Packets, Receives

\* An operation posts at most the packet of Disconnect.
LEMMA PacketsOperate ==
  ASSUME Types, PlaceInv, NEW t \in Threads, Operate(t)
  PROVE  /\ SendPackets' = SendPackets /\ RecvPackets' = RecvPackets
         /\ NullPackets' = NullPackets + One(pc[t] = "post")
<1>1. CASE pc[t] = "post"
  <2>1. port' = Append(port, <<"null", TRUE>>)
    BY <1>1, EffectIs
  <2> QED BY <1>1, <2>1, PortNull DEF One
<1>2. CASE pc[t] # "post"
  <2>1. port' = port
    BY <1>2, EffectIs
  <2>2. NullPackets \in Nat
    BY PacketsNat DEF NullPackets
  <2> QED BY <1>2, <2>1, <2>2, PacketsKept DEF One
<1> QED BY <1>1, <1>2

\* The receive of a client is still its first after an operation,
LEMMA RecvToComeOperate ==
  ASSUME Types, PlaceInv, RecvToComeInv, NEW t \in Threads, Operate(t)
  PROVE  RecvToComeInv'
<1>m. Move(t) /\ Others(t)
  BY MoveIs
<1>t. Threads = {"starter", "checker", w1} /\ w1 # "starter" /\ w1 # "checker"
  BY ThreadsAre
<1>1. SUFFICES ASSUME todo'["checker"] \in RecvToCome
               PROVE  /\ kind' = "client" /\ NoFlight(Receives)' /\ RecvPackets' = 0
                      /\ seen'[w1] # <<>> => seen'[w1][1] \in {"send", "null"}
  BY DEF RecvToComeInv
<1>2. todo["checker"] \in RecvToCome
  BY <1>1, <1>m, <1>t, CheckerMoves DEF Others
<1>3. /\ kind = "client" /\ NoFlight(Receives) /\ RecvPackets = 0
      /\ seen[w1] # <<>> => seen[w1][1] \in {"send", "null"}
  BY <1>2 DEF RecvToComeInv
<1>4. t # "starter"
  BY <1>m, <1>3, BusyIs DEF PlaceInv
<1>5. pc[t] = "call" => Called(t) = "send"
  <2>1. CASE t = "checker"
    BY <1>1, <1>m, <2>1, CheckerMoves
  <2>2. CASE t = w1
    BY <1>3, <2>2, WorkerCalls
  <2> QED BY <1>t, <1>4, <2>1, <2>2
<1>6. NoFlight(Receives)'
  <2>1. \A o \in Receives : o \in Ops /\ o # "send"
    BY DEF Receives, Ops
  <2>2. \A o \in Receives : flight'[o] = flight[o]
    BY <1>5, <2>1, FlightIs
  <2> QED BY <1>3, <2>2 DEF NoFlight
<1>7. seen'[w1] = seen[w1] \/ seen'[w1] = <<>>
  <2>1. t # w1 => seen'[w1] = seen[w1]
    BY <1>m, <1>t DEF Others
  <2>2. t = w1 => seen' = seen \/ seen'[w1] = <<>>
    BY EffectIs
  <2> QED BY <2>1, <2>2
<1> QED BY <1>3, <1>6, <1>7, EffectIs, PacketsOperate

\* a step of a worker,
LEMMA RecvToComeWorker ==
  ASSUME Types, PlaceInv, RecvToComeInv, Dequeue(w1) \/ Handle(w1) \/ Null(w1)
  PROVE  RecvToComeInv'
<1>w. kind' = kind /\ flight' = flight /\ todo'["checker"] = todo["checker"]
  BY WorkerIs, ThreadsAre DEF Others
<1>1. SUFFICES ASSUME todo["checker"] \in RecvToCome
               PROVE  /\ kind' = "client" /\ NoFlight(Receives)' /\ RecvPackets' = 0
                      /\ seen'[w1] # <<>> => seen'[w1][1] \in {"send", "null"}
  BY <1>w DEF RecvToComeInv
<1>2. /\ kind = "client" /\ NoFlight(Receives) /\ RecvPackets = 0
      /\ seen[w1] # <<>> => seen[w1][1] \in {"send", "null"}
  BY <1>1 DEF RecvToComeInv
<1>3. CASE port # <<>> /\ port' = Tail(port) /\ seen'[w1] = Head(port)
  <2>1. /\ RecvPackets = RecvPackets' + One(Head(port)[1] \in Receives) /\ RecvPackets' \in Nat
        /\ Head(port)[1] \in Ops \union {"null"}
    BY <1>3, PortTail, PacketIs
  <2>2. RecvPackets' = 0 /\ Head(port)[1] \notin Receives
    <3>1. One(Head(port)[1] \in Receives) \in {0, 1}
      BY DEF One
    <3>2. RecvPackets' = 0 /\ One(Head(port)[1] \in Receives) = 0
      BY <1>2, <2>1, <3>1
    <3> QED BY <3>2 DEF One
  <2>3. Head(port)[1] \in {"send", "null"}
    BY <2>1, <2>2 DEF Receives, Ops
  <2> QED BY <1>w, <1>2, <1>3, <2>2, <2>3 DEF NoFlight
<1>4. CASE seen'[w1] = seen[w1] /\ port' = port
  BY <1>w, <1>2, <1>4, PacketsKept DEF NoFlight
<1>5. CASE seen'[w1] = seen[w1] /\ port' = Append(port, <<"null", TRUE>>)
  BY <1>w, <1>2, <1>5, PortNull DEF NoFlight
<1> QED BY <1>3, <1>4, <1>5, WorkerIs

\* and a step of the checker or the system.
LEMMA RecvToComeOthers ==
  ASSUME Types, PlaceInv, RecvToComeInv, Check \/ Complete
  PROVE  RecvToComeInv'
<1>1. CASE Check
  <2>1. todo'["checker"] \in {<<>>, <<"disconnect">>}
    BY <1>1, CheckIs
  <2>2. todo'["checker"] \notin RecvToCome
    BY <2>1 DEF RecvToCome
  <2> QED BY <2>2 DEF RecvToComeInv
<1>2. CASE Complete
  <2>1. PICK o \in Ops, b \in BOOLEAN :
           /\ flight' = [flight EXCEPT ![o] = @ - 1] /\ flight[o] > 0 /\ port' = Append(port, <<o, b>>)
    BY <1>2 DEF Complete
  <2>2. kind' = kind /\ todo' = todo /\ seen' = seen /\ flight \in [Ops -> Nat]
    BY <1>2 DEF Complete, Types
  <2>3. RecvPackets' = RecvPackets + One(o \in Receives)
    BY <2>1, PortAppend
  <2>4. NoFlight(Receives) => o \notin Receives
    BY <2>1 DEF NoFlight
  <2>5. \A r \in Receives : r \in Ops
    BY DEF Receives, Ops
  <2>6. NoFlight(Receives) => NoFlight(Receives)'
    BY <2>1, <2>2, <2>4, <2>5 DEF NoFlight
  <2>7. NoFlight(Receives) /\ RecvPackets = 0 => RecvPackets' = 0
    BY <2>3, <2>4 DEF One
  <2> QED BY <2>2, <2>6, <2>7 DEF RecvToComeInv
<1> QED BY <1>1, <1>2

-----------------------------------------------------------------------------
(* The packet of Disconnect *)

\* The packet of Disconnect is in one place.
LEMMA NullsAre ==
  ASSUME Types
  PROVE  /\ Nulls \in Nat /\ NullPackets \in Nat
         /\ Nulls = 0 => /\ NullPackets = 0 /\ pc[w1] \notin Nulling /\ pc[w1] \notin Closing
                         /\ pc["checker"] \notin Closing
         /\ Nulls = 1 => /\ pc[w1] \in Nulling => NullPackets = 0 /\ pc["checker"] \notin Closing
                         /\ pc[w1] \in Closing => NullPackets = 0 /\ pc["checker"] \notin Closing
                         /\ pc["checker"] \in Closing => NullPackets = 0
                         /\ \/ NullPackets = 1 \/ pc[w1] \in Nulling \/ pc[w1] \in Closing
                            \/ pc["checker"] \in Closing
<1>1. NullPackets \in Nat
  BY PacketsNat DEF NullPackets
<1>2. Nulls = NullPackets + One(pc[w1] \in Nulling) + One(pc[w1] \in Closing)
              + One(pc["checker"] \in Closing)
  BY DEF Nulls, Nulling, Closing
<1> QED BY <1>1, <1>2 DEF One

\* The same after a step.
LEMMA NullsNext ==
  Nulls' = NullPackets' + One(pc'[w1] \in Nulling) + One(pc'[w1] \in Closing)
           + One(pc'["checker"] \in Closing)
BY DEF Nulls, Nulling, Closing

\* Only Disconnect makes a packet, when it takes the session out of OK.
LEMMA NullsOperate ==
  ASSUME Types, PlaceInv, FreshInv, NEW t \in Threads, Operate(t)
  PROVE  Nulls' = Nulls + One(state' # state)
<1>m. Move(t) /\ Others(t)
  BY MoveIs
<1>t. Threads = {"starter", "checker", w1} /\ w1 # "starter" /\ w1 # "checker"
  BY ThreadsAre
<1>0. /\ NullPackets \in Nat /\ NullPackets' = NullPackets + One(pc[t] = "post")
      /\ Nulls = NullPackets + One(pc[w1] \in Nulling) + One(pc[w1] \in Closing)
              + One(pc["checker"] \in Closing)
      /\ Nulls' = NullPackets' + One(pc'[w1] \in Nulling) + One(pc'[w1] \in Closing)
              + One(pc'["checker"] \in Closing)
  BY PacketsOperate, PacketsNat, NullsNext DEF NullPackets, Nulls, Nulling, Closing
<1>1. /\ pc[t] \notin Nulling /\ pc'[t] \notin Nulling
      /\ pc[t] = "post" => pc'[t] = "drainRecv"
      /\ pc[t] \in {"close", "hold"} => pc'[t] \in {"hold", "post"}
      /\ pc[t] \in Closing => state # "OK"
      /\ pc'[t] \in Closing /\ pc[t] \notin Closing => state = "OK" /\ state' # "OK"
  BY <1>m, BusyIs DEF Nulling, Closing
<1>2. state' # state => state = "OK" /\ pc[t] = "ops" /\ pc'[t] = "close"
  BY EffectIs
<1>3. One(pc'[t] \in Closing) + One(pc[t] = "post") = One(pc[t] \in Closing) + One(state' # state)
  <2>1. CASE pc[t] = "post"
    BY <1>1, <1>2, <2>1 DEF One, Closing
  <2>2. CASE pc[t] \in {"close", "hold"}
    BY <1>1, <1>2, <2>2 DEF One, Closing
  <2>3. CASE pc[t] \notin Closing
    BY <1>1, <1>2, <2>3 DEF One, Closing
  <2> QED BY <2>1, <2>2, <2>3 DEF Closing
<1>4. CASE t = "starter"
  <2>1. pc["starter"] \notin Closing /\ pc'["starter"] \notin Closing
    BY <1>m, <1>4, StarterMoves DEF PlaceInv, Closing
  <2>2. One(pc[t] = "post") = 0 /\ One(state' # state) = 0
    BY <1>2, <1>4, <2>1 DEF One, Closing
  <2>3. pc'[w1] = pc[w1] /\ pc'["checker"] = pc["checker"]
    BY <1>m, <1>t, <1>4 DEF Others
  <2> QED BY <1>0, <2>2, <2>3 DEF One
<1>5. CASE t = "checker"
  <2>1. pc'[w1] = pc[w1]
    BY <1>m, <1>t, <1>5 DEF Others
  <2>2. \A b : One(b) \in Nat
    BY DEF One
  <2>3. One(pc'["checker"] \in Closing) + One(pc["checker"] = "post")
        = One(pc["checker"] \in Closing) + One(state' # state)
    BY <1>3, <1>5
  <2> QED BY <1>0, <1>5, <2>1, <2>2, <2>3
<1>6. CASE t = w1
  <2>1. pc'["checker"] = pc["checker"]
    BY <1>m, <1>t, <1>6 DEF Others
  <2>2. \A b : One(b) \in Nat
    BY DEF One
  <2>3. One(pc'[w1] \in Closing) + One(pc[w1] = "post") = One(pc[w1] \in Closing) + One(state' # state)
    BY <1>3, <1>6
  <2>4. One(pc'[w1] \in Nulling) = 0 /\ One(pc[w1] \in Nulling) = 0
    BY <1>1, <1>6 DEF One
  <2> QED BY <1>0, <1>6, <2>1, <2>2, <2>3, <2>4
<1> QED BY <1>t, <1>4, <1>5, <1>6

\* It stays in one place when an operation is done.
LEMMA NullOperate ==
  ASSUME Types, PlaceInv, PlaceInv', FreshInv, NullInv, NEW t \in Threads, Operate(t)
  PROVE  NullInv'
<1>m. Move(t) /\ Others(t)
  BY MoveIs
<1>t. Threads = {"starter", "checker", w1} /\ w1 # "starter" /\ w1 # "checker"
  BY ThreadsAre
<1>n. Nulls' = Nulls + One(state' # state) /\ Nulls \in Nat
  BY NullsOperate, NullsAre
<1>b. /\ pc[t] \in Closing => state # "OK"
      /\ pc[t] \notin {"idle"} /\ pc[t] \notin Nulling /\ pc'[t] \notin Nulling
      /\ pc'[t] \notin {"handle", "hasPending"}
  BY <1>m, BusyIs DEF Closing, Nulling
<1>e. /\ state' = state \/ (state = "OK" /\ state' = "DISCONNECT" /\ pc'[t] = "close")
      /\ IF pc[t] = "close" THEN closed' = TRUE ELSE closed' = closed
      /\ closed => flight' = flight
      /\ pc[t] # "post" => port' = port
      /\ seen' = seen \/ pc'[t] = "idle"
  BY EffectIs
<1>c. closed => closed'
  BY <1>e
<1>1. IF state' = "OK" THEN Nulls' = 0 /\ ~closed' ELSE Nulls' = 1 \/ (Nulls' = 0 /\ Quiet')
  <2>1. CASE state = "OK" /\ state' = state
    BY <1>n, <1>b, <1>e, <2>1 DEF NullInv, One, Closing
  <2>2. CASE state' # state
    BY <1>n, <1>e, <2>2 DEF NullInv, One
  <2>3. CASE state # "OK" /\ state' = state /\ Nulls = 1
    BY <1>n, <2>3 DEF One
  <2>4. CASE state # "OK" /\ state' = state /\ Nulls = 0 /\ Quiet
    <3>1. pc[t] \notin Closing
      <4>1. pc[w1] \notin Closing /\ pc["checker"] \notin Closing
        BY <2>4, NullsAre
      <4> QED BY <1>t, <4>1 DEF PlaceInv, Closing
    <3>2. closed' /\ flight' = flight /\ port' = port
      BY <1>e, <1>c, <2>4, <3>1 DEF Quiet, Closing
    <3>3. pc'[w1] # "idle" => pc'[w1] = "ops" /\ seen'[w1][1] = "null"
      <4>1. CASE t # w1
        <5>1. pc'[w1] = pc[w1] /\ seen'[w1] = seen[w1]
          BY <1>m, <1>t, <4>1 DEF Others
        <5> QED BY <2>4, <5>1 DEF Quiet
      <4>2. CASE t = w1
        <5>1. seen[w1][1] = "null"
          BY <1>b, <2>4, <4>2 DEF Quiet
        <5>2. pc'[w1] # "idle" => seen'[w1] # <<>> /\ seen'[w1][1] = "null"
          BY <1>e, <4>2, <5>1 DEF PlaceInv
        <5> QED BY <1>b, <4>2, <5>2 DEF PlaceInv, Nulling
      <4> QED BY <4>1, <4>2
    <3>4. Nulls' = 0
      BY <1>n, <2>4 DEF One
    <3>5. port' = <<>> /\ NoFlight(Ops)'
      BY <2>4, <3>2 DEF Quiet, NoFlight
    <3> QED BY <2>4, <3>2, <3>3, <3>4, <3>5 DEF Quiet
  <2> QED BY <2>1, <2>2, <2>3, <2>4 DEF NullInv
<1>2. state' # "OK" => closed' \/ pc'[w1] = "close" \/ pc'["checker"] = "close"
  <2>1. CASE state = "OK" /\ state' # "OK"
    <3>1. pc'[t] = "close" /\ t # "starter"
      BY <1>e, <2>1 DEF PlaceInv
    <3> QED BY <1>t, <3>1
  <2>2. CASE state # "OK"
    <3>1. closed \/ pc[w1] = "close" \/ pc["checker"] = "close"
      BY <2>2 DEF NullInv
    <3>2. \A u \in Threads : pc[u] = "close" => closed' \/ pc'[u] = "close"
      BY <1>m, <1>e DEF Others
    <3> QED BY <1>t, <1>c, <3>1, <3>2
  <2> QED BY <2>1, <2>2
<1>3. pc'[w1] = "nullRecv" => flight'["send"] = 0 /\ SendPackets' = 0
  <2>1. SUFFICES ASSUME pc'[w1] = "nullRecv" PROVE flight'["send"] = 0 /\ SendPackets' = 0
    OBVIOUS
  <2>2. t # w1 /\ pc[w1] = "nullRecv"
    BY <1>m, <1>t, <1>b, <2>1 DEF Nulling, Others
  <2>3. Nulls # 0
    BY <2>2, NullsAre DEF Nulling
  <2>4. state # "OK" /\ Nulls = 1
    BY <2>3 DEF NullInv
  <2>5. pc["checker"] # "close"
    BY <2>2, <2>4, NullsAre DEF Nulling, Closing
  <2>6. closed
    BY <2>2, <2>4, <2>5 DEF NullInv
  <2> QED BY <1>e, <2>2, <2>6, PacketsOperate DEF NullInv
<1> QED BY <1>1, <1>2, <1>3 DEF NullInv

\* Once the session is disconnected the starter owes nothing, and the checker at most the receive
\* that it has queued and not yet counted.
LEMMA StarterOwes ==
  ASSUME Types, PlaceInv, FreshInv, state # "OK"
  PROVE  OwesSend("starter") = 0 /\ OwesRecv("starter") = 0
<1>1. todo["starter"] = <<>>
  BY DEF FreshInv
<1>2. pc["starter"] \in {"idle", "ops"}
  BY <1>1, ThreadsAre DEF PlaceInv
<1>3. Sent("starter") = 0 /\ Received("starter") = 0
  BY <1>1, NumEmpty DEF Sent, Received, NumSent, NumReceived
<1> QED BY <1>2, <1>3, ThreadsAre, OwesAt

\* The checker owes no less than nothing, but for a receive that is still to be counted.
LEMMA CheckerOwes ==
  ASSUME Types, PlaceInv, FreshInv, state # "OK"
  PROVE  /\ OwesSend("checker") \in Int /\ OwesSend("checker") >= 0
         /\ OwesRecv("checker") \in Int /\ OwesRecv("checker") >= -1
         /\ todo["checker"] \notin RecvToCome => OwesRecv("checker") >= 0
         /\ pc["checker"] \in {"idle", "hasPending"} =>
              OwesSend("checker") = 0 /\ OwesRecv("checker") = 0
<1> DEFINE s == todo["checker"]
<1>t. "checker" \in Threads
  BY ThreadsAre
<1>1. pc["checker"] \in Places /\ pc["checker"] # "handle"
  BY <1>t DEF Types, PlaceInv
<1>2. s \in CheckerTodos /\ s # <<"send", "recv">>
  BY DEF PlaceInv, FreshInv
<1>3. \A x \in Tasks : Head(<<x>>) = x
  BY Shorts
<1>4. \A x, y \in Tasks : Head(<<x, y>>) = x
  BY Shorts
<1>5. \A x, y, z \in Tasks : Head(<<x, y, z>>) = x
  BY Shorts
<1>6. /\ Head(<<"beginSend", "recv">>) = "beginSend" /\ Head(<<"sent", "disconnect", "recv">>) = "sent"
      /\ Head(<<"disconnect", "recv">>) = "disconnect" /\ Head(<<"beginRecv">>) = "beginRecv"
      /\ Head(<<"received", "disconnect">>) = "received" /\ Head(<<"disconnect">>) = "disconnect"
      /\ Head(<<"recv">>) = "recv"
  BY <1>3, <1>4, <1>5 DEF Tasks
<1>7. s # <<>> => \/ s = <<"beginSend", "recv">>
                  \/ s = <<"sent", "disconnect", "recv">> \/ s = <<"disconnect", "recv">>
                  \/ s = <<"recv">> \/ s = <<"beginRecv">> \/ s = <<"received", "disconnect">>
                  \/ s = <<"disconnect">>
  BY <1>2 DEF CheckerTodos, RecvToCome
<1> HIDE DEF s
<1>8. s # <<>> => Head(s) # "send"
  BY <1>6, <1>7
<1>9. s # <<>> /\ Head(s) = "recv" => s = <<"recv">>
  BY <1>6, <1>7
<1>10. pc["checker"] = "count" => Head(s) = "recv" /\ s = <<"recv">> /\ s \in RecvToCome
  BY <1>t, <1>8, <1>9 DEF PlaceInv, RecvToCome, s
<1>11. pc["checker"] \in {"idle", "hasPending"} => Sent("checker") = 0 /\ Received("checker") = 0
  <2>1. pc["checker"] \in {"idle", "hasPending"} => todo["checker"] = <<>>
    BY <1>t DEF PlaceInv
  <2> QED BY <2>1, NumEmpty DEF Sent, Received, NumSent, NumReceived
<1>o. /\ pc["checker"] \in {"ops", "close", "hold", "drainRecv", "drainSend", "hasPending", "idle"} =>
           OwesSend("checker") = Sent("checker") /\ OwesRecv("checker") = Received("checker")
      /\ pc["checker"] \in {"post", "drainedRecv", "nullSend", "nullRecv", "again"} =>
           OwesSend("checker") = Sent("checker") /\ OwesRecv("checker") = Received("checker") + 1
      /\ pc["checker"] = "drainedSend" =>
           OwesSend("checker") = Sent("checker") + 1 /\ OwesRecv("checker") = Received("checker")
      /\ pc["checker"] = "count" /\ Head(s) = "recv" =>
           OwesSend("checker") = Sent("checker") /\ OwesRecv("checker") = Received("checker") - 1
      /\ pc["checker"] = "call" /\ Head(s) = "beginSend" =>
           OwesSend("checker") = Sent("checker") + 1 /\ OwesRecv("checker") = Received("checker")
      /\ pc["checker"] = "call" /\ Head(s) # "beginSend" =>
           OwesSend("checker") = Sent("checker") /\ OwesRecv("checker") = Received("checker") + 1
      /\ Sent("checker") \in Nat /\ Received("checker") \in Nat
  BY <1>t, OwesAt DEF s
<1>12. /\ OwesSend("checker") \in Int /\ OwesSend("checker") >= 0
       /\ OwesRecv("checker") \in Int /\ OwesRecv("checker") >= -1
       /\ pc["checker"] # "count" => OwesRecv("checker") >= 0
  BY <1>1, <1>10, <1>o DEF Places
<1> QED BY <1>10, <1>11, <1>12, <1>o DEF s

\* Without packets of any kind the port is empty.
LEMMA PortEmpty ==
  ASSUME Types, SendPackets = 0, RecvPackets = 0, NullPackets = 0
  PROVE  port = <<>>
<1>0. port \in Seq((Ops \union {"null"}) \X BOOLEAN)
  BY DEF Types
<1>1. /\ \A i \in DOMAIN port : port[i] \notin {"send"} \X BOOLEAN
      /\ \A i \in DOMAIN port : port[i] \notin {"recv", "accept"} \X BOOLEAN
      /\ \A i \in DOMAIN port : port[i] \notin {"null"} \X BOOLEAN
  <2>1. ASSUME NEW S PROVE Num(port, S) = 0 => \A i \in DOMAIN port : port[i] \notin S
    BY <1>0, NumNat
  <2> QED BY <2>1, Zenon DEF SendPackets, RecvPackets, NullPackets, Packets
<1>2. CASE port # <<>>
  <2>1. 1 \in DOMAIN port /\ port[1] \in (Ops \union {"null"}) \X BOOLEAN
    <3>1. Len(port) \in Nat \ {0} /\ DOMAIN port = 1..Len(port)
      BY <1>0, <1>2, EmptySeq
    <3> QED BY <1>0, <3>1
  <2>2. port[1] \in {"send"} \X BOOLEAN \/ port[1] \in {"recv", "accept"} \X BOOLEAN
        \/ port[1] \in {"null"} \X BOOLEAN
    BY <2>1 DEF Ops
  <2> QED BY <1>1, <2>1, <2>2
<1> QED BY <1>2

\* The terms that CountInv adds up.
LEMMA TermsAre ==
  ASSUME Types, PlaceInv, FreshInv, CountInv, state # "OK"
  PROVE  /\ pendSend = sendq + flight["send"] + SendPackets + OwesSend("checker") + OwesSend(w1)
         /\ pendRecv = recvq + flight["recv"] + flight["accept"] + RecvPackets + NullPackets
                       + OwesRecv("checker") + OwesRecv(w1)
         /\ sendq \in Nat /\ recvq \in Nat /\ flight["send"] \in Nat /\ flight["recv"] \in Nat
         /\ flight["accept"] \in Nat /\ SendPackets \in Nat /\ RecvPackets \in Nat
         /\ NullPackets \in Nat /\ OwesSend(w1) \in Int /\ OwesRecv(w1) \in Int
         /\ OwesSend("checker") \in Int /\ OwesRecv("checker") \in Int
<1>1. /\ sendq \in Nat /\ recvq \in Nat /\ flight["send"] \in Nat /\ flight["recv"] \in Nat
      /\ flight["accept"] \in Nat
  BY DEF Types, Ops
<1>2. SendPackets \in Nat /\ RecvPackets \in Nat /\ NullPackets \in Nat
  BY PacketsNat DEF SendPackets, RecvPackets, NullPackets
<1>3. /\ OwesSend(w1) \in Int /\ OwesRecv(w1) \in Int
      /\ OwesSend("checker") \in Int /\ OwesRecv("checker") \in Int
  BY ThreadsAre, OwesInt
<1>4. SumSend = OwesSend("checker") + OwesSend(w1) /\ SumRecv = OwesRecv("checker") + OwesRecv(w1)
  BY <1>3, StarterOwes DEF SumSend, SumRecv
<1>5. /\ pendSend = sendq + flight["send"] + SendPackets + SumSend
      /\ pendRecv = recvq + flight["recv"] + flight["accept"] + RecvPackets + NullPackets + SumRecv
  BY DEF CountInv
<1>6. pendSend = sendq + flight["send"] + SendPackets + OwesSend("checker") + OwesSend(w1)
  BY <1>1, <1>2, <1>3, <1>4, <1>5
<1>7. pendRecv = recvq + flight["recv"] + flight["accept"] + RecvPackets + NullPackets
                 + OwesRecv("checker") + OwesRecv(w1)
  BY <1>1, <1>2, <1>3, <1>4, <1>5
<1> QED BY <1>1, <1>2, <1>3, <1>6, <1>7

\* What a worker with the packet of Disconnect finds.
LEMMA SendsOver ==
  ASSUME Types, PlaceInv, FreshInv, CountInv, state # "OK", pc[w1] \in Nulling, pendSend = 0
  PROVE  flight["send"] = 0 /\ SendPackets = 0
<1>1. OwesSend(w1) = 0
  <2>1. todo[w1] = <<>>
    BY ThreadsAre DEF PlaceInv, Nulling
  <2>2. Sent(w1) = 0
    BY <2>1, NumEmpty DEF Sent, NumSent
  <2> QED BY <2>2, ThreadsAre, OwesAt DEF Nulling
<1>2. OwesSend("checker") >= 0
  BY CheckerOwes
<1>3. /\ 0 = sendq + flight["send"] + SendPackets + OwesSend("checker") + OwesSend(w1)
      /\ sendq \in Nat /\ flight["send"] \in Nat /\ SendPackets \in Nat
      /\ OwesSend("checker") \in Int
  BY TermsAre
<1>4. 0 = sendq + flight["send"] + SendPackets + OwesSend("checker")
  BY <1>1, <1>3
<1> DEFINE q == sendq  f == flight["send"]  p == SendPackets  c == OwesSend("checker")
<1>5. q \in Nat /\ f \in Nat /\ p \in Nat /\ c \in Int /\ c >= 0 /\ q + f + p + c = 0
  BY <1>2, <1>3, <1>4
<1> HIDE DEF q, f, p, c
<1>6. f = 0 /\ p = 0
  BY <1>5
<1> QED BY <1>6 DEF f, p

\* When both counters say so, nothing is left but the packet.
LEMMA AllOver ==
  ASSUME Types, PlaceInv, FreshInv, CountInv, RecvToComeInv, NullInv, pc[w1] = "nullRecv", pendRecv = 1
  PROVE  /\ state # "OK" /\ Nulls = 1 /\ closed
         /\ flight["send"] = 0 /\ flight["recv"] = 0 /\ flight["accept"] = 0 /\ port = <<>>
<1>1. Nulls # 0
  BY NullsAre DEF Nulling
<1>2. state # "OK" /\ Nulls = 1
  BY <1>1 DEF NullInv
<1>3. NullPackets = 0 /\ pc["checker"] \notin Closing
  BY <1>2, NullsAre DEF Nulling
<1>4. closed
  BY <1>2, <1>3 DEF NullInv, Closing
<1>5. flight["send"] = 0 /\ SendPackets = 0
  BY DEF NullInv
<1>6. OwesRecv(w1) = 1
  <2>1. todo[w1] = <<>>
    BY ThreadsAre DEF PlaceInv
  <2>2. Received(w1) = 0
    BY <2>1, NumEmpty DEF Received, NumReceived
  <2> QED BY <2>2, ThreadsAre, OwesAt
<1>7. flight["recv"] = 0 /\ flight["accept"] = 0 /\ RecvPackets = 0
  <2>1. CASE todo["checker"] \in RecvToCome
    BY <2>1 DEF RecvToComeInv, NoFlight, Receives
  <2>2. CASE todo["checker"] \notin RecvToCome
    <3>1. OwesRecv("checker") >= 0
      BY <1>2, <2>2, CheckerOwes
    <3>2. /\ pendRecv = recvq + flight["recv"] + flight["accept"] + RecvPackets + NullPackets
                        + OwesRecv("checker") + OwesRecv(w1)
          /\ recvq \in Nat /\ flight["recv"] \in Nat /\ flight["accept"] \in Nat
          /\ RecvPackets \in Nat /\ OwesRecv("checker") \in Int
      BY <1>2, TermsAre
    <3>3. 1 = recvq + flight["recv"] + flight["accept"] + RecvPackets + 0 + OwesRecv("checker") + 1
      BY <1>3, <1>6, <3>2
    <3>4. recvq + flight["recv"] + flight["accept"] + RecvPackets + OwesRecv("checker") = 0
      BY <3>2, <3>3
    <3> DEFINE q == recvq  f == flight["recv"]  a == flight["accept"]  p == RecvPackets
               c == OwesRecv("checker")
    <3>5. /\ q \in Nat /\ f \in Nat /\ a \in Nat /\ p \in Nat /\ c \in Int /\ c >= 0
          /\ q + f + a + p + c = 0
      BY <3>1, <3>2, <3>4
    <3> HIDE DEF q, f, a, p, c
    <3>6. f = 0 /\ a = 0 /\ p = 0
      BY <3>5
    <3> QED BY <3>6 DEF f, a, p
  <2> QED BY <2>1, <2>2
<1>8. port = <<>>
  BY <1>3, <1>5, <1>7, PortEmpty
<1> QED BY <1>2, <1>4, <1>5, <1>7, <1>8

\* A worker gives the packet up only when nothing is left, or posts it again.
LEMMA NullWorker ==
  ASSUME Types, PlaceInv, FreshInv, CountInv, RecvToComeInv, NullInv,
         Dequeue(w1) \/ Handle(w1) \/ Null(w1)
  PROVE  NullInv'
<1>w. state' = state /\ closed' = closed /\ flight' = flight /\ pc'["checker"] = pc["checker"]
  BY WorkerIs, ThreadsAre DEF Others
<1>q. ~Quiet
  <2>1. pc[w1] \in {"handle", "nullSend", "nullRecv", "again"} \/ port # <<>>
    BY WorkerIs DEF Nulling
  <2> QED BY <2>1 DEF Quiet
<1>p. SendPackets \in Nat /\ NullPackets \in Nat
  BY PacketsNat DEF SendPackets, NullPackets
<1>n. /\ Nulls = NullPackets + One(pc[w1] \in Nulling) + One(pc[w1] \in Closing)
              + One(pc["checker"] \in Closing)
      /\ Nulls' = NullPackets' + One(pc'[w1] \in Nulling) + One(pc'[w1] \in Closing)
              + One(pc["checker"] \in Closing)
      /\ One(pc["checker"] \in Closing) \in Nat
  <2>1. One(pc["checker"] \in Closing) \in Nat
    BY DEF One
  <2> QED BY <1>w, <2>1, NullsNext DEF Nulls, Nulling, Closing
<1>1. CASE pc[w1] = "nullRecv" /\ pendRecv = 1 /\ pc'[w1] = "ops" /\ port' = port /\ seen'[w1] = seen[w1]
  <2>1. /\ state # "OK" /\ Nulls = 1 /\ closed
        /\ flight["send"] = 0 /\ flight["recv"] = 0 /\ flight["accept"] = 0 /\ port = <<>>
    BY <1>1, AllOver
  <2>2. seen'[w1][1] = "null"
    <3>1. seen[w1] # <<>> /\ seen[w1][1] = "null"
      BY <1>1 DEF PlaceInv
    <3> QED BY <1>1, <3>1
  <2>3. Quiet'
    <3>1. NoFlight(Ops)'
      BY <1>w, <2>1 DEF NoFlight, Ops
    <3> QED BY <1>w, <1>1, <2>1, <2>2, <3>1 DEF Quiet
  <2>4. NullPackets = 0 /\ pc["checker"] \notin Closing /\ NullPackets' = NullPackets
    BY <1>1, <2>1, NullsAre, PacketsKept DEF Nulling
  <2>5. Nulls' = 0
    BY <1>n, <1>1, <2>4 DEF One, Nulling, Closing
  <2> QED BY <1>w, <1>1, <2>1, <2>3, <2>5 DEF NullInv
<1>2. ASSUME Nulls' = Nulls, pc[w1] # "close",
             pc'[w1] = "nullRecv" => flight["send"] = 0 /\ SendPackets' = 0
      PROVE  NullInv'
  <2>1. IF state' = "OK" THEN Nulls' = 0 /\ ~closed' ELSE Nulls' = 1
    BY <1>w, <1>q, <1>2 DEF NullInv
  <2>2. state' # "OK" => closed' \/ pc'["checker"] = "close"
    BY <1>w, <1>2 DEF NullInv
  <2> QED BY <1>w, <1>2, <2>1, <2>2 DEF NullInv
<1>3. CASE /\ pc[w1] = "idle" /\ port # <<>> /\ port' = Tail(port)
           /\ \/ pc'[w1] = "nullSend" /\ Head(port)[1] = "null"
              \/ pc'[w1] \in {"handle", "ops"} /\ Head(port)[1] # "null"
  <2>1. NullPackets = NullPackets' + One(Head(port)[1] = "null") /\ NullPackets' \in Nat
    BY <1>3, PortTail
  <2>2. /\ One(pc[w1] \in Nulling) = 0 /\ One(pc[w1] \in Closing) = 0 /\ One(pc'[w1] \in Closing) = 0
        /\ One(pc'[w1] \in Nulling) = One(Head(port)[1] = "null")
    BY <1>3 DEF One, Nulling, Closing
  <2>3. One(Head(port)[1] = "null") \in Nat
    BY DEF One
  <2>4. Nulls' = Nulls
    BY <1>n, <2>1, <2>2, <2>3
  <2> QED BY <1>2, <1>3, <2>4
<1>4. CASE pc[w1] = "handle" /\ port' = port /\ pc'[w1] = "ops"
  <2>1. Nulls' = Nulls
    BY <1>n, <1>p, <1>4, PacketsKept DEF One, Nulling, Closing
  <2> QED BY <1>2, <1>4, <2>1
<1>5. CASE pc[w1] \in Nulling /\ pc'[w1] = "again" /\ port' = port
  <2>1. Nulls' = Nulls
    BY <1>n, <1>p, <1>5, PacketsKept DEF One, Nulling, Closing
  <2> QED BY <1>2, <1>5, <2>1 DEF Nulling
<1>6. CASE pc[w1] = "nullSend" /\ pc'[w1] = "nullRecv" /\ port' = port /\ pendSend = 0
  <2>1. Nulls' = Nulls
    BY <1>n, <1>p, <1>6, PacketsKept DEF One, Nulling, Closing
  <2>2. Nulls # 0
    BY <1>6, NullsAre DEF Nulling
  <2>3. state # "OK"
    BY <2>2 DEF NullInv
  <2>4. flight["send"] = 0 /\ SendPackets = 0
    BY <1>6, <2>3, SendsOver DEF Nulling
  <2> QED BY <1>2, <1>6, <2>1, <2>4, PacketsKept
<1>7. CASE pc[w1] = "again" /\ pc'[w1] = "ops" /\ port' = Append(port, <<"null", TRUE>>)
  <2>1. NullPackets' = NullPackets + 1
    BY <1>7, PortNull
  <2>2. Nulls' = Nulls
    BY <1>n, <1>p, <1>7, <2>1 DEF One, Nulling, Closing
  <2> QED BY <1>2, <1>7, <2>2
<1> QED BY <1>1, <1>3, <1>4, <1>5, <1>6, <1>7, WorkerIs DEF Nulling

\* The checker and the system leave it where it is.
LEMMA NullOthers ==
  ASSUME Types, PlaceInv, NullInv, EndInv, Check \/ Complete
  PROVE  NullInv'
<1>p. SendPackets \in Nat /\ NullPackets \in Nat
  BY PacketsNat DEF SendPackets, NullPackets
<1>1. CASE Check
  <2>1. /\ closed' = closed /\ flight' = flight /\ port' = port /\ seen' = seen /\ pc'[w1] = pc[w1]
        /\ pc["checker"] \in {"idle", "hasPending"} /\ pc'["checker"] \in {"ops", "idle", "hasPending"}
        /\ state' = "OK" <=> state = "OK"
    <3>1. /\ closed' = closed /\ flight' = flight /\ port' = port /\ seen' = seen /\ Others("checker")
          /\ pc["checker"] \in {"idle", "hasPending"} /\ pc'["checker"] \in {"ops", "idle", "hasPending"}
          /\ state' = state \/ state' = "READY"
          /\ state # "OK" \/ pc["checker"] = "hasPending" \/ state' = "OK"
      BY <1>1, CheckIs
    <3>2. pc'[w1] = pc[w1]
      BY <3>1, ThreadsAre DEF Others
    <3>3. pc["checker"] = "hasPending" => state # "OK"
      BY DEF EndInv
    <3> QED BY <3>1, <3>2, <3>3
  <2>2. Nulls' = Nulls
    <3>1. NullPackets' = NullPackets
      BY <2>1, PacketsKept
    <3>2. One(pc'["checker"] \in Closing) = One(pc["checker"] \in Closing)
      BY <2>1 DEF One, Closing
    <3> QED BY <2>1, <3>1, <3>2, NullsNext DEF Nulls, Nulling, Closing
  <2>3. Quiet => Quiet'
    BY <2>1 DEF Quiet, NoFlight
  <2>4. SendPackets' = SendPackets
    BY <2>1, PacketsKept
  <2> QED BY <2>1, <2>2, <2>3, <2>4 DEF NullInv
<1>2. CASE Complete
  <2>1. PICK o \in Ops, b \in BOOLEAN :
           /\ flight' = [flight EXCEPT ![o] = @ - 1] /\ flight[o] > 0 /\ port' = Append(port, <<o, b>>)
    BY <1>2 DEF Complete
  <2>2. /\ state' = state /\ closed' = closed /\ pc' = pc /\ seen' = seen /\ flight \in [Ops -> Nat]
    BY <1>2 DEF Complete, Types
  <2>3. /\ SendPackets' = SendPackets + One(o = "send")
        /\ NullPackets' = NullPackets + One(o = "null")
    BY <2>1, PortAppend
  <2>4. ~Quiet
    BY <2>1 DEF Quiet, NoFlight
  <2>5. Nulls' = Nulls
    <3>1. o # "null"
      BY DEF Ops
    <3>2. NullPackets' = NullPackets
      BY <1>p, <2>3, <3>1 DEF One
    <3> QED BY <2>2, <3>2 DEF Nulls
  <2>6. pc[w1] = "nullRecv" => flight'["send"] = 0 /\ SendPackets' = 0
    <3>1. pc[w1] = "nullRecv" => flight["send"] = 0 /\ SendPackets = 0 /\ o # "send"
      BY <2>1 DEF NullInv
    <3>2. o # "send" => flight'["send"] = flight["send"]
      BY <2>1, <2>2 DEF Ops
    <3> QED BY <2>3, <3>1, <3>2 DEF One
  <2> QED BY <2>2, <2>4, <2>5, <2>6 DEF NullInv
<1> QED BY <1>1, <1>2

-----------------------------------------------------------------------------
(* What is over *)

\* What a worker owes for the packet in its hands.
LEMMA WorkerOwes ==
  ASSUME Types, PlaceInv
  PROVE  /\ Sent(w1) \in Nat /\ Received(w1) \in Nat /\ OwesSend(w1) \in Int /\ OwesRecv(w1) \in Int
         /\ OwesSend(w1) = Sent(w1) - 1 \/ OwesSend(w1) >= Sent(w1)
         /\ OwesSend(w1) = Sent(w1) - 1 => pc[w1] = "count" /\ Head(todo[w1]) = "send"
         /\ OwesRecv(w1) = Received(w1) - 1 \/ OwesRecv(w1) >= Received(w1)
         /\ OwesRecv(w1) = Received(w1) - 1 => pc[w1] = "count" /\ Head(todo[w1]) = "recv"
         /\ pc[w1] \in Nulling => OwesRecv(w1) = 1
         /\ seen[w1] # <<>> /\ seen[w1][1] \in Receives =>
              /\ todo[w1] # <<>> => Received(w1) >= 1
              /\ pc[w1] = "ops" \/ todo[w1] # <<>> \/ OwesRecv(w1) >= 1
         /\ seen[w1] # <<>> /\ seen[w1][1] = "send" =>
              /\ todo[w1] # <<>> => Sent(w1) >= 1
              /\ pc[w1] = "ops" \/ todo[w1] # <<>> \/ OwesSend(w1) >= 1
<1>t. w1 \in Threads /\ todo[w1] \in Seq(Tasks) /\ pc[w1] \in Places
  BY ThreadsAre DEF Types
<1>0. Sent(w1) \in Nat /\ Received(w1) \in Nat /\ OwesSend(w1) \in Int /\ OwesRecv(w1) \in Int
  BY <1>t, OwesAt, OwesInt
<1>1. /\ OwesSend(w1) = Sent(w1) - 1 \/ OwesSend(w1) >= Sent(w1)
      /\ OwesSend(w1) = Sent(w1) - 1 => pc[w1] = "count" /\ Head(todo[w1]) = "send"
  BY <1>0 DEF OwesSend, One
<1>2. /\ OwesRecv(w1) = Received(w1) - 1 \/ OwesRecv(w1) >= Received(w1)
      /\ OwesRecv(w1) = Received(w1) - 1 => pc[w1] = "count" /\ Head(todo[w1]) = "recv"
  BY <1>0 DEF OwesRecv, One
<1>3. ASSUME todo[w1] # <<>>, NEW u \in Tasks, todo[w1][Len(todo[w1])] = u
      PROVE  Num(todo[w1], {u}) >= 1 /\ Num(todo[w1], {u}) \in Nat
  <2>1. Len(todo[w1]) \in DOMAIN todo[w1]
    <3>1. Len(todo[w1]) \in Nat \ {0} /\ DOMAIN todo[w1] = 1..Len(todo[w1])
      BY <1>t, <1>3, EmptySeq
    <3> QED BY <3>1
  <2>2. Num(todo[w1], {u}) \in Nat
        /\ (Num(todo[w1], {u}) = 0 => \A i \in DOMAIN todo[w1] : todo[w1][i] \notin {u})
    BY <1>t, NumNat
  <2>3. Num(todo[w1], {u}) # 0
    BY <1>3, <2>1, <2>2
  <2> QED BY <2>2, <2>3
<1>4. seen[w1] # <<>> /\ seen[w1][1] # "null" /\ todo[w1] # <<>> =>
        todo[w1][Len(todo[w1])] = Uncounts(seen[w1][1])
  BY DEF PlaceInv
<1>5. seen[w1] # <<>> /\ seen[w1][1] \in Receives =>
        /\ todo[w1] # <<>> => Received(w1) >= 1
        /\ pc[w1] = "ops" \/ todo[w1] # <<>> \/ OwesRecv(w1) >= 1
  <2>1. SUFFICES ASSUME seen[w1] # <<>>, seen[w1][1] \in Receives
                 PROVE  /\ todo[w1] # <<>> => Received(w1) >= 1
                        /\ pc[w1] = "ops" \/ todo[w1] # <<>> \/ OwesRecv(w1) >= 1
    OBVIOUS
  <2>2. seen[w1][1] # "null" /\ Uncounts(seen[w1][1]) = "received"
    BY <2>1 DEF Receives, Uncounts
  <2>3. todo[w1] # <<>> => Received(w1) >= 1
    BY <1>3, <1>4, <2>1, <2>2 DEF Tasks, Received, NumReceived
  <2>4. todo[w1] = <<>> => pc[w1] \in {"ops", "handle"}
    BY <1>t, <2>1, <2>2 DEF PlaceInv, Places
  <2>5. pc[w1] = "handle" => OwesRecv(w1) >= 1
    BY <1>0, <2>1 DEF OwesRecv, One
  <2> QED BY <2>3, <2>4, <2>5
<1>6. seen[w1] # <<>> /\ seen[w1][1] = "send" =>
        /\ todo[w1] # <<>> => Sent(w1) >= 1
        /\ pc[w1] = "ops" \/ todo[w1] # <<>> \/ OwesSend(w1) >= 1
  <2>1. SUFFICES ASSUME seen[w1] # <<>>, seen[w1][1] = "send"
                 PROVE  /\ todo[w1] # <<>> => Sent(w1) >= 1
                        /\ pc[w1] = "ops" \/ todo[w1] # <<>> \/ OwesSend(w1) >= 1
    OBVIOUS
  <2>2. seen[w1][1] # "null" /\ Uncounts(seen[w1][1]) = "sent"
    BY <2>1 DEF Uncounts
  <2>3. todo[w1] # <<>> => Sent(w1) >= 1
    BY <1>3, <1>4, <2>1, <2>2 DEF Tasks, Sent, NumSent
  <2>4. todo[w1] = <<>> => pc[w1] \in {"ops", "handle"}
    BY <1>t, <2>1, <2>2 DEF PlaceInv, Places
  <2>5. pc[w1] = "handle" => OwesSend(w1) >= 1
    BY <1>0, <2>1 DEF OwesSend, One
  <2> QED BY <2>3, <2>4, <2>5
<1>7. pc[w1] \in Nulling => OwesRecv(w1) = 1
  <2>1. pc[w1] \in Nulling => todo[w1] = <<>>
    BY <1>t DEF PlaceInv, Nulling
  <2>2. pc[w1] \in Nulling => Received(w1) = 0
    BY <2>1, NumEmpty DEF Received, NumReceived
  <2> QED BY <1>t, <2>2, OwesAt DEF Nulling
<1> QED BY <1>0, <1>1, <1>2, <1>5, <1>6, <1>7

\* HasPending has read no pending receive: none is left.
LEMMA RecvOver ==
  ASSUME Types, PlaceInv, FreshInv, CountInv, NullInv, state # "OK", pc["checker"] = "idle",
         pendRecv = 0
  PROVE  RecvDone
<1>1. CASE Quiet
  <2>1. NoFlight(Receives)
    BY <1>1 DEF Quiet, NoFlight, Receives, Ops
  <2>2. RecvPackets = 0
    BY <1>1, NumEmpty DEF Quiet, RecvPackets, Packets
  <2>3. Over(Receives)
    BY <1>1 DEF Quiet, Over, Receives, PlaceInv
  <2> QED BY <2>1, <2>2, <2>3 DEF RecvDone
<1>2. CASE Nulls = 1
  <2>0. OwesRecv("checker") = 0
    BY CheckerOwes
  <2>1. /\ 0 = recvq + flight["recv"] + flight["accept"] + RecvPackets + NullPackets + 0 + OwesRecv(w1)
        /\ recvq \in Nat /\ flight["recv"] \in Nat /\ flight["accept"] \in Nat
        /\ RecvPackets \in Nat /\ NullPackets \in Nat /\ OwesRecv(w1) \in Int
    BY <2>0, TermsAre
  <2> DEFINE q == recvq  f == flight["recv"]  a == flight["accept"]  p == RecvPackets
             n == NullPackets  o == OwesRecv(w1)  r == Received(w1)
  <2>2. /\ q \in Nat /\ f \in Nat /\ a \in Nat /\ p \in Nat /\ n \in Nat /\ o \in Int /\ r \in Nat
        /\ q + f + a + p + n + o = 0 /\ (o = r - 1 \/ o >= r)
    BY <2>1, WorkerOwes
  <2>3. o = r - 1 => n = 1
    <3>1. o = r - 1 => pc[w1] = "count"
      BY WorkerOwes
    <3> QED BY <1>2, <3>1, NullsAre DEF Nulling, Closing
  <2>4. o # r - 1 => f = 0 /\ a = 0 /\ p = 0 /\ o = 0 /\ r = 0
    <3> HIDE DEF q, f, a, p, n, o, r
    <3> QED BY <2>2
  <2>5. o = r - 1 => f = 0 /\ a = 0 /\ p = 0 /\ r = 0
    <3> HIDE DEF q, f, a, p, n, o, r
    <3> QED BY <2>2, <2>3
  <2>6. f = 0 /\ a = 0 /\ p = 0 /\ r = 0 /\ o < 1
    <3> HIDE DEF q, f, a, p, n, o, r
    <3> QED BY <2>2, <2>4, <2>5
  <2>7. NoFlight(Receives)
    BY <2>6 DEF NoFlight, Receives
  <2>8. Over(Receives)
    <3>1. SUFFICES ASSUME seen[w1] # <<>>, seen[w1][1] \in Receives
                   PROVE  pc[w1] = "ops" /\ todo[w1] = <<>>
      BY DEF Over
    <3>2. ~(r >= 1) /\ ~(o >= 1)
      <4> HIDE DEF o, r
      <4> QED BY <2>2, <2>6
    <3> QED BY <3>1, <3>2, WorkerOwes
  <2> QED BY <2>6, <2>7, <2>8 DEF RecvDone
<1> QED BY <1>1, <1>2 DEF NullInv

\* And then no pending send.
LEMMA SendOver ==
  ASSUME Types, PlaceInv, FreshInv, CountInv, RecvDone, state # "OK", pc["checker"] = "hasPending",
         pendSend = 0
  PROVE  SendDone
<1>0. OwesSend("checker") = 0
  BY CheckerOwes
<1>1. /\ 0 = sendq + flight["send"] + SendPackets + 0 + OwesSend(w1)
      /\ sendq \in Nat /\ flight["send"] \in Nat /\ SendPackets \in Nat /\ OwesSend(w1) \in Int
  BY <1>0, TermsAre
<1>2. ~(pc[w1] = "count" /\ Head(todo[w1]) = "send")
  <2>1. SUFFICES ASSUME pc[w1] = "count", Head(todo[w1]) = "send" PROVE FALSE
    OBVIOUS
  <2>2. seen[w1] # <<>> /\ seen[w1][1] # "null" /\ todo[w1] # <<>>
    BY <2>1, ThreadsAre DEF PlaceInv
  <2>3. seen[w1][1] \in Ops
    <3>1. seen[w1] \in (Ops \union {"null"}) \X BOOLEAN
      BY <2>2, ThreadsAre DEF Types
    <3> QED BY <2>2, <3>1
  <2>4. seen[w1][1] \notin Receives
    BY <2>1, <2>2 DEF RecvDone, Over
  <2>5. seen[w1][1] = "send"
    BY <2>3, <2>4 DEF Ops, Receives
  <2>6. todo[w1] \in Seq(Steps(kind, "send"))
    BY <2>2, <2>5 DEF PlaceInv
  <2>7. Head(todo[w1]) \in Steps(kind, "send")
    BY <2>2, <2>6, HeadTail
  <2> QED BY <2>1, <2>7 DEF Steps
<1> DEFINE q == sendq  f == flight["send"]  p == SendPackets  o == OwesSend(w1)  r == Sent(w1)
<1>3. /\ q \in Nat /\ f \in Nat /\ p \in Nat /\ o \in Int /\ r \in Nat /\ q + f + p + o = 0 /\ o >= r
  BY <1>1, <1>2, WorkerOwes
<1>4. f = 0 /\ p = 0 /\ ~(r >= 1) /\ ~(o >= 1)
  <2> HIDE DEF q, f, p, o, r
  <2> QED BY <1>3
<1>5. NoFlight({"send"})
  BY <1>4 DEF NoFlight
<1>6. Over({"send"})
  <2>1. SUFFICES ASSUME seen[w1] # <<>>, seen[w1][1] = "send"
                 PROVE  pc[w1] = "ops" /\ todo[w1] = <<>>
    BY DEF Over
  <2> QED BY <1>4, <2>1, WorkerOwes
<1> QED BY <1>4, <1>5, <1>6 DEF SendDone

\* What is over stays over.
LEMMA OverOperate ==
  ASSUME Types, PlaceInv, FreshInv, NullInv, NEW t \in Threads, Operate(t), state # "OK",
         pc["checker"] \in {"idle", "hasPending"}, t # "checker"
  PROVE  /\ RecvDone => RecvDone'
         /\ SendDone => SendDone'
         /\ state' = state /\ pc'["checker"] = pc["checker"]
<1>m. Move(t) /\ Others(t)
  BY MoveIs
<1>t. Threads = {"starter", "checker", w1} /\ w1 # "starter" /\ w1 # "checker"
  BY ThreadsAre
<1>1. pc[t] = "call" => closed
  <2>1. t = "starter" => pc[t] # "call"
    <3>1. todo["starter"] = <<>>
      BY DEF FreshInv
    <3> QED BY <1>t, <3>1 DEF PlaceInv
  <2>2. t = w1 /\ pc[t] = "call" => closed
    BY DEF NullInv
  <2> QED BY <1>t, <2>1, <2>2
<1>2. flight' = flight /\ state' = state
  BY <1>1, EffectIs
<1>3. SendPackets' = SendPackets /\ RecvPackets' = RecvPackets
  BY PacketsOperate
<1>4. ASSUME NEW O, Over(O) PROVE Over(O)'
  <2>1. CASE t # w1
    <3>1. pc'[w1] = pc[w1] /\ seen'[w1] = seen[w1] /\ todo'[w1] = todo[w1]
      BY <1>m, <1>t, <2>1 DEF Others
    <3> QED BY <1>4, <3>1 DEF Over
  <2>2. CASE t = w1
    <3>1. (seen' = seen /\ (pc[w1] = "ops" => todo[w1] # <<>>)) \/ seen'[w1] = <<>>
      BY <2>2, EffectIs
    <3> QED BY <1>4, <3>1 DEF Over
  <2> QED BY <2>1, <2>2
<1>5. pc'["checker"] = pc["checker"]
  BY <1>m, <1>t DEF Others
<1>6. RecvDone => RecvDone'
  BY <1>2, <1>3, <1>4 DEF RecvDone, NoFlight
<1>7. SendDone => SendDone'
  BY <1>2, <1>3, <1>4 DEF SendDone, NoFlight
<1> QED BY <1>2, <1>5, <1>6, <1>7

\* What is over stays over when an operation is done,
LEMMA EndOperate ==
  ASSUME Types, PlaceInv, FreshInv, NullInv, EndInv, NEW t \in Threads, Operate(t)
  PROVE  EndInv'
<1>m. Move(t) /\ Others(t)
  BY MoveIs
<1>t. Threads = {"starter", "checker", w1}
  BY ThreadsAre
<1>1. CASE t = "checker"
  <2>1. pc["checker"] \notin {"idle", "hasPending"} /\ pc'["checker"] # "hasPending"
    BY <1>m, <1>1, BusyIs
  <2>2. state # "READY"
    BY <2>1 DEF EndInv
  <2>3. state' # "READY"
    BY <2>2, EffectIs
  <2> QED BY <2>1, <2>3 DEF EndInv
<1>2. CASE t # "checker"
  <2>1. pc'["checker"] = pc["checker"] /\ (state' = state \/ (state = "OK" /\ state' = "DISCONNECT"))
    BY <1>m, <1>t, <1>2, EffectIs DEF Others
  <2>2. CASE pc["checker"] = "hasPending" \/ state = "READY"
    <3>1. state # "OK" /\ pc["checker"] \in {"idle", "hasPending"}
      BY <2>2 DEF EndInv
    <3> QED BY <1>2, <3>1, OverOperate DEF EndInv
  <2>3. CASE pc["checker"] # "hasPending" /\ state # "READY"
    BY <2>1, <2>3 DEF EndInv
  <2> QED BY <2>2, <2>3
<1> QED BY <1>1, <1>2

\* A worker takes no packet of a side that is over.
LEMMA OverWorker ==
  ASSUME Types, PlaceInv, Dequeue(w1) \/ Handle(w1) \/ Null(w1)
  PROVE  /\ RecvDone => RecvDone'
         /\ SendDone => SendDone'
<1>w. flight' = flight
  BY WorkerIs
<1>1. CASE port # <<>> /\ port' = Tail(port) /\ seen'[w1] = Head(port)
  <2> DEFINE op == Head(port)[1]
  <2>1. /\ RecvPackets = RecvPackets' + One(op \in Receives) /\ RecvPackets' \in Nat
        /\ SendPackets = SendPackets' + One(op = "send") /\ SendPackets' \in Nat
    BY <1>1, PortTail
  <2>2. One(op \in Receives) \in {0, 1} /\ One(op = "send") \in {0, 1}
    BY DEF One
  <2>3. RecvPackets = 0 => RecvPackets' = 0 /\ One(op \in Receives) = 0
    <3> HIDE DEF op
    <3> QED BY <2>1, <2>2
  <2>4. SendPackets = 0 => SendPackets' = 0 /\ One(op = "send") = 0
    <3> HIDE DEF op
    <3> QED BY <2>1, <2>2
  <2>5. (RecvPackets = 0 => op \notin Receives) /\ (SendPackets = 0 => op # "send")
    BY <2>3, <2>4 DEF One
  <2>6. RecvDone => RecvDone'
    BY <1>w, <1>1, <2>3, <2>5 DEF RecvDone, NoFlight, Over
  <2>7. SendDone => SendDone'
    BY <1>w, <1>1, <2>4, <2>5 DEF SendDone, NoFlight, Over
  <2> QED BY <2>6, <2>7
<1>2. CASE seen'[w1] = seen[w1] /\ pc[w1] # "ops" /\ (port' = port \/ port' = Append(port, <<"null", TRUE>>))
  <2>1. SendPackets' = SendPackets /\ RecvPackets' = RecvPackets
    BY <1>2, PacketsKept, PortNull
  <2>2. \A O : Over(O) => Over(O)'
    BY <1>2 DEF Over
  <2>3. RecvDone => RecvDone'
    BY <1>w, <2>1, <2>2 DEF RecvDone, NoFlight
  <2>4. SendDone => SendDone'
    BY <1>w, <2>1, <2>2 DEF SendDone, NoFlight
  <2> QED BY <2>3, <2>4
<1> QED BY <1>1, <1>2, WorkerIs DEF Nulling

\* in a step of a worker,
LEMMA EndWorker ==
  ASSUME Types, PlaceInv, EndInv, Dequeue(w1) \/ Handle(w1) \/ Null(w1)
  PROVE  EndInv'
<1>1. state' = state /\ pc'["checker"] = pc["checker"]
  BY WorkerIs, ThreadsAre DEF Others
<1> QED BY <1>1, OverWorker DEF EndInv

\* and the checker reads that it is.
LEMMA EndOthers ==
  ASSUME Types, PlaceInv, FreshInv, CountInv, NullInv, EndInv, Check \/ Complete
  PROVE  EndInv'
<1>1. CASE Check
  <2>1. /\ flight' = flight /\ port' = port /\ seen' = seen /\ Others("checker")
        /\ \/ pc["checker"] = "idle" /\ state = "OK" /\ state' = "OK" /\ pc'["checker"] = "ops"
           \/ /\ pc["checker"] = "idle" /\ state = "DISCONNECT" /\ state' = state /\ pendRecv = 0
              /\ pc'["checker"] = "hasPending"
           \/ /\ pc["checker"] = "hasPending" /\ pc'["checker"] = "idle"
              /\ state' = state \/ (state' = "READY" /\ pendSend = 0)
    BY <1>1, CheckIs
  <2>2. pc'[w1] = pc[w1] /\ todo'[w1] = todo[w1] /\ seen'[w1] = seen[w1]
    BY <2>1, ThreadsAre DEF Others
  <2>3. SendPackets' = SendPackets /\ RecvPackets' = RecvPackets
    BY <2>1, PacketsKept
  <2>4. (RecvDone => RecvDone') /\ (SendDone => SendDone')
    BY <2>1, <2>2, <2>3 DEF RecvDone, SendDone, NoFlight, Over
  <2>5. CASE pc["checker"] = "idle" /\ state = "OK" /\ state' = "OK" /\ pc'["checker"] = "ops"
    BY <2>5 DEF EndInv
  <2>6. CASE /\ pc["checker"] = "idle" /\ state = "DISCONNECT" /\ state' = state /\ pendRecv = 0
             /\ pc'["checker"] = "hasPending"
    <3>1. RecvDone
      BY <2>6, RecvOver
    <3> QED BY <2>4, <2>6, <3>1 DEF EndInv
  <2>7. CASE /\ pc["checker"] = "hasPending" /\ pc'["checker"] = "idle"
             /\ state' = state \/ (state' = "READY" /\ pendSend = 0)
    <3>1. state = "DISCONNECT" /\ RecvDone
      BY <2>7 DEF EndInv
    <3>2. state' = "READY" => SendDone
      BY <2>7, <3>1, SendOver
    <3> QED BY <2>4, <2>7, <3>1, <3>2 DEF EndInv
  <2> QED BY <2>1, <2>5, <2>6, <2>7
<1>2. CASE Complete
  <2>1. PICK o \in Ops, b \in BOOLEAN :
           /\ flight' = [flight EXCEPT ![o] = @ - 1] /\ flight[o] > 0 /\ port' = Append(port, <<o, b>>)
    BY <1>2 DEF Complete
  <2>2. /\ state' = state /\ pc' = pc /\ todo' = todo /\ seen' = seen /\ flight \in [Ops -> Nat]
    BY <1>2 DEF Complete, Types
  <2>3. /\ SendPackets' = SendPackets + One(o = "send")
        /\ RecvPackets' = RecvPackets + One(o \in Receives)
    BY <2>1, PortAppend
  <2>4. \A r \in Ops : r # o => flight'[r] = flight[r]
    BY <2>1, <2>2
  <2>5. RecvDone => RecvDone'
    <3>1. RecvDone => o \notin Receives
      BY <2>1 DEF RecvDone, NoFlight
    <3>2. RecvDone => RecvPackets' = 0
      BY <2>3, <3>1 DEF RecvDone, One
    <3>3. RecvDone => NoFlight(Receives)'
      BY <2>4, <3>1 DEF RecvDone, NoFlight, Receives, Ops
    <3> QED BY <2>2, <3>2, <3>3 DEF RecvDone, Over
  <2>6. SendDone => SendDone'
    <3>1. SendDone => o # "send"
      BY <2>1 DEF SendDone, NoFlight
    <3>2. SendDone => SendPackets' = 0
      BY <2>3, <3>1 DEF SendDone, One
    <3>3. SendDone => NoFlight({"send"})'
      BY <2>4, <3>1 DEF SendDone, NoFlight, Ops
    <3> QED BY <2>2, <3>2, <3>3 DEF SendDone, Over
  <2> QED BY <2>2, <2>5, <2>6 DEF EndInv
<1> QED BY <1>1, <1>2

-----------------------------------------------------------------------------
(* The theorem *)

\* The invariant holds at first.
LEMMA InitIInv == ASSUME Kinds \subseteq AllKinds PROVE Init => IInv
<1> SUFFICES ASSUME Init PROVE IInv
  OBVIOUS
<1>t. Threads = {"starter", "checker", w1} /\ w1 # "starter" /\ w1 # "checker" /\ Kinds \subseteq AllKinds
  BY ThreadsAre
<1>i. /\ kind \in Kinds /\ state = "OK"
      /\ sendq = 0 /\ recvq = 0 /\ pendSend = 0 /\ pendRecv = 0
      /\ flight = [o \in Ops |-> 0] /\ port = <<>> /\ closed = FALSE
      /\ pc = [t \in Threads |-> IF t = Starter THEN "ops" ELSE "idle"]
      /\ todo = [t \in Threads |-> IF t = Starter THEN Started(kind) ELSE <<>>]
      /\ seen = [t \in Threads |-> <<>>]
  BY DEF Init
<1>s. /\ Starter = IF kind = "client" THEN "checker" ELSE "starter"
      /\ Starter \in {"starter", "checker"}
  BY DEF Starter
<1>k. /\ kind = "client" => Started(kind) = <<"send", "recv">>
      /\ kind # "client" => Started(kind) \in {<<"recv">>, <<"send">>, <<"accept">>}
      /\ Started(kind) \in Seq(Tasks)
  <2>1. kind \in AllKinds
    BY <1>i, <1>t
  <2>2. /\ <<"send", "recv">> \in Seq(Tasks) /\ <<"recv">> \in Seq(Tasks)
        /\ <<"send">> \in Seq(Tasks) /\ <<"accept">> \in Seq(Tasks)
    BY SentPair, SentOps DEF Tasks
  <2>3. kind = "client" => Started(kind) = <<"send", "recv">>
    BY DEF Started
  <2>4. kind # "client" => Started(kind) \in {<<"recv">>, <<"send">>, <<"accept">>}
    BY <2>1 DEF Started, AllKinds
  <2> QED BY <2>2, <2>3, <2>4
<1>1. Types
  <2>1. todo \in [Threads -> Seq(Tasks)]
    <3>1. \A t \in Threads : todo[t] = Started(kind) \/ todo[t] = <<>>
      BY <1>i
    <3>2. <<>> \in Seq(Tasks)
      OBVIOUS
    <3>3. \A t \in Threads : todo[t] \in Seq(Tasks)
      BY <1>k, <3>1, <3>2
    <3> QED BY <1>i, <3>3
  <2>2. pc \in [Threads -> Places]
    BY <1>i DEF Places
  <2>3. seen \in [Threads -> {<<>>} \union ((Ops \union {"null"}) \X BOOLEAN)]
    BY <1>i
  <2>4. port \in Seq((Ops \union {"null"}) \X BOOLEAN)
    BY <1>i
  <2>5. flight \in [Ops -> Nat]
    BY <1>i
  <2>6. closed \in BOOLEAN
    BY <1>i, Zenon
  <2>7. /\ state \in {"OK", "DISCONNECT", "READY"} /\ sendq \in Nat /\ recvq \in Nat
        /\ pendSend \in Int /\ pendRecv \in Int
    BY <1>i
  <2> QED BY <1>i, <2>1, <2>2, <2>3, <2>4, <2>5, <2>6, <2>7 DEF Types
<1>2. PlaceInv
  <2>0. /\ <<"send", "recv">> # <<>> /\ <<"recv">> # <<>> /\ <<"send">> # <<>> /\ <<"accept">> # <<>>
    OBVIOUS
  <2>1. \A t \in Threads : Fits(t)
    BY <1>i DEF Fits
  <2>2. todo["starter"] \in StarterTodos /\ todo["checker"] \in CheckerTodos
    BY <1>i, <1>s, <1>k, <1>t DEF StarterTodos, CheckerTodos, RecvToCome
  <2>3. /\ pc["starter"] \in {"idle", "ops"} /\ pc["checker"] \in {"idle", "ops"} /\ pc[w1] = "idle"
        /\ seen["starter"] = <<>> /\ seen["checker"] = <<>> /\ seen[w1] = <<>>
        /\ kind = "client" => pc["starter"] = "idle"
    BY <1>i, <1>s, <1>t
  <2> QED BY <2>1, <2>2, <2>3 DEF PlaceInv, Fits
<1>p. SendPackets = 0 /\ RecvPackets = 0 /\ NullPackets = 0
  BY <1>i, NumEmpty DEF SendPackets, RecvPackets, NullPackets, Packets
<1>3. CountInv
  <2>1. ASSUME NEW t \in Threads PROVE OwesSend(t) = 0 /\ OwesRecv(t) = 0
    <3>1. pc[t] \in {"idle", "ops"}
      BY <1>i
    <3>2. todo[t] = <<>> \/ todo[t] \in {<<"send", "recv">>, <<"recv">>, <<"send">>, <<"accept">>}
      BY <1>i, <1>k
    <3>3. /\ NumSent(<<"send", "recv">>) = 0 /\ NumReceived(<<"send", "recv">>) = 0
          /\ NumSent(<<"recv">>) = 0 /\ NumReceived(<<"recv">>) = 0
          /\ NumSent(<<"send">>) = 0 /\ NumReceived(<<"send">>) = 0
          /\ NumSent(<<"accept">>) = 0 /\ NumReceived(<<"accept">>) = 0
      BY SentPair, SentOps DEF Tasks, One
    <3>4. NumSent(<<>>) = 0 /\ NumReceived(<<>>) = 0
      BY NumEmpty DEF NumSent, NumReceived
    <3>5. Sent(t) = 0 /\ Received(t) = 0
      BY <3>2, <3>3, <3>4 DEF Sent, Received
    <3> QED BY <1>1, <1>2, <3>1, <3>5, OwesAt
  <2>2. SumSend = 0 /\ SumRecv = 0
    BY <1>t, <2>1 DEF SumSend, SumRecv
  <2> QED BY <1>i, <1>p, <2>2 DEF CountInv, Ops
<1>4. FreshInv
  <2>1. todo["starter"] # <<>> => pc["checker"] = "idle"
    BY <1>i, <1>s, <1>t
  <2> QED BY <1>i, <1>s, <1>t, <2>1 DEF FreshInv, NoFlight, Ops
<1>5. RecvToComeInv
  <2>1. todo["checker"] \in RecvToCome => kind = "client"
    <3>1. <<>> \notin RecvToCome
      BY DEF RecvToCome
    <3> QED BY <1>i, <1>s, <1>t, <3>1
  <2> QED BY <1>i, <1>p, <1>t, <2>1 DEF RecvToComeInv, NoFlight, Receives, Ops
<1>6. NullInv
  BY <1>i, <1>p, <1>s, <1>t DEF NullInv, Nulls, One
<1>7. EndInv
  BY <1>i, <1>s, <1>t DEF EndInv
<1> QED BY <1>1, <1>2, <1>3, <1>4, <1>5, <1>6, <1>7 DEF IInv

\* Every step keeps the invariant.
LEMMA NextIInv == IInv /\ [Next]_vars => IInv'
<1> SUFFICES ASSUME IInv, [Next]_vars PROVE IInv'
  OBVIOUS
<1>i. Types /\ CountInv /\ PlaceInv /\ FreshInv /\ RecvToComeInv /\ NullInv /\ EndInv
  BY DEF IInv
<1>1. ASSUME NEW t \in Threads, Operate(t) PROVE IInv'
  <2>1. Types' /\ PlaceInv'
    BY <1>i, <1>1, TypesOperate, PlaceOperate
  <2>2. CountInv'
    BY <1>i, <1>1, CountOperate
  <2>3. FreshInv' /\ RecvToComeInv'
    BY <1>i, <1>1, FreshOperate, RecvToComeOperate
  <2>4. NullInv'
    BY <1>i, <1>1, <2>1, NullOperate
  <2>5. EndInv'
    BY <1>i, <1>1, EndOperate
  <2> QED BY <2>1, <2>2, <2>3, <2>4, <2>5 DEF IInv
<1>2. ASSUME Dequeue(w1) \/ Handle(w1) \/ Null(w1) PROVE IInv'
  <2>1. Types' /\ PlaceInv'
    BY <1>i, <1>2, TypesWorker, PlaceWorker
  <2>2. CountInv'
    BY <1>i, <1>2, CountWorker
  <2>3. FreshInv' /\ RecvToComeInv'
    BY <1>i, <1>2, FreshWorker, RecvToComeWorker
  <2>4. NullInv'
    BY <1>i, <1>2, NullWorker
  <2>5. EndInv'
    BY <1>i, <1>2, EndWorker
  <2> QED BY <2>1, <2>2, <2>3, <2>4, <2>5 DEF IInv
<1>3. ASSUME Check \/ Complete PROVE IInv'
  <2>1. Types' /\ PlaceInv'
    BY <1>i, <1>3, TypesOthers, PlaceOthers
  <2>2. CountInv'
    BY <1>i, <1>3, CountOthers
  <2>3. FreshInv' /\ RecvToComeInv'
    BY <1>i, <1>3, FreshOthers, RecvToComeOthers
  <2>4. NullInv'
    BY <1>i, <1>3, NullOthers
  <2>5. EndInv'
    BY <1>i, <1>3, EndOthers
  <2> QED BY <2>1, <2>2, <2>3, <2>4, <2>5 DEF IInv
<1>4. CASE UNCHANGED vars
  <2>1. /\ kind' = kind /\ state' = state /\ sendq' = sendq /\ recvq' = recvq /\ pendSend' = pendSend
        /\ pendRecv' = pendRecv /\ flight' = flight /\ port' = port /\ closed' = closed /\ pc' = pc
        /\ todo' = todo /\ seen' = seen
    BY <1>4 DEF vars, queues, counters
  <2>2. Types' /\ PlaceInv'
    BY <1>i, <2>1 DEF Types, PlaceInv
  <2>3. SendPackets' = SendPackets /\ RecvPackets' = RecvPackets /\ NullPackets' = NullPackets
    BY <2>1, PacketsKept
  <2>4. SumSend' = SumSend /\ SumRecv' = SumRecv
    BY <2>1 DEF SumSend, SumRecv, OwesSend, OwesRecv, Sent, Received
  <2>5. CountInv'
    BY <1>i, <2>1, <2>3, <2>4 DEF CountInv
  <2>6. FreshInv' /\ RecvToComeInv'
    BY <1>i, <2>1, <2>3 DEF FreshInv, RecvToComeInv, NoFlight
  <2>7. NullInv'
    BY <1>i, <2>1, <2>3 DEF NullInv, Nulls, Quiet, NoFlight
  <2>8. EndInv'
    BY <1>i, <2>1, <2>3 DEF EndInv, RecvDone, SendDone, Over, NoFlight
  <2> QED BY <2>2, <2>5, <2>6, <2>7, <2>8 DEF IInv
<1>5. Threads = {"starter", "checker", w1}
  BY ThreadsAre
<1> QED BY <1>1, <1>2, <1>3, <1>4, <1>5 DEF Next, Worker

\* The invariant says that no operation outlives its session.
LEMMA EndsFirst == IInv => TypeOK /\ OperationsEndFirst
<1> SUFFICES ASSUME IInv PROVE TypeOK /\ OperationsEndFirst
  OBVIOUS
<1>i. Types /\ EndInv
  BY DEF IInv
<1>1. TypeOK
  <2> QED BY <1>i, ThreadsAre DEF Types, TypeOK
<1>2. OperationsEndFirst
  <2>1. SUFFICES ASSUME state = "READY"
                 PROVE  /\ \A o \in Ops : flight[o] = 0
                        /\ \A i \in DOMAIN port : port[i][1] = "null"
                        /\ \A w \in {w1} : seen[w] # <<>> /\ seen[w][1] # "null" =>
                                              pc[w] = "ops" /\ todo[w] = <<>>
    BY DEF OperationsEndFirst
  <2>2. RecvDone /\ SendDone
    BY <1>i, <2>1 DEF EndInv
  <2>3. \A o \in Ops : flight[o] = 0
    BY <2>2 DEF RecvDone, SendDone, NoFlight, Ops, Receives
  <2>4. \A i \in DOMAIN port : port[i][1] = "null"
    <3> TAKE i \in DOMAIN port
    <3>1. port \in Seq((Ops \union {"null"}) \X BOOLEAN)
      BY <1>i DEF Types
    <3>2. port[i] \notin {"send"} \X BOOLEAN /\ port[i] \notin {"recv", "accept"} \X BOOLEAN
      <4>1. ASSUME NEW S, Num(port, S) = 0 PROVE port[i] \notin S
        BY <3>1, <4>1, NumNat
      <4> QED BY <2>2, <4>1, Zenon DEF RecvDone, SendDone, SendPackets, RecvPackets, Packets
    <3>3. port[i] \in (Ops \union {"null"}) \X BOOLEAN
      BY <3>1
    <3> QED BY <3>2, <3>3 DEF Ops
  <2>5. seen[w1] # <<>> /\ seen[w1][1] # "null" => pc[w1] = "ops" /\ todo[w1] = <<>>
    <3>1. SUFFICES ASSUME seen[w1] # <<>>, seen[w1][1] # "null"
                   PROVE  pc[w1] = "ops" /\ todo[w1] = <<>>
      OBVIOUS
    <3>2. seen[w1] \in (Ops \union {"null"}) \X BOOLEAN
      BY <1>i, <3>1, ThreadsAre DEF Types
    <3>3. seen[w1][1] \in Ops
      BY <3>1, <3>2
    <3>4. seen[w1][1] \in Receives \/ seen[w1][1] \in {"send"}
      BY <3>3 DEF Ops, Receives
    <3> QED BY <2>2, <3>1, <3>4 DEF RecvDone, SendDone, Over
  <2> QED BY <2>3, <2>4, <2>5, ThreadsAre
<1> QED BY <1>1, <1>2

\* When svc_del has run nothing is in the hands of the system, the port has no packet but that of
\* Disconnect, and no worker is in a callback (HasPending, Disconnect, svc_worker).
THEOREM EndsAlways ==
  ASSUME Kinds \subseteq AllKinds PROVE Spec => [](TypeOK /\ OperationsEndFirst)
<1>1. Init => IInv
  BY InitIInv
<1>2. IInv /\ [Next]_vars => IInv'
  BY NextIInv
<1>3. IInv => TypeOK /\ OperationsEndFirst
  BY EndsFirst
<1> QED BY <1>1, <1>2, <1>3, PTL DEF Spec
=============================================================================
