----------------------------- MODULE SessionIocp -----------------------------
(***************************************************************************)
(* One session of an IOCPPool on Windows (src/vhwd/net/iocp1.cpp,          *)
(* session*.cpp): the operations in the hands of the system, the packets   *)
(* of the completion port, the workers that handle them, and the counters  *)
(* of what is pending, by which the checker decides that nobody will touch *)
(* the session any more and deletes it.                                    *)
(*                                                                         *)
(* Disconnect is called by the threads of the pool, the workers and the    *)
(* checker, and not while OnConnected runs: it would take the first        *)
(* request out of the queue before that is counted, or be called by a      *)
(* thread that nothing counts.  A step is one access to a counter, a       *)
(* queue or the socket.                                                    *)
(***************************************************************************)
EXTENDS Integers, Sequences, FiniteSets

CONSTANTS Workers,
          Kinds,     \* kinds of session, out of AllKinds
          MaxData    \* receives and sends that the system completes well

VARIABLES kind, state,
          sendq, recvq,        \* lengths of lkfq_send and lkfq_recv
          pendSend, pendRecv,  \* m_nPendingSend, m_nPendingRecv
          flight,              \* operations in the hands of the system, a bag over Ops
          port,                \* packets of the completion port
          closed,              \* the socket is closed
          good,                \* operations that went well
          pc, todo,            \* a thread: where it is, operations to do
          seen                 \* a worker: its packet; the checker: what it read

counters == <<pendSend, pendRecv>>
queues == <<sendq, recvq>>
vars == <<kind, state, queues, counters, flight, port, closed, good, pc, todo, seen>>

Threads == Workers \union {"starter", "checker"}
Ops == {"send", "recv", "accept"}

AllKinds == {"echo", "client", "pingpong", "udpclient", "listener"}

\* OnConnected, or the command that starts the client (test_iocp.cpp, SessionEcho, SessionServer).
Started(k) == CASE k \in {"echo", "pingpong"} -> <<"recv">>
                [] k = "client" -> <<"send", "recv">>
                [] k = "udpclient" -> <<"send">>
                [] k = "listener" -> <<"accept">>

\* OnConnected runs in the thread that registers the session, a command in the checker.
Starter == IF kind = "client" THEN "checker" ELSE "starter"

\* OnSendCompleted, OnRecvCompleted, OnRecvReady; then the next request of the queue is begun.
Callback(k, op) ==
  CASE op = "send" -> (IF k \in {"pingpong", "udpclient"} THEN <<"recv">> ELSE <<>>)
                      \o <<"beginSend">>
    [] op = "recv" -> (IF k \in {"pingpong", "udpclient"} THEN <<"send">> ELSE <<"send", "recv">>)
                      \o <<"beginRecv">>
    [] op = "accept" -> <<"accept", "beginRecv">>

Init ==
  /\ kind \in Kinds /\ state = "OK"
  /\ sendq = 0 /\ recvq = 0 /\ pendSend = 0 /\ pendRecv = 0
  /\ flight = [o \in Ops |-> 0] /\ port = <<>> /\ closed = FALSE /\ good = 0
  /\ pc = [t \in Threads |-> IF t = Starter THEN "ops" ELSE "idle"]
  /\ todo = [t \in Threads |-> IF t = Starter THEN Started(kind) ELSE <<>>]
  /\ seen = [t \in Threads |-> <<>>]

Goto(t, l) == pc' = [pc EXCEPT ![t] = l]
At(t, op) == pc[t] = "ops" /\ todo[t] # <<>> /\ Head(todo[t]) = op
Advance(t) == todo' = [todo EXCEPT ![t] = Tail(@)] /\ Goto(t, "ops")
Instead(t, ops) == todo' = [todo EXCEPT ![t] = ops \o Tail(@)] /\ Goto(t, "ops")

-----------------------------------------------------------------------------
(* Operations of a thread. *)

\* AsyncSend and AsyncRecv: the request is queued,
Put(t) ==
  /\ \/ At(t, "send") /\ sendq' = sendq + 1 /\ UNCHANGED recvq
     \/ At(t, "recv") /\ recvq' = recvq + 1 /\ UNCHANGED sendq
  /\ Goto(t, "count")
  /\ UNCHANGED <<kind, state, counters, flight, port, closed, good, todo, seen>>

\* counted, and begun if it is the first; WaitForAccept counts its own.
Count(t) ==
  /\ \/ /\ pc[t] = "count" /\ Head(todo[t]) = "send"
        /\ pendSend' = pendSend + 1 /\ UNCHANGED pendRecv
        /\ IF pendSend = 0 THEN Instead(t, <<"beginSend">>) ELSE Advance(t)
     \/ /\ pc[t] = "count" /\ Head(todo[t]) = "recv"
        /\ pendRecv' = pendRecv + 1 /\ UNCHANGED pendSend
        /\ IF pendRecv = 0 THEN Instead(t, <<"beginRecv">>) ELSE Advance(t)
     \/ /\ At(t, "accept")
        /\ pendRecv' = pendRecv + 1 /\ UNCHANGED pendSend
        /\ Goto(t, "call") /\ UNCHANGED todo
  /\ UNCHANGED <<kind, state, queues, flight, port, closed, good, seen>>

\* DoAsyncSend, DoAsyncRecv: the next request of the queue, if there is one.
Begin(t) ==
  /\ \/ /\ At(t, "beginSend") /\ sendq > 0 /\ sendq' = sendq - 1 /\ UNCHANGED recvq
        /\ Goto(t, "call") /\ UNCHANGED todo
     \/ /\ At(t, "beginRecv") /\ recvq > 0 /\ recvq' = recvq - 1 /\ UNCHANGED sendq
        /\ Goto(t, "call") /\ UNCHANGED todo
     \/ /\ At(t, "beginSend") /\ sendq = 0 /\ Advance(t) /\ UNCHANGED queues
     \/ /\ At(t, "beginRecv") /\ recvq = 0 /\ Advance(t) /\ UNCHANGED queues
  /\ UNCHANGED <<kind, state, counters, flight, port, closed, good, seen>>

Called(t) == CASE Head(todo[t]) = "beginSend" -> "send"
               [] Head(todo[t]) = "beginRecv" -> "recv"
               [] OTHER -> "accept"

\* WSASend, WSARecv and AcceptEx; a call that fails is counted down and disconnects (for AcceptEx
\* in the other order).
Call(t) ==
  /\ pc[t] = "call"
  /\ \/ /\ ~closed /\ flight' = [flight EXCEPT ![Called(t)] = @ + 1] /\ Advance(t)
     \/ /\ t # "starter" \/ closed
        /\ flight' = flight
        /\ Instead(t, CASE Called(t) = "send" -> <<"sent", "disconnect">>
                        [] Called(t) = "recv" -> <<"received", "disconnect">>
                        [] OTHER -> <<"disconnect", "received">>)
  /\ UNCHANGED <<kind, state, queues, counters, port, closed, good, seen>>

\* --m_nPendingSend, --m_nPendingRecv.
Uncount(t) ==
  /\ \/ At(t, "sent") /\ pendSend' = pendSend - 1 /\ UNCHANGED pendRecv
     \/ At(t, "received") /\ pendRecv' = pendRecv - 1 /\ UNCHANGED pendSend
  /\ Advance(t)
  /\ UNCHANGED <<kind, state, queues, flight, port, closed, good, seen>>

\* Disconnect: from OK to DISCONNECT, once; the socket is closed,
Disconnect(t) ==
  /\ \/ /\ At(t, "disconnect") /\ state = "OK"
        /\ state' = "DISCONNECT" /\ Goto(t, "close") /\ UNCHANGED <<todo, closed>>
     \/ /\ At(t, "disconnect") /\ state # "OK"
        /\ Advance(t) /\ UNCHANGED <<state, closed>>
     \/ /\ pc[t] = "close"
        /\ closed' = TRUE /\ Goto(t, "hold") /\ UNCHANGED <<todo, state>>
  /\ UNCHANGED <<kind, queues, counters, flight, port, good, seen>>

\* one more pending receive, for a packet of its own,
Hold(t) ==
  /\ pc[t] = "hold"
  /\ pendRecv' = pendRecv + 1 /\ Goto(t, "post")
  /\ UNCHANGED <<kind, state, queues, pendSend, flight, port, closed, good, todo, seen>>

\* which is posted,
Post(t) ==
  /\ pc[t] = "post"
  /\ port' = Append(port, <<"null", TRUE>>) /\ Goto(t, "drainRecv")
  /\ UNCHANGED <<kind, state, queues, counters, flight, closed, good, todo, seen>>

\* and the queues are emptied, each request counted down.
Drain(t) ==
  /\ \/ /\ pc[t] = "drainRecv" /\ recvq > 0
        /\ recvq' = recvq - 1 /\ Goto(t, "drainedRecv") /\ UNCHANGED <<sendq, counters, todo>>
     \/ /\ pc[t] = "drainedRecv"
        /\ pendRecv' = pendRecv - 1 /\ Goto(t, "drainRecv")
        /\ UNCHANGED <<queues, pendSend, todo>>
     \/ /\ pc[t] = "drainRecv" /\ recvq = 0
        /\ Goto(t, "drainSend") /\ UNCHANGED <<queues, counters, todo>>
     \/ /\ pc[t] = "drainSend" /\ sendq > 0
        /\ sendq' = sendq - 1 /\ Goto(t, "drainedSend") /\ UNCHANGED <<recvq, counters, todo>>
     \/ /\ pc[t] = "drainedSend"
        /\ pendSend' = pendSend - 1 /\ Goto(t, "drainSend")
        /\ UNCHANGED <<queues, pendRecv, todo>>
     \/ /\ pc[t] = "drainSend" /\ sendq = 0
        /\ Advance(t) /\ UNCHANGED <<queues, counters>>
  /\ UNCHANGED <<kind, state, flight, port, closed, good, seen>>

OpsOver(t) ==
  /\ pc[t] = "ops" /\ todo[t] = <<>>
  /\ Goto(t, "idle") /\ seen' = [seen EXCEPT ![t] = <<>>]
  /\ UNCHANGED <<kind, state, queues, counters, flight, port, closed, good, todo>>

Operate(t) == Put(t) \/ Count(t) \/ Begin(t) \/ Call(t) \/ Uncount(t) \/ Disconnect(t) \/ Hold(t)
              \/ Post(t) \/ Drain(t) \/ OpsOver(t)

-----------------------------------------------------------------------------
(* svc_worker. *)

\* GetQueuedCompletionStatus: a packet; for one that failed, Disconnect comes first.
Dequeue(w) ==
  /\ pc[w] = "idle" /\ port # <<>>
  /\ seen' = [seen EXCEPT ![w] = Head(port)] /\ port' = Tail(port)
  /\ IF Head(port)[1] = "null" THEN Goto(w, "nullSend") /\ UNCHANGED todo
     ELSE IF Head(port)[2] THEN Goto(w, "handle") /\ UNCHANGED todo
     ELSE /\ todo' = [todo EXCEPT ![w] = <<"disconnect",
                        IF Head(port)[1] = "send" THEN "sent" ELSE "received">>]
          /\ Goto(w, "ops")
  /\ UNCHANGED <<kind, state, queues, counters, flight, closed, good>>

\* Mutant: the operation is counted down before its callback.
HandleCountsFirst(w) ==
  /\ pc[w] = "handle"
  /\ LET uncount == <<IF seen[w][1] = "send" THEN "sent" ELSE "received">> IN
     todo' = [todo EXCEPT ![w] = uncount \o (IF state = "DISCONNECT" THEN <<>>
                                             ELSE Callback(kind, seen[w][1]))]
  /\ Goto(w, "ops")
  /\ UNCHANGED <<kind, state, queues, counters, flight, port, closed, good, seen>>

\* ccc_handle_iocp: the callback and the next request unless the session is disconnected, and at
\* last the operation is counted down.
Handle(w) ==
  /\ pc[w] = "handle"
  /\ LET uncount == <<IF seen[w][1] = "send" THEN "sent" ELSE "received">> IN
     todo' = [todo EXCEPT ![w] = (IF state = "DISCONNECT" THEN <<>> ELSE Callback(kind, seen[w][1]))
                                 \o uncount]
  /\ Goto(w, "ops")
  /\ UNCHANGED <<kind, state, queues, counters, flight, port, closed, good, seen>>

\* The packet of Disconnect: given up when it is the last that is pending, posted again otherwise.
Null(w) ==
  /\ \/ /\ pc[w] = "nullSend"
        /\ Goto(w, IF pendSend = 0 THEN "nullRecv" ELSE "again") /\ UNCHANGED <<counters, port, todo>>
     \/ /\ pc[w] = "nullRecv" /\ pendRecv = 1
        /\ todo' = [todo EXCEPT ![w] = <<"received">>] /\ Goto(w, "ops") /\ UNCHANGED <<counters, port>>
     \/ /\ pc[w] = "nullRecv" /\ pendRecv # 1
        /\ Goto(w, "again") /\ UNCHANGED <<counters, port, todo>>
     \/ /\ pc[w] = "again"
        /\ port' = Append(port, <<"null", TRUE>>)
        /\ Goto(w, "ops") /\ UNCHANGED <<counters, todo>>
  /\ UNCHANGED <<kind, state, queues, flight, closed, good, seen>>

Worker(w) == Operate(w) \/ Dequeue(w) \/ Handle(w) \/ Null(w)

-----------------------------------------------------------------------------
(* svc_checker and the system. *)

\* A timeout disconnects; HasPending reads the counters one after the other; svc_del.
Check ==
  /\ \/ /\ pc["checker"] = "idle" /\ state = "OK" /\ pc["starter"] = "idle"
        /\ todo' = [todo EXCEPT !["checker"] = <<"disconnect">>] /\ Goto("checker", "ops")
        /\ UNCHANGED state
     \/ /\ pc["checker"] = "idle" /\ state = "DISCONNECT" /\ pendRecv = 0
        /\ Goto("checker", "hasPending") /\ UNCHANGED <<state, todo>>
     \/ /\ pc["checker"] = "hasPending"
        /\ state' = IF pendSend = 0 THEN "READY" ELSE state
        /\ Goto("checker", "idle") /\ UNCHANGED todo
  /\ UNCHANGED <<kind, queues, counters, flight, port, closed, good, seen>>

\* An operation is completed: well, or with an error, or as aborted once the socket is closed.
Complete ==
  \E o \in Ops :
    /\ flight[o] > 0 /\ flight' = [flight EXCEPT ![o] = @ - 1]
    /\ \/ /\ ~closed /\ good < MaxData
          /\ good' = good + 1 /\ port' = Append(port, <<o, TRUE>>)
       \/ port' = Append(port, <<o, FALSE>>) /\ UNCHANGED good
    /\ UNCHANGED <<kind, state, queues, counters, closed, pc, todo, seen>>

Next == \/ \E t \in {"starter", "checker"} : Operate(t)
        \/ \E w \in Workers : Worker(w)
        \/ Check \/ Complete

Spec == Init /\ [][Next]_vars

-----------------------------------------------------------------------------
(* Properties. *)

\* What a thread may have to do.
Tasks == {"send", "recv", "accept", "beginSend", "beginRecv", "sent", "received", "disconnect"}

TypeOK == /\ kind \in AllKinds /\ state \in {"OK", "DISCONNECT", "READY"}
          /\ sendq \in Nat /\ recvq \in Nat /\ pendSend \in Int /\ pendRecv \in Int
          /\ flight \in [Ops -> Nat] /\ todo \in [Threads -> Seq(Tasks)]

\* A deleted session has no operation left: none in the hands of the system, no packet of one in
\* the port, no worker in a callback, so that no buffer is written and no method called after the
\* end (HasPending, svc_del).  The packet of Disconnect itself may be left: HasPending reads the
\* counters one after the other, and may read the one before Disconnect counts the packet and the
\* other after the worker that disconnects has counted its operation down.
OperationsEndFirst ==
  state = "READY" => /\ \A o \in Ops : flight[o] = 0
                     /\ \A i \in DOMAIN port : port[i][1] = "null"
                     /\ \A w \in Workers : seen[w] # <<>> /\ seen[w][1] # "null" =>
                                           pc[w] = "ops" /\ todo[w] = <<>>
=============================================================================
