------------------------------ MODULE SessionIO ------------------------------
(***************************************************************************)
(* One session of an IOCPPool on Linux (src/vhwd/net/iocp1.cpp,            *)
(* session*.cpp): its two queues of requests, the counters of what is      *)
(* pending, the interest it announces to epoll, the worker that serves it, *)
(* and Disconnect(), which the worker and the checker call.                *)
(*                                                                         *)
(* The state begins where Register has made the session OK and added it to *)
(* epoll; its callbacks are one of the kinds below.  A step is one access  *)
(* to a counter, a queue or the socket.  The socket is a blocking one:     *)
(* Block(false) clears O_NONBLOCK (socket_impl_linux.h:77-79).             *)
(***************************************************************************)
EXTENDS Integers, Sequences, FiniteSets

CONSTANTS Kinds,     \* kinds of session, out of AllKinds
          MaxData,   \* chunks that the peer sends
          Capacity,  \* chunks that the send buffer of the socket takes
          None       \* no buffer

VARIABLES kind, state,
          sendq, recvq,          \* lkfq_send, lkfq_recv
          pendSend, pendRecv,    \* m_nPendingSend, m_nPendingRecv
          tmp,                   \* tmp_send
          registered, interest, armed,       \* epoll's entry, and whether it is to be reported
          inbox, arrived, room, link, shut,  \* the socket and its peer
          sent,                  \* the chunks given to the socket
          pc, todo, back,        \* a thread: where it is, operations to do, where it goes then
          chunk, mask,           \* what the operations send, and the interest being computed
          evt, q                 \* the worker's event and buffer

queues == <<sendq, recvq>>
counters == <<pendSend, pendRecv>>
epoll == <<registered, interest, armed>>
peer == <<inbox, arrived, room, link>>
threads == <<pc, todo, back, chunk, mask>>
vars == <<kind, state, queues, counters, tmp, epoll, peer, shut, sent, threads, evt, q>>

Threads == {"starter", "worker", "checker"}

AllKinds == {"echo", "client", "pingpong", "udp", "udpclient", "listener"}
IsUdp == kind \in {"udp", "udpclient"}

\* OnConnected, and for the client the command that starts it (test_iocp.cpp, SessionEcho).
Started(k) == CASE k \in {"echo", "pingpong", "udp"} -> <<"recv">>
                [] k = "client" -> <<"send", "recv">>
                [] k = "udpclient" -> <<"send">>
                [] k = "listener" -> <<"wait">>

\* OnRecvCompleted, and OnRecvReady of the listener.
Received(k) == CASE k \in {"echo", "client"} -> <<"send", "recv">>
                 [] k \in {"pingpong", "udp", "udpclient"} -> <<"send">>
                 [] k = "listener" -> <<"wait">>

\* OnSendCompleted.
Sent(k) == IF k \in {"pingpong", "udp", "udpclient"} THEN <<"recv">> ELSE <<>>

Init ==
  /\ kind \in Kinds /\ state = "OK"
  /\ sendq = <<>> /\ recvq = <<>> /\ pendSend = 0 /\ pendRecv = 0 /\ tmp = None
  /\ registered = TRUE /\ interest = {} /\ armed = FALSE
  /\ inbox = <<>> /\ arrived = 0 /\ room = Capacity /\ link = "up" /\ shut = FALSE
  /\ sent = <<>>
  /\ pc = [t \in Threads |-> IF t = "starter" THEN "ops" ELSE "idle"]
  /\ todo = [t \in Threads |-> IF t = "starter" THEN Started(kind) ELSE <<>>]
  /\ back = [t \in Threads |-> "idle"]
  /\ chunk = [t \in Threads |-> 0] /\ mask = [t \in Threads |-> {}]
  /\ evt = {} /\ q = None

Goto(t, l) == pc' = [pc EXCEPT ![t] = l]

-----------------------------------------------------------------------------
(* epoll, edge-triggered: a change that the entry is interested in arms it. *)

Ready ==
  (IF inbox # <<>> \/ link # "up" \/ shut THEN {"in"} ELSE {})
  \union (IF room > 0 \/ link = "reset" \/ shut THEN {"out"} ELSE {})
  \union (IF link = "reset" \/ shut THEN {"hup"} ELSE {})

Wake(events) ==
  armed' = (armed \/ (registered /\ events \intersect (interest \union {"hup"}) # {}))

\* EPOLL_CTL_MOD: the new interest, reported at once when something of it is ready.
Modify(events) ==
  /\ interest' = IF registered THEN events ELSE interest
  /\ armed' = (registered /\ (armed \/ Ready \intersect (events \union {"hup"}) # {}))
  /\ UNCHANGED registered

-----------------------------------------------------------------------------
(* Operations of a thread, from todo. *)

At(t, op) == pc[t] = "ops" /\ todo[t] # <<>> /\ Head(todo[t]) = op

\* The operation is over.
Advance(t) == /\ todo' = [todo EXCEPT ![t] = Tail(@)]
            /\ Goto(t, "ops")

OpsOver(t) ==
  /\ pc[t] = "ops" /\ todo[t] = <<>>
  /\ Goto(t, back[t])
  /\ UNCHANGED <<kind, state, queues, counters, tmp, epoll, peer, shut, sent, todo, back, chunk,
                 mask, evt, q>>

\* AsyncSend: the buffer is queued (lkfq_send.putq).
PutSend(t) ==
  /\ At(t, "send")
  /\ sendq' = Append(sendq, chunk[t])
  /\ Goto(t, "countSend")
  /\ UNCHANGED <<kind, state, recvq, counters, tmp, epoll, peer, shut, sent, todo, back, chunk,
                 mask, evt, q>>

\* AsyncRecv and WaitForRecv (lkfq_recv.putq).
PutRecv(t) ==
  /\ At(t, "recv") \/ At(t, "wait")
  /\ recvq' = Append(recvq, Head(todo[t]))
  /\ Goto(t, "countRecv")
  /\ UNCHANGED <<kind, state, sendq, counters, tmp, epoll, peer, shut, sent, todo, back, chunk,
                 mask, evt, q>>

\* Mutant: the first request does not announce itself when the other side waits already.
CountAloneOnly(t) ==
  /\ \/ /\ pc[t] = "countSend"
        /\ pendSend' = pendSend + 1 /\ UNCHANGED pendRecv
     \/ /\ pc[t] = "countRecv"
        /\ pendRecv' = pendRecv + 1 /\ UNCHANGED pendSend
  /\ IF pendSend + pendRecv = 0
     THEN Goto(t, "ctlSend") /\ UNCHANGED todo
     ELSE Advance(t)
  /\ UNCHANGED <<kind, state, queues, tmp, epoll, peer, shut, sent, back, chunk, mask, evt, q>>

\* if(m_nPendingSend++==0) DoAsyncSend(): the first request calls ep_ctl, the others do not.
Count(t) ==
  /\ \/ /\ pc[t] = "countSend"
        /\ pendSend' = pendSend + 1 /\ UNCHANGED pendRecv
        /\ IF pendSend = 0 THEN Goto(t, "ctlSend") /\ UNCHANGED todo ELSE Advance(t)
     \/ /\ pc[t] = "countRecv"
        /\ pendRecv' = pendRecv + 1 /\ UNCHANGED pendSend
        /\ IF pendRecv = 0 THEN Goto(t, "ctlSend") /\ UNCHANGED todo ELSE Advance(t)
  /\ UNCHANGED <<kind, state, queues, tmp, epoll, peer, shut, sent, back, chunk, mask, evt, q>>

\* ep_ctl: nothing unless the state is OK; EPOLLOUT if a send is pending,
CtlSend(t) ==
  /\ pc[t] = "ctlSend"
  /\ IF state # "OK" THEN Advance(t) ELSE Goto(t, "ctlRecv") /\ UNCHANGED todo
  /\ mask' = [mask EXCEPT ![t] = IF pendSend > 0 THEN {"out"} ELSE {}]
  /\ UNCHANGED <<kind, state, queues, counters, tmp, epoll, peer, shut, sent, back, chunk, evt, q>>

\* EPOLLIN if a receive is pending,
CtlRecv(t) ==
  /\ pc[t] = "ctlRecv"
  /\ mask' = [mask EXCEPT ![t] = IF pendRecv > 0 THEN @ \union {"in"} ELSE @]
  /\ Goto(t, "ctlMod")
  /\ UNCHANGED <<kind, state, queues, counters, tmp, epoll, peer, shut, sent, todo, back, chunk,
                 evt, q>>

\* and EPOLL_CTL_MOD, which fails for a session that was deleted meanwhile and disconnects it.
CtlMod(t) ==
  /\ pc[t] = "ctlMod"
  /\ IF mask[t] = {} THEN Advance(t) /\ UNCHANGED epoll
     ELSE /\ Modify(mask[t])
          /\ IF registered THEN Advance(t)
             ELSE /\ todo' = [todo EXCEPT ![t] = <<"disconnect">> \o Tail(@)]
                  /\ Goto(t, "ops")
  /\ UNCHANGED <<kind, state, queues, counters, tmp, peer, shut, sent, back, chunk, mask, evt, q>>

\* m_nPendingRecv-- and m_nPendingSend-- of the worker.
Done(t) ==
  /\ \/ At(t, "recvdone") /\ pendRecv' = pendRecv - 1 /\ UNCHANGED pendSend
     \/ At(t, "senddone") /\ pendSend' = pendSend - 1 /\ UNCHANGED pendRecv
  /\ Advance(t)
  /\ UNCHANGED <<kind, state, queues, tmp, epoll, peer, shut, sent, back, chunk, mask, evt, q>>

\* Disconnect: the one that changes the state from OK goes on,
Disconnect(t) ==
  /\ At(t, "disconnect")
  /\ IF state = "OK" THEN state' = "DISCONNECT" /\ Goto(t, "shutdown") /\ UNCHANGED todo
     ELSE Advance(t) /\ UNCHANGED state
  /\ UNCHANGED <<kind, queues, counters, tmp, epoll, peer, shut, sent, back, chunk, mask, evt, q>>

\* shuts the socket down,
Shutdown(t) ==
  /\ pc[t] = "shutdown"
  /\ shut' = TRUE /\ Wake({"in", "out", "hup"})
  /\ Goto(t, "drainRecv")
  /\ UNCHANGED <<kind, state, queues, counters, tmp, registered, interest, peer, sent, todo, back,
                 chunk, mask, evt, q>>

\* and takes the requests out of the queues, counting each one down.
Drain(t) ==
  /\ \/ /\ pc[t] = "drainRecv" /\ recvq # <<>>
        /\ recvq' = Tail(recvq) /\ Goto(t, "drainedRecv") /\ UNCHANGED <<sendq, counters, todo>>
     \/ /\ pc[t] = "drainedRecv"
        /\ pendRecv' = pendRecv - 1 /\ Goto(t, "drainRecv")
        /\ UNCHANGED <<queues, pendSend, todo>>
     \/ /\ pc[t] = "drainRecv" /\ recvq = <<>>
        /\ Goto(t, "drainSend") /\ UNCHANGED <<queues, counters, todo>>
     \/ /\ pc[t] = "drainSend" /\ sendq # <<>>
        /\ sendq' = Tail(sendq) /\ Goto(t, "drainedSend") /\ UNCHANGED <<recvq, counters, todo>>
     \/ /\ pc[t] = "drainedSend"
        /\ pendSend' = pendSend - 1 /\ Goto(t, "drainSend")
        /\ UNCHANGED <<queues, pendRecv, todo>>
     \/ /\ pc[t] = "drainSend" /\ sendq = <<>>
        /\ Advance(t) /\ UNCHANGED <<queues, counters>>
  /\ UNCHANGED <<kind, state, tmp, epoll, peer, shut, sent, back, chunk, mask, evt, q>>

Operate(t) ==
  \/ OpsOver(t) \/ PutSend(t) \/ PutRecv(t) \/ Count(t) \/ CtlSend(t) \/ CtlRecv(t) \/ CtlMod(t)
  \/ Done(t) \/ Disconnect(t) \/ Shutdown(t) \/ Drain(t)

-----------------------------------------------------------------------------
(* svc_worker: one event at a time. *)

\* A callback of the worker: operations, and where it goes on then.
Perform(ops, l) == /\ todo' = [todo EXCEPT !["worker"] = ops]
                   /\ back' = [back EXCEPT !["worker"] = l]
                   /\ Goto("worker", "ops")

\* epoll_wait: what is ready when the event is delivered.
Wait ==
  /\ pc["worker"] = "idle" /\ armed /\ registered
  /\ armed' = FALSE
  /\ evt' = Ready \intersect (interest \union {"hup"})
  /\ Goto("worker", IF evt' = {} THEN "idle" ELSE "event")
  /\ UNCHANGED <<kind, state, queues, counters, tmp, registered, interest, peer, shut, sent, todo,
                 back, chunk, mask, q>>

\* EPOLLERR and EPOLLHUP disconnect; EPOLLIN goes before EPOLLOUT.
Event ==
  /\ pc["worker"] = "event"
  /\ IF "hup" \in evt THEN Perform(<<"disconnect">>, "idle")
     ELSE /\ Goto("worker", IF state = "DISCONNECT" THEN "idle"
                            ELSE IF "in" \in evt THEN "recvTest" ELSE "sendTest")
          /\ UNCHANGED <<todo, back>>
  /\ UNCHANGED <<kind, state, queues, counters, tmp, epoll, peer, shut, sent, chunk, mask, evt, q>>

\* HandleRecv: one request of the queue is served per event.
RecvTake ==
  /\ \/ /\ pc["worker"] = "recvTest"
        /\ Goto("worker", IF pendRecv = 0 THEN "idle" ELSE "recvGet") /\ UNCHANGED <<recvq, q>>
     \/ /\ pc["worker"] = "recvGet" /\ recvq = <<>>
        /\ Goto("worker", "idle") /\ UNCHANGED <<recvq, q>>
     \/ /\ pc["worker"] = "recvGet" /\ recvq # <<>>
        /\ q' = Head(recvq) /\ recvq' = Tail(recvq) /\ Goto("worker", "recv")
  /\ UNCHANGED <<kind, state, sendq, counters, tmp, epoll, peer, shut, sent, todo, back, chunk,
                 mask, evt>>

\* Recv, or Accept for a WAIT_RECV request: a chunk, nothing at the end of the stream, an error;
\* it blocks when there is nothing to read.
Recv ==
  /\ pc["worker"] = "recv"
  /\ \/ /\ inbox # <<>> /\ ~shut
        /\ inbox' = Tail(inbox) /\ chunk' = [chunk EXCEPT !["worker"] = Head(inbox)]
        /\ Perform(<<"recvdone">> \o Received(kind), "idle")
     \/ /\ inbox = <<>> \/ shut
        /\ link # "up" \/ shut
        /\ Perform(CASE q = "wait" -> <<"recvdone", "wait">>
                     [] q # "wait" /\ link # "reset" /\ registered -> <<"recvdone">>
                     [] IsUdp -> <<"recvdone", "disconnect">>
                     [] OTHER -> <<"disconnect", "recvdone">>, "idle")
        /\ UNCHANGED <<inbox, chunk>>
  /\ q' = None
  /\ UNCHANGED <<kind, state, queues, counters, tmp, epoll, arrived, room, link, shut, sent, mask,
                 evt>>

\* HandleSend: the buffer that was kept, then those of the queue.
SendTake ==
  /\ \/ /\ pc["worker"] = "sendTest" /\ pendSend = 0
        /\ Goto("worker", "idle") /\ UNCHANGED <<sendq, tmp, q>>
     \/ /\ pc["worker"] = "sendTest" /\ pendSend # 0
        /\ q' = tmp /\ tmp' = None
        /\ Goto("worker", IF tmp = None THEN "sendGet" ELSE "sendIt") /\ UNCHANGED sendq
     \/ /\ pc["worker"] = "sendGet" /\ sendq = <<>>
        /\ Goto("worker", "idle") /\ UNCHANGED <<sendq, tmp, q>>
     \/ /\ pc["worker"] = "sendGet" /\ sendq # <<>>
        /\ q' = Head(sendq) /\ sendq' = Tail(sendq)
        /\ Goto("worker", "sendIt") /\ UNCHANGED tmp
  /\ UNCHANGED <<kind, state, recvq, counters, epoll, peer, shut, sent, todo, back, chunk, mask, evt>>

\* Send takes the buffer whole, blocking while there is no room; an error is 0 for TCP, and the
\* buffer is kept, and -1 for UDP, which disconnects.
Send ==
  /\ pc["worker"] = "sendIt"
  /\ \/ /\ room > 0 /\ ~shut /\ link # "reset"
        /\ room' = room - 1 /\ sent' = Append(sent, q)
        /\ Perform(<<"senddone">> \o Sent(kind), "sendGet")
        /\ UNCHANGED tmp
     \/ /\ shut \/ link = "reset"
        /\ IF IsUdp THEN Perform(<<"disconnect">>, "idle") /\ UNCHANGED tmp
           ELSE tmp' = q /\ Goto("worker", "idle") /\ UNCHANGED <<todo, back>>
        /\ UNCHANGED <<room, sent>>
  /\ q' = None
  /\ UNCHANGED <<kind, state, queues, counters, epoll, inbox, arrived, link, shut, chunk, mask, evt>>

Worker == Wait \/ Event \/ RecvTake \/ Recv \/ SendTake \/ Send \/ Operate("worker")

-----------------------------------------------------------------------------
(* svc_checker: a session whose time is over is disconnected; one that is  *)
(* disconnected is taken out of epoll and closed (svc_del).                *)

TestTimeout ==
  /\ pc["checker"] = "idle" /\ state = "OK"
  /\ todo' = [todo EXCEPT !["checker"] = <<"disconnect">>] /\ Goto("checker", "ops")
  /\ UNCHANGED <<kind, state, queues, counters, tmp, epoll, peer, shut, sent, back, chunk, mask,
                 evt, q>>

Delete ==
  /\ pc["checker"] = "idle" /\ state = "DISCONNECT"
  /\ state' = "READY" /\ registered' = FALSE /\ armed' = FALSE /\ interest' = {} /\ shut' = TRUE
  /\ UNCHANGED <<kind, queues, counters, tmp, peer, sent, threads, evt, q>>

Checker == Delete \/ Operate("checker")

-----------------------------------------------------------------------------
(* The peer and the kernel. *)

Arrive ==
  /\ arrived < MaxData /\ link = "up"
  /\ arrived' = arrived + 1 /\ inbox' = Append(inbox, arrived + 1)
  /\ Wake({"in"})
  /\ UNCHANGED <<kind, state, queues, counters, tmp, registered, interest, room, link, shut, sent,
                 threads, evt, q>>

PeerReads ==
  /\ room = 0 /\ room' = Capacity
  /\ Wake({"out"})
  /\ UNCHANGED <<kind, state, queues, counters, tmp, registered, interest, inbox, arrived, link,
                 shut, sent, threads, evt, q>>

PeerLeaves ==
  /\ kind # "listener"
  /\ link = "up" /\ link' \in {"closed", "reset"}
  /\ Wake(IF link' = "reset" THEN {"in", "out", "hup"} ELSE {"in"})
  /\ UNCHANGED <<kind, state, queues, counters, tmp, registered, interest, inbox, arrived, room,
                 shut, sent, threads, evt, q>>

Finished == state = "READY" /\ \A t \in Threads : pc[t] = "idle"

Next == \/ Operate("starter") \/ Worker \/ Checker \/ TestTimeout
        \/ Arrive \/ PeerReads \/ PeerLeaves

\* The threads go on, and the peer reads what it is sent; nobody has to send, to leave or to wait
\* for the timeout.
Fairness == /\ WF_vars(Operate("starter")) /\ WF_vars(Worker) /\ WF_vars(Checker)
            /\ WF_vars(PeerReads)

Spec == Init /\ [][Next]_vars /\ Fairness

-----------------------------------------------------------------------------
(* Properties. *)

Buffers == 0..MaxData

TypeOK ==
  /\ kind \in AllKinds /\ state \in {"OK", "DISCONNECT", "READY"}
  /\ sendq \in Seq(Buffers) /\ recvq \in Seq({"recv", "wait"})
  /\ pendSend \in Int /\ pendRecv \in Int /\ tmp \in Buffers \union {None}
  /\ interest \subseteq {"in", "out"} /\ room \in 0..Capacity
  /\ link \in {"up", "closed", "reset"}

\* Every chunk that arrives is answered, by the echo, or the connection, while it lives, was taken
\* down by somebody: an edge-triggered event that is consumed for reading never leaves the other
\* side, or a second chunk, waiting for good (HandleRecv, HandleSend, ep_ctl).
EchoesFlow ==
  []<>(\A k \in 1..arrived :
         \/ \E i \in DOMAIN sent : sent[i] = k
         \/ kind = "listener" /\ \A i \in DOMAIN inbox : inbox[i] # k
         \/ state # "OK" \/ link # "up")

\* A session that was disconnected, which never is OK again, is closed, and its worker comes back
\* from it (Disconnect, svc_del).
DisconnectEnds == []<>(state = "OK" \/ Finished)
=============================================================================
