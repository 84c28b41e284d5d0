------------------------------ MODULE IocpPool -------------------------------
(***************************************************************************)
(* The table of sessions of an IOCPPool (src/vhwd/net/iocp1.cpp): the      *)
(* numbers that Register takes and svc_del gives back, the states of the   *)
(* sessions, the commands, the count of sessions and the event that        *)
(* wait_for_all_session_exit waits for, and the end of the pool.  What a   *)
(* session does with its socket is SessionIO.                              *)
(*                                                                         *)
(* Every session s has an owner that registers it, MaxRegister[s] times at *)
(* most, again only after OnDisconnected; anybody may disconnect a session;*)
(* one checker; one closer, which calls wait_for_all_session_exit.         *)
(***************************************************************************)
EXTENDS Integers, Sequences, FiniteSets

CONSTANTS Sessions,
          Slots,        \* numbers of the table, 1..m_nSessionMax-1
          MaxRegister,  \* bound, of each session
          MaxCommands,  \* calls of DisconnectAll by the user
          None

VARIABLES state,                    \* of the sessions
          away,                     \* sessions whose owner saw OnDisconnected, or never registered
          avail, table,             \* m_lkfqSessionAvailable, m_aSessions
          count, canClose,          \* nSessionCount, m_nCanClose
          cmds, commands,           \* m_lkfqCommand; how many calls there were
          lost,                     \* numbers that a failed registration did not give back
          cancelled,                \* m_nState is STATE_CANCEL
          pc, num,                  \* an owner: where it is, its number
          registered,               \* how often a session was registered
          chk, slot,                \* the checker: where it is, the index of its loop
          closer                    \* the closer

\* At least one number, and None is none.
PoolAssumption ==
  /\ \E max \in Slots : max \in Nat \ {0} /\ Slots = 1..max
  /\ None \notin Sessions \union Slots

owners == <<away, pc, num, registered>>
vars == <<state, owners, avail, table, count, canClose, cmds, commands, lost, cancelled, chk, slot,
          closer>>

First == CHOOSE n \in Slots : \A m \in Slots : n <= m

Init ==
  /\ state = [s \in Sessions |-> "READY"] /\ away = Sessions
  /\ avail = [i \in Slots |-> i] /\ table = [n \in Slots |-> None]
  /\ count = 0 /\ canClose = TRUE
  /\ cmds = 0 /\ commands = 0 /\ lost = {} /\ cancelled = FALSE
  /\ pc = [s \in Sessions |-> "idle"] /\ num = [s \in Sessions |-> None]
  /\ registered = [s \in Sessions |-> 0]
  /\ chk = "check" /\ slot = First /\ closer = "idle"

Goto(s, l) == pc' = [pc EXCEPT ![s] = l]

-----------------------------------------------------------------------------
(* Register, by the owner of the session. *)

\* A session that is READY, and a number; -1 without one.
Take(s) ==
  /\ pc[s] = "idle" /\ s \in away /\ registered[s] < MaxRegister[s] /\ state[s] = "READY"
  /\ registered' = [registered EXCEPT ![s] = @ + 1]
  /\ IF avail = <<>> THEN UNCHANGED <<avail, num, pc, away>>
     ELSE /\ num' = [num EXCEPT ![s] = Head(avail)] /\ avail' = Tail(avail)
          /\ Goto(s, "inuse") /\ away' = away \ {s}
  /\ UNCHANGED <<state, table, count, canClose, cmds, commands, lost, cancelled, chk, slot, closer>>

\* "Session[%d]is in use???": -1, and the number is not given back.
InUse(s) ==
  /\ pc[s] = "inuse"
  /\ IF table[num[s]] # None
     THEN /\ Goto(s, "idle") /\ lost' = lost \union {num[s]} /\ num' = [num EXCEPT ![s] = None]
          /\ away' = away \union {s}
     ELSE Goto(s, "open") /\ UNCHANGED <<lost, num, away>>
  /\ UNCHANGED <<state, registered, avail, table, count, canClose, cmds, commands, cancelled, chk,
                 slot, closer>>

\* The session is OK before epoll knows it.
Open(s) ==
  /\ pc[s] = "open"
  /\ state' = [state EXCEPT ![s] = "OK"] /\ Goto(s, "add")
  /\ UNCHANGED <<away, num, registered, avail, table, count, canClose, cmds, commands, lost,
                 cancelled, chk, slot, closer>>

\* EPOLL_CTL_ADD, which may fail: READY again, -1, the number is not given back.
Add(s) ==
  /\ pc[s] = "add"
  /\ \/ Goto(s, "count") /\ UNCHANGED <<state, lost, num, away>>
     \/ /\ state' = [state EXCEPT ![s] = "READY"] /\ Goto(s, "idle")
        /\ lost' = lost \union {num[s]} /\ num' = [num EXCEPT ![s] = None]
        /\ away' = away \union {s}
  /\ UNCHANGED <<registered, avail, table, count, canClose, cmds, commands, cancelled, chk, slot,
                 closer>>

\* if(accounter.nSessionCount++==0)
Count(s) ==
  /\ pc[s] = "count"
  /\ count' = count + 1 /\ Goto(s, IF count = 0 THEN "reset" ELSE "insert")
  /\ UNCHANGED <<state, away, num, registered, avail, table, canClose, cmds, commands, lost,
                 cancelled, chk, slot, closer>>

\* m_nCanClose.reset();
Reset(s) ==
  /\ pc[s] = "reset"
  /\ canClose' = FALSE /\ Goto(s, "insert")
  /\ UNCHANGED <<state, away, num, registered, avail, table, count, cmds, commands, lost, cancelled,
                 chk, slot, closer>>

\* m_aSessions[n].swap(h); then OnConnected.
Insert(s) ==
  /\ pc[s] = "insert"
  /\ table' = [table EXCEPT ![num[s]] = s]
  /\ num' = [num EXCEPT ![s] = None] /\ Goto(s, "idle")
  /\ UNCHANGED <<state, away, registered, avail, count, canClose, cmds, commands, lost, cancelled,
                 chk, slot, closer>>

Register(s) == Take(s) \/ InUse(s) \/ Open(s) \/ Add(s) \/ Count(s) \/ Reset(s) \/ Insert(s)

-----------------------------------------------------------------------------
(* Other threads. *)

\* Session::Disconnect, by the worker or by the user: OK becomes DISCONNECT.
Disconnect(s) ==
  /\ state[s] = "OK"
  /\ state' = [state EXCEPT ![s] = "DISCONNECT"]
  /\ UNCHANGED <<owners, avail, table, count, canClose, cmds, commands, lost, cancelled, chk, slot,
                 closer>>

\* DisconnectAll(): a command for the checker.
DisconnectAll ==
  /\ commands < MaxCommands
  /\ cmds' = cmds + 1 /\ commands' = commands + 1
  /\ UNCHANGED <<state, owners, avail, table, count, canClose, lost, cancelled, chk, slot, closer>>

\* wait_for_all_session_exit: the event, then reqexit (a last command, then the cancellation), then
\* the end of the threads.
Close ==
  /\ \/ closer = "idle" /\ closer' = "waiting" /\ UNCHANGED <<cmds, cancelled>>
     \/ closer = "waiting" /\ canClose /\ closer' = "command" /\ UNCHANGED <<cmds, cancelled>>
     \/ closer = "command" /\ cmds' = cmds + 1 /\ closer' = "cancel" /\ UNCHANGED cancelled
     \/ closer = "cancel" /\ cancelled' = TRUE /\ closer' = "joining" /\ UNCHANGED cmds
     \/ closer = "joining" /\ chk = "over" /\ closer' = "done" /\ UNCHANGED <<cmds, cancelled>>
  /\ UNCHANGED <<state, owners, avail, table, count, canClose, commands, lost, chk, slot>>

-----------------------------------------------------------------------------
(* svc_checker. *)

\* The next session of ccc_handle_sock, or the commands.
Advance == IF slot + 1 \in Slots THEN slot' = slot + 1 /\ chk' = "look"
           ELSE slot' = First /\ chk' = "execute"

\* while(!test_destroy())
Check ==
  /\ chk = "check"
  /\ chk' = IF cancelled THEN "discard" ELSE "look"
  /\ UNCHANGED <<state, owners, avail, table, count, canClose, cmds, commands, lost, cancelled, slot,
                 closer>>

\* A session that is OK may be over its time and is disconnected; one that is DISCONNECT, and has
\* nothing pending, is deleted; an empty place is passed over.
Look ==
  /\ chk = "look"
  /\ LET s == table[slot] IN
     \/ /\ s = None
        /\ Advance /\ UNCHANGED state
     \/ /\ s # None /\ state[s] = "OK"
        /\ Advance /\ state' \in {state, [state EXCEPT ![s] = "DISCONNECT"]}
     \/ /\ s # None /\ state[s] = "DISCONNECT"
        /\ chk' = "del" /\ UNCHANGED <<state, slot>>
     \/ /\ s # None /\ state[s] = "READY"
        /\ Advance /\ UNCHANGED state
  /\ UNCHANGED <<owners, avail, table, count, canClose, cmds, commands, lost, cancelled, closer>>

\* svc_del: EPOLL_CTL_DEL, READY, the socket is closed,
DelState ==
  /\ chk = "del"
  /\ state' = [state EXCEPT ![table[slot]] = "READY"] /\ chk' = "delTold"
  /\ UNCHANGED <<owners, avail, table, count, canClose, cmds, commands, lost, cancelled, slot, closer>>

\* OnDisconnected,
DelTold ==
  /\ chk = "delTold"
  /\ away' = away \union {table[slot]} /\ chk' = "delTable"
  /\ UNCHANGED <<state, pc, num, registered, avail, table, count, canClose, cmds, commands, lost,
                 cancelled, slot, closer>>

\* Mutant: the place keeps the session.
DelTableKeeps ==
  /\ chk = "delTable" /\ chk' = "delPut"
  /\ UNCHANGED <<state, owners, avail, table, count, canClose, cmds, commands, lost, cancelled, slot,
                 closer>>

\* the place is emptied,
DelTable ==
  /\ chk = "delTable"
  /\ table' = [table EXCEPT ![slot] = None] /\ chk' = "delPut"
  /\ UNCHANGED <<state, owners, avail, count, canClose, cmds, commands, lost, cancelled, slot, closer>>

\* the number given back,
DelPut ==
  /\ chk = "delPut"
  /\ avail' = Append(avail, slot) /\ chk' = "delCount"
  /\ UNCHANGED <<state, owners, table, count, canClose, cmds, commands, lost, cancelled, slot, closer>>

\* Mutant: the count is compared before it goes down.
DelCountBefore ==
  /\ chk = "delCount"
  /\ count' = count - 1
  /\ IF count = 0 THEN chk' = "delSet" /\ UNCHANGED slot ELSE Advance
  /\ UNCHANGED <<state, owners, avail, table, canClose, cmds, commands, lost, cancelled, closer>>

\* if(--accounter.nSessionCount==0)
DelCount ==
  /\ chk = "delCount"
  /\ count' = count - 1
  /\ IF count = 1 THEN chk' = "delSet" /\ UNCHANGED slot ELSE Advance
  /\ UNCHANGED <<state, owners, avail, table, canClose, cmds, commands, lost, cancelled, closer>>

\* m_nCanClose.set();
DelSet ==
  /\ chk = "delSet"
  /\ canClose' = TRUE /\ Advance
  /\ UNCHANGED <<state, owners, avail, table, count, cmds, commands, lost, cancelled, closer>>

\* ccc_execute_cmd: DisconnectAll over the table, command by command.
Execute ==
  /\ chk = "execute"
  /\ IF cmds = 0 THEN chk' = "check" /\ UNCHANGED <<cmds, state>>
     ELSE /\ cmds' = cmds - 1 /\ UNCHANGED chk
          /\ state' = [s \in Sessions |->
                        IF state[s] = "OK" /\ \E n \in Slots : table[n] = s THEN "DISCONNECT"
                        ELSE state[s]]
  /\ UNCHANGED <<owners, avail, table, count, canClose, commands, lost, cancelled, slot, closer>>

\* while(m_lkfqCommand.getq());
Discard ==
  /\ chk = "discard"
  /\ cmds' = 0 /\ chk' = "over"
  /\ UNCHANGED <<state, owners, avail, table, count, canClose, commands, lost, cancelled, slot, closer>>

Checker == Check \/ Look \/ DelState \/ DelTold \/ DelTable \/ DelPut \/ DelCount \/ DelSet
           \/ Execute \/ Discard

Next == \/ \E s \in Sessions : Register(s) \/ Disconnect(s)
        \/ DisconnectAll \/ Close \/ Checker

\* The checker goes on, and so do calls that have begun.
Fairness == /\ \A s \in Sessions : WF_vars(pc[s] # "idle" /\ Register(s))
            /\ WF_vars(closer # "idle" /\ Close) /\ WF_vars(Checker)

Spec == Init /\ [][Next]_vars /\ Fairness

-----------------------------------------------------------------------------
(* Properties. *)

TypeOK ==
  /\ state \in [Sessions -> {"READY", "OK", "DISCONNECT"}]
  /\ avail \in Seq(Slots) /\ table \in [Slots -> Sessions \union {None}]
  /\ num \in [Sessions -> Slots \union {None}] /\ count \in Int /\ lost \subseteq Slots

\* Where a number is: free, taken by a Register that runs, in the table (or in the hands of
\* svc_del), or lost.
Places(n) ==
  Cardinality({i \in DOMAIN avail : avail[i] = n}) + Cardinality({s \in Sessions : num[s] = n})
  + (IF table[n] # None \/ (chk = "delPut" /\ slot = n) THEN 1 ELSE 0)
  + (IF n \in lost THEN 1 ELSE 0)

\* A number is in one place: no two sessions get the same one, and "in use???" is never logged
\* (Register, svc_del).
NumbersInOnePlace == \A n \in Slots : Places(n) = 1

\* wait_for_all_session_exit returns once no session is connected any more: the event of the last
\* one that leaves is not lost to a Register that counts at the same time (Register, svc_del).  And
\* the end of the pool, which follows, is reached.
CloseReturns == []<>(closer \in {"idle", "done"} \/ \E s \in Sessions : state[s] = "OK")
=============================================================================
