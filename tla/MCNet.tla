-------------------------------- MODULE MCNet --------------------------------
(***************************************************************************)
(* Small instances of SRSW_Queue and of the network modules, checked in    *)
(* one run: which says the part that moves, the others stay as they begin. *)
(* SRSWQueue is extended, the other ones are instances.                    *)
(***************************************************************************)
EXTENDS SRSWQueue

CONSTANTS a, b,                                      \* SRSWQueue
          NoOne, s1, s2,
          Kinds, MaxData, Capacity,                  \* SessionIO
          WinKinds, WinData,                         \* SessionIocp
          Sessions, Slots, MaxRegister, MaxCommands  \* IocpPool

VARIABLES which,
          kind, state, sendq, recvq, pendSend, pendRecv, tmp, registered, interest, armed,
          inbox, arrived, room, link, shut, sent, lpc, todo, back, chunk, mask, evt, q,
          \* the session on Windows
          wkind, wstate, wsendq, wrecvq, wpendSend, wpendRecv, flight, port, closed, good, wpc,
          wtodo, seen,
          \* the pool
          pstate, away, avail, table, count, canClose, cmds, commands, lost, cancelled, ppc, num,
          pregistered, chk, slot, closer

\* s1 is registered again.
TwoAndOne == [s \in Sessions |-> IF s = s1 THEN 2 ELSE 1]

LinuxSession == INSTANCE SessionIO WITH pc <- lpc, None <- NoOne

WindowsSession == INSTANCE SessionIocp
  WITH Workers <- {"worker"}, Kinds <- WinKinds, MaxData <- WinData, kind <- wkind, state <- wstate,
       sendq <- wsendq, recvq <- wrecvq, pendSend <- wpendSend, pendRecv <- wpendRecv,
       pc <- wpc, todo <- wtodo

Pool == INSTANCE IocpPool WITH state <- pstate, pc <- ppc, registered <- pregistered,
                               None <- NoOne

\* There are numbers, and no session or number is the None of the pool.
ASSUME TableAssumption == Pool!PoolAssumption

\* The kinds are known ones, and the bounds are numbers.
ASSUME SessionAssumption ==
  /\ Kinds \subseteq LinuxSession!AllKinds /\ MaxData \in Nat /\ Capacity \in Nat
  /\ WinKinds \subseteq WindowsSession!AllKinds

linuxVars == <<kind, state, sendq, recvq, pendSend, pendRecv, tmp, registered, interest, armed,
               inbox, arrived, room, link, shut, sent, lpc, todo, back, chunk, mask, evt, q>>
windowsVars == <<wkind, wstate, wsendq, wrecvq, wpendSend, wpendRecv, flight, port, closed, good,
                 wpc, wtodo, seen>>
poolVars == <<pstate, away, avail, table, count, canClose, cmds, commands, lost, cancelled, ppc,
              num, pregistered, chk, slot, closer>>
queueVars == <<rd_pos, wr_pos, data, nref, freed, attached, pc, pushing, popped, ret>>
allVars == <<which, queueVars, linuxVars, windowsVars, poolVars>>

AnyInit ==
  /\ which \in {"queue", "linux", "windows", "pool"}
  /\ Init /\ LinuxSession!Init /\ WindowsSession!Init /\ Pool!Init
  /\ which # "queue" => data = [i \in 0..Size-1 |-> a]
  /\ which # "linux" => kind = "echo"
  /\ which # "windows" => wkind = "echo"

Queued(A) == which = "queue" /\ A /\ UNCHANGED <<which, linuxVars, windowsVars, poolVars>>
Linux(A) == which = "linux" /\ A /\ UNCHANGED <<which, queueVars, windowsVars, poolVars>>
Windows(A) == which = "windows" /\ A /\ UNCHANGED <<which, queueVars, linuxVars, poolVars>>
Pooled(A) == which = "pool" /\ A /\ UNCHANGED <<which, queueVars, linuxVars, windowsVars>>

AnyNext == \/ Queued(Next) \/ Linux(LinuxSession!Next)
           \/ Windows(WindowsSession!Next) \/ Pooled(Pool!Next)

\* The fairness of the parts (SRSWQueue!FairSpec, SessionIO!Fairness, IocpPool!Fairness).
AnySpec ==
  /\ AnyInit /\ [][AnyNext]_allVars
  /\ WF_allVars(Queued(Writer)) /\ WF_allVars(Queued(Reader))
  /\ WF_allVars(Linux(LinuxSession!Operate("starter"))) /\ WF_allVars(Linux(LinuxSession!Worker))
  /\ WF_allVars(Linux(LinuxSession!Checker)) /\ WF_allVars(Linux(LinuxSession!PeerReads))
  /\ \A s \in Sessions : WF_allVars(Pooled(ppc[s] # "idle" /\ Pool!Register(s)))
  /\ WF_allVars(Pooled(closer # "idle" /\ Pool!Close)) /\ WF_allVars(Pooled(Pool!Checker))

-----------------------------------------------------------------------------
(* The properties of the instances; those of SRSWQueue have their names. *)

\* SessionIO: what arrives is answered, by HandleRecv, HandleSend and ep_ctl, and a session that
\* is disconnected comes to the end of svc_del.
EchoesFlow == LinuxSession!EchoesFlow /\ LinuxSession!DisconnectEnds

\* SessionIocp: HasPending and svc_del let no operation outlive its session.  The pool has one
\* worker, which is what activate() starts unless told otherwise (iocp1.h:33).
OperationsEndFirst == LinuxSession!TypeOK /\ WindowsSession!TypeOK /\ WindowsSession!OperationsEndFirst

\* IocpPool: Register and svc_del keep each number in one place.
NumbersInOnePlace == Pool!TypeOK /\ Pool!NumbersInOnePlace

\* IocpPool: wait_for_all_session_exit returns.
CloseReturns == Pool!CloseReturns
=============================================================================
