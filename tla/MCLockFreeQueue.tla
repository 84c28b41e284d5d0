--------------------------- MODULE MCLockFreeQueue ---------------------------
(***************************************************************************)
(* Small instances of LockFreeQueue: one whose callers move batches and    *)
(* rewind, and, in the same run, a second one whose callers may die in a   *)
(* call.  which says the one that moves, the other stays as it begins.     *)
(***************************************************************************)
EXTENDS LockFreeQueue

CONSTANTS a, b,            \* elements
          g1, g2, p1, p2,  \* getters and putters
          Parts            \* the queues that are checked

VARIABLES which,
          \* the second queue
          chead, crear, ckey, cflags, cbuffer, cpc, creq, cat, ccnt, ctmp, cret, ccrashed

Req(op, batch, n) == [op |-> op, n |-> n, batch |-> batch]

Gets == {Req("getq", <<>>, 1)}
BatchGets == {Req("getn", <<>>, 2)}
Puts == {Req("putq", <<v>>, 1) : v \in Values}
BatchPuts == {Req("putn", <<b, a, b>>, 3)}
Rewinds == {Req("rewind", <<>>, 0)}

\* One thread gets, one puts in batches; the third one puts single elements, and
\* rewinds.
MixedCalls ==
  [t \in Threads |-> CASE t = g1 -> Gets \cup BatchGets
                       [] t = p1 -> BatchPuts
                       [] OTHER -> Rewinds \cup {Req("putq", <<a>>, 1)}]
\* A batch putter that may not fit beside single callers.
LeakCalls ==
  [t \in Threads |-> CASE t = g1 -> Gets
                       [] t = p1 -> BatchPuts
                       [] OTHER -> Puts]

-----------------------------------------------------------------------------
(* The queue whose callers may die: two getters, and a putter whose batch may not fit. *)

CrashThreads == {g1, g2, p1}

CrashCalls ==
  [t \in CrashThreads |-> IF t = p1 THEN {Req("putq", <<a>>, 1), Req("putn", <<a, a>>, 2)}
                          ELSE Gets]

Crashing == INSTANCE LockFreeQueue
  WITH Threads <- CrashThreads, Values <- {a}, CtorFlags <- {},
       Residue <- {{}, {"NONBLOCK", "TIMEOUT"}}, Calls <- CrashCalls, MaxCrash <- 1,
       head <- chead, rear <- crear, key <- ckey, flags <- cflags, buffer <- cbuffer, pc <- cpc,
       req <- creq, at <- cat, cnt <- ccnt, tmp <- ctmp, ret <- cret, crashed <- ccrashed

crashVars == <<chead, crear, ckey, cflags, cbuffer, cpc, creq, cat, ccnt, ctmp, cret, ccrashed>>
allVars == <<which, vars, crashVars>>

AnyInit ==
  /\ which \in Parts
  /\ Init /\ Crashing!Init
  /\ which # "mixed" => buffer = [i \in 0..Cap-1 |-> a] /\ flags = CtorFlags
  /\ which # "crashing" => cflags = {}

Mixed(A) == which = "mixed" /\ A /\ UNCHANGED <<which, crashVars>>
Dying(A) == which = "crashing" /\ A /\ UNCHANGED <<which, vars>>

AnyNext == Mixed(Next) \/ Dying(Crashing!Next)

\* The fairness of the second queue (LockFreeQueue!FairSpec): a thread has one of the two to
\* do, and keeps it until it does it or dies.
AnySpec ==
  /\ AnyInit /\ [][AnyNext]_allVars
  /\ \A t \in CrashThreads : WF_allVars(Dying(Crashing!Step(t) \/ Crashing!Begin(t)))

\* Calls on the second queue go on on each side until its key is lost, and with
\* QUEUE_TIMEOUT also then (lockfree_queue.h:395-404).
SidesAdvance == Crashing!SideAdvances
=============================================================================
