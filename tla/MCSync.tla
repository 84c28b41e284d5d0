------------------------------- MODULE MCSync -------------------------------
(***************************************************************************)
(* Small instances of Event, of AtomicMutex, of Coroutine and of gc_ptr,   *)
(* checked in one run: which says the part that moves, the others stay as  *)
(* they begin.  Event is extended, the other ones are instances.           *)
(***************************************************************************)
EXTENDS Event

CONSTANTS s1, s2, w1, w2,        \* setters and waiters
          Lockers, NoId, Garbage, MaxDepth,  \* AtomicMutex
          t1, t2, c1, c2, x, Nil,  \* threads, coroutines, what a yield passes on
          h1, h2, o1, o2, o3, MayFail, Nested, None  \* GcPtr

VARIABLES which,
          val, num, tid, mpc, depth,  \* AtomicMutex
          m_nState, extra, stack, m_pThisRoutine, m_pLastRoutine, m_pVoidRoutine, cpc, on, callee,
          spawning, sent,        \* Coroutine
          list, next, ptr, links, tags, gmutex, at, new, pending, todo, moved  \* GcPtr

Mutex == INSTANCE AtomicMutex WITH Threads <- Lockers, pc <- mpc

ASSUME LockAssumption == Mutex!MutexAssumption

\* Each coroutine is spawned by one thread; both threads yield to both.
OneSpawner == [c \in {c1, c2} |-> IF c = c1 THEN {t1} ELSE {t2}]

Routine == INSTANCE Coroutine
  WITH Threads <- {t1, t2}, Routines <- {c1, c2}, Spawner <- OneSpawner, Extras <- {Nil, x},
       pc <- cpc

ASSUME RoutineAssumption == Routine!CoroutineAssumption

\* One thread has two gc_ptrs, enough for a chain of three objects; the other one only collects.
BothOfOne == [t \in {t1, t2} |-> IF t = t1 THEN {h1, h2} ELSE {}]

Collector == INSTANCE GcPtr
  WITH Threads <- {t1, t2}, Objects <- {o1, o2, o3}, Handles <- BothOfOne, mutex <- gmutex

ASSUME CollectorAssumption == Collector!GcAssumption

eventVars == <<m_nValue, mutex, now, pc, ms, deadline, start, seen, answer>>
lockVars == <<val, num, tid, mpc, depth>>
routineVars == <<m_nState, extra, stack, m_pThisRoutine, m_pLastRoutine, m_pVoidRoutine, cpc, on,
                 callee, spawning, sent>>
gcVars == <<list, next, ptr, links, tags, gmutex, at, new, pending, todo, moved>>
allVars == <<which, eventVars, lockVars, routineVars, gcVars>>

AnyInit ==
  /\ which \in {"event", "mutex", "routine", "gc"}
  /\ Init /\ Mutex!Init /\ Routine!Init /\ Collector!Init
  /\ which # "mutex" => tid = CHOOSE i \in Garbage : TRUE

Events(A) == which = "event" /\ A /\ UNCHANGED <<which, lockVars, routineVars, gcVars>>
Locks(A) == which = "mutex" /\ A /\ UNCHANGED <<which, eventVars, routineVars, gcVars>>
Swaps(A) == which = "routine" /\ A /\ UNCHANGED <<which, eventVars, lockVars, gcVars>>
Collects(A) == which = "gc" /\ A /\ UNCHANGED <<which, eventVars, lockVars, routineVars>>

\* Where nobody can go on after an exception in gc(), only the collection stops.
AnyNext == \/ Events(Next) \/ Locks(Mutex!Next) \/ Swaps(Routine!Next)
           \/ Collects(Collector!Next \/ UNCHANGED gcVars)

\* The fairness of Event (FairSpec).
AnySpec == /\ AnyInit /\ [][AnyNext]_allVars
           /\ \A s \in Setters : SF_allVars(Events(SetStep(s)))
           /\ \A w \in Waiters : SF_allVars(Events(WaitStep(w)))

-----------------------------------------------------------------------------
(* The properties of the instances; those of Event have their names. *)

\* AtomicMutex: lock, try_lock and unlock take effect at one instant each, on a recursive lock.
ImplementsLock == Mutex!ImplementsLock

\* Coroutine: no stack is used by two threads, a swap goes to a stack that has been saved, and the
\* states of the coroutines and the assertions of yield() agree with that.  spawn() keeps the stack
\* that there is.
SwapsToSavedStack ==
  /\ [](/\ Routine!TypeOK /\ Routine!StackInUseOnce
        /\ Routine!SwapsToSavedStack /\ Routine!StatesAgree /\ Routine!YieldAsserts)
  /\ Routine!StackKept

\* Coroutine: what a yield passes on arrives.
ExtraDelivered == Routine!ExtraDelivered

\* GcPtr: gc() destroys what cannot be reached, and nothing else.
KeepsExactlyReachable ==
  [](which = "gc" => Collector!TypeOK) /\ [][which = "gc" => Collector!Keeps]_gcVars
=============================================================================
