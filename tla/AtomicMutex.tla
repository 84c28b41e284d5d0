----------------------------- MODULE AtomicMutex -----------------------------
(***************************************************************************)
(* AtomicMutex (inc/vhwd/basic/atomic.h): a recursive lock made of one     *)
(* atomic exchange.  A thread whose exchange finds the lock taken compares *)
(* the plain field tid with its own id: equal means it holds the lock      *)
(* already.  The constructor does not set tid, so it starts as whatever    *)
(* the memory held.                                                        *)
(*                                                                         *)
(* One step is one access to val, tid or num.                              *)
(***************************************************************************)
EXTENDS Integers

CONSTANTS Threads,   \* thread ids
          NoId,      \* uintptr_t(-1)
          Garbage,   \* what tid may hold before the first lock
          MaxDepth   \* bound: how often a thread takes the lock without giving it back

\* uintptr_t(-1) is no thread's id, and somebody may take the lock.
MutexAssumption ==
  /\ NoId \notin Threads
  /\ MaxDepth \in Nat \ {0}

VARIABLES val, num, tid,  \* the fields
          pc,             \* where each thread is
          depth           \* how often each thread holds the lock

vars == <<val, num, tid, pc, depth>>

Init ==
  /\ val = 0 /\ num = 0
  /\ tid \in Garbage
  /\ pc = [t \in Threads |-> "idle"]
  /\ depth = [t \in Threads |-> 0]

Goto(t, l) == pc' = [pc EXCEPT ![t] = l]

\* lock() or try_lock() is called; a thread may hold the lock already.
Call(t) ==
  /\ pc[t] = "idle" /\ depth[t] < MaxDepth
  /\ Goto(t, "lock") \/ Goto(t, "trylock")
  /\ UNCHANGED <<val, num, tid, depth>>

\* val.exchange(1)!=0
Exchange(t) ==
  /\ pc[t] \in {"lock", "trylock"}
  /\ val' = 1
  /\ Goto(t, IF val = 0 THEN "assert" ELSE IF pc[t] = "lock" THEN "compare" ELSE "trycompare")
  /\ UNCHANGED <<num, tid, depth>>

\* if(_id==tid): else spin, or return false
Compare(t) ==
  /\ pc[t] \in {"compare", "trycompare"}
  /\ Goto(t, IF tid = t THEN "again" ELSE IF pc[t] = "compare" THEN "lock" ELSE "idle")
  /\ UNCHANGED <<val, num, tid, depth>>

\* ++num; return
Again(t) ==
  /\ pc[t] = "again"
  /\ num' = num + 1
  /\ depth' = [depth EXCEPT ![t] = @ + 1]
  /\ Goto(t, "idle")
  /\ UNCHANGED <<val, tid>>

\* wassert(num==0); num=1;
SetNum(t) ==
  /\ pc[t] = "assert"
  /\ num' = 1
  /\ Goto(t, "own")
  /\ UNCHANGED <<val, tid, depth>>

\* tid=_id; return
SetTid(t) ==
  /\ pc[t] = "own"
  /\ tid' = t
  /\ depth' = [depth EXCEPT ![t] = 1]
  /\ Goto(t, "idle")
  /\ UNCHANGED <<val, num>>

\* unlock(): wassert(tid==thread_id()); if(--num==0)
Unlock(t) ==
  /\ pc[t] = "idle" /\ depth[t] > 0
  /\ num' = num - 1
  /\ depth' = [depth EXCEPT ![t] = @ - 1]
  /\ Goto(t, IF num = 1 THEN "disown" ELSE "idle")
  /\ UNCHANGED <<val, tid>>

\* Mutant: tid is left as it is.
TidStays(t) ==
  /\ pc[t] = "disown"
  /\ Goto(t, "release")
  /\ UNCHANGED <<val, num, tid, depth>>

\* tid=uintptr_t(-1);
ClearTid(t) ==
  /\ pc[t] = "disown"
  /\ tid' = NoId
  /\ Goto(t, "release")
  /\ UNCHANGED <<val, num, depth>>

\* val.exchange(0), wassert(old==1)
Release(t) ==
  /\ pc[t] = "release"
  /\ val' = 0
  /\ Goto(t, "idle")
  /\ UNCHANGED <<num, tid, depth>>

Next == \E t \in Threads :
          \/ Call(t) \/ Exchange(t) \/ Compare(t) \/ Again(t) \/ SetNum(t)
          \/ SetTid(t) \/ Unlock(t) \/ ClearTid(t) \/ Release(t)

Spec == Init /\ [][Next]_vars

-----------------------------------------------------------------------------
(* Properties *)

Labels == {"idle", "lock", "trylock", "compare", "trycompare", "again", "assert", "own",
           "disown", "release"}

\* The values of the fields and of the threads' places.
TypeOK ==
  /\ val \in {0, 1} /\ num \in 0..MaxDepth
  /\ tid \in Threads \cup {NoId} \cup Garbage
  /\ pc \in [Threads -> Labels]
  /\ depth \in [Threads -> 0..MaxDepth]

\* lock() and a successful try_lock() keep every other thread out until unlock().
MutualExclusion ==
  \A t, u \in Threads : depth[t] > 0 /\ depth[u] > 0 => t = u

\* The three wassert()s of AtomicMutex: num is 0 when a thread comes to own the
\* lock, tid is the caller's id in unlock(), val is 1 when the lock is given up.
Asserts ==
  \A t \in Threads :
    /\ pc[t] = "assert" => num = 0
    /\ pc[t] = "idle" /\ depth[t] > 0 => tid = t
    /\ pc[t] = "release" => val = 1

\* The thread that holds val, and how often it holds the lock.
Inside(t) == depth[t] > 0 \/ pc[t] \in {"assert", "own", "disown", "release"}
Owner == IF \E t \in Threads : Inside(t) THEN CHOOSE t \in Threads : Inside(t) ELSE NoId
Depth == IF Owner = NoId THEN 0 ELSE IF num = 0 THEN 1 ELSE num

Lock == INSTANCE RecursiveLock WITH owner <- Owner, depth <- Depth, Nobody <- NoId

\* lock, try_lock and unlock take effect at one instant each, on a recursive lock.
ImplementsLock == Lock!Spec
=============================================================================
