-------------------------------- MODULE Event --------------------------------
(***************************************************************************)
(* Event (src/vhwd/threading/thread_mutex.cpp, the build without Windows): *)
(* a flag with a mutex and a condition variable, and the timed wait it     *)
(* shares with Thread (thread_impl_pthread.h).                             *)
(*                                                                         *)
(* set() and the waits look at the flag without the mutex first; reset()   *)
(* never takes it.  One step is one access to the flag, or the time from   *)
(* an access to the next one inside the mutex.                             *)
(***************************************************************************)
EXTENDS Integers

CONSTANTS Setters, Waiters,  \* threads that call set() and reset(), threads that wait
          Timeouts,          \* arguments of wait_for, in ticks of the clock
          Second,            \* ticks in a second
          MaxNow,            \* bound: how long the clock runs
          Spurious           \* whether pthread_cond_wait may return without a signal

Threads == Setters \cup Waiters

ASSUME EventAssumption ==
  /\ Setters \cap Waiters = {}
  /\ Timeouts \subseteq Nat \ {0}
  /\ Second \in Nat \ {0} /\ MaxNow \in Nat
  /\ Spurious \in BOOLEAN

VARIABLES m_nValue,
          mutex,           \* the holder of m_tMutex, {} or a singleton
          now,             \* the clock
          pc,              \* where each thread is
          ms, deadline,    \* wait_for's argument (0 for wait) and its timespec
          start,           \* when the wait began
          seen,            \* whether the event has been set since the wait began
          answer           \* what a wait returns; wait() itself always TRUE

vars == <<m_nValue, mutex, now, pc, ms, deadline, start, seen, answer>>

timing == <<now, ms, deadline, start>>

Init ==
  /\ m_nValue = 0 /\ mutex = {} /\ now = 0
  /\ pc = [t \in Threads |-> "idle"]
  /\ ms = [w \in Waiters |-> 0]
  /\ deadline = [w \in Waiters |-> 0]
  /\ start = [w \in Waiters |-> 0]
  /\ seen = [w \in Waiters |-> FALSE]
  /\ answer = [w \in Waiters |-> FALSE]

Goto(t, l) == pc' = [pc EXCEPT ![t] = l]

\* LockGuard<Mutex>
Lock(t) == mutex = {} /\ mutex' = {t}
Unlock == mutex' = {}

-----------------------------------------------------------------------------
(* set, reset *)

\* if(m_nValue.get()!=0) return;
SetTest(s) ==
  /\ pc[s] = "idle" /\ m_nValue = 0
  /\ Goto(s, "lock")
  /\ UNCHANGED <<m_nValue, mutex, timing, seen, answer>>

\* LockGuard, m_nValue.store(1)
SetStore(s) ==
  /\ pc[s] = "lock"
  /\ Lock(s)
  /\ m_nValue' = 1
  /\ seen' = [w \in Waiters |-> TRUE]
  /\ Goto(s, "notify")
  /\ UNCHANGED <<timing, answer>>

\* Mutant: only one waiter is signalled.
SetNotifyOne(s) ==
  /\ pc[s] = "notify"
  /\ LET asleep == {w \in Waiters : pc[w] = "sleep"} IN
     pc' = [t \in Threads |-> IF t = s THEN "idle"
                              ELSE IF asleep # {} /\ t = CHOOSE w \in asleep : TRUE
                              THEN "woken" ELSE pc[t]]
  /\ Unlock
  /\ UNCHANGED <<m_nValue, timing, seen, answer>>

\* m_tCond.notify_all()
SetNotify(s) ==
  /\ pc[s] = "notify"
  /\ pc' = [t \in Threads |-> IF t = s THEN "idle"
                              ELSE IF pc[t] = "sleep" THEN "woken" ELSE pc[t]]
  /\ Unlock
  /\ UNCHANGED <<m_nValue, timing, seen, answer>>

\* m_nValue.store(0)
Reset(s) ==
  /\ pc[s] = "idle" /\ m_nValue = 1
  /\ m_nValue' = 0
  /\ UNCHANGED <<mutex, pc, timing, seen, answer>>

-----------------------------------------------------------------------------
(* wait, wait_for *)

\* Mutant: the seconds of ms are left out as well.
RelativeFraction(n) == (now \div Second) * Second + (n % Second)

\* relative(ts,ms): the seconds of the clock plus ms, without the fraction of a
\* second that the clock has.
Relative(n) == ((now \div Second) + (n \div Second)) * Second + (n % Second)

\* if(m_nValue.get()!=0) return;
WaitTest(w, n) ==
  /\ pc[w] = "idle"
  /\ ms' = [ms EXCEPT ![w] = n]
  /\ start' = [start EXCEPT ![w] = now]
  /\ seen' = [seen EXCEPT ![w] = m_nValue # 0]
  /\ answer' = [answer EXCEPT ![w] = m_nValue # 0]
  /\ Goto(w, IF m_nValue # 0 THEN "return" ELSE "lock")
  /\ UNCHANGED <<m_nValue, mutex, now, deadline>>

\* Mutant: the flag is not looked at again under the mutex.
WaitUnconditionally(w) ==
  /\ pc[w] = "lock" /\ mutex = {}
  /\ Goto(w, "sleep")
  /\ deadline' = [deadline EXCEPT ![w] = IF ms[w] = 0 THEN 0 ELSE Relative(ms[w])]
  /\ UNCHANGED <<m_nValue, mutex, now, ms, start, seen, answer>>

\* LockGuard, if(m_nValue.get()==0) m_tCond.wait(m_tMutex), which releases it
WaitSleep(w) ==
  /\ pc[w] = "lock" /\ mutex = {}
  /\ IF m_nValue # 0
     THEN Goto(w, "woken") /\ UNCHANGED deadline
     ELSE /\ Goto(w, "sleep")
          /\ deadline' = [deadline EXCEPT ![w] = IF ms[w] = 0 THEN 0 ELSE Relative(ms[w])]
  /\ UNCHANGED <<m_nValue, mutex, now, ms, start, seen, answer>>

\* pthread_cond_timedwait gives up.
WaitTimesOut(w) ==
  /\ pc[w] = "sleep" /\ ms[w] > 0 /\ now >= deadline[w]
  /\ Goto(w, "expired")
  /\ UNCHANGED <<m_nValue, mutex, timing, seen, answer>>

WaitWakesByItself(w) ==
  /\ Spurious /\ pc[w] = "sleep"
  /\ Goto(w, "woken")
  /\ UNCHANGED <<m_nValue, mutex, timing, seen, answer>>

\* wait() returns; wait_for() returns m_nValue.get()!=0
WaitEnd(w) ==
  /\ pc[w] \in {"woken", "expired"} /\ mutex = {}
  /\ answer' = [answer EXCEPT ![w] = ms[w] = 0 \/ m_nValue # 0]
  /\ Goto(w, "return")
  /\ UNCHANGED <<m_nValue, mutex, timing, seen>>

WaitReturn(w) ==
  /\ pc[w] = "return"
  /\ Goto(w, "idle")
  /\ ms' = [ms EXCEPT ![w] = 0]
  /\ deadline' = [deadline EXCEPT ![w] = 0]
  /\ start' = [start EXCEPT ![w] = 0]
  /\ seen' = [seen EXCEPT ![w] = FALSE]
  /\ answer' = [answer EXCEPT ![w] = FALSE]
  /\ UNCHANGED <<m_nValue, mutex, now>>

Tick ==
  /\ now < MaxNow
  /\ now' = now + 1
  /\ UNCHANGED <<m_nValue, mutex, pc, ms, deadline, start, seen, answer>>

-----------------------------------------------------------------------------

SetStep(s) == SetStore(s) \/ SetNotify(s)
WaitStep(w) == WaitSleep(w) \/ WaitTimesOut(w) \/ WaitEnd(w) \/ WaitReturn(w)

Next ==
  \/ \E s \in Setters : SetTest(s) \/ SetStep(s) \/ Reset(s)
  \/ \E w \in Waiters : \/ \E n \in Timeouts \cup {0} : WaitTest(w, n)
                        \/ WaitStep(w) \/ WaitWakesByItself(w)
  \/ Tick

Spec == Init /\ [][Next]_vars

\* Threads inside a call run on; the mutex is handed to each that keeps asking.
FairSpec ==
  /\ Spec
  /\ \A s \in Setters : SF_vars(SetStep(s))
  /\ \A w \in Waiters : SF_vars(WaitStep(w))

-----------------------------------------------------------------------------
(* Properties *)

\* The values of the fields and of the threads' places.
TypeOK ==
  /\ m_nValue \in {0, 1}
  /\ mutex \in {{}} \cup {{s} : s \in Setters}
  /\ now \in 0..MaxNow
  /\ pc \in [Threads -> {"idle", "lock", "notify", "sleep", "woken", "expired", "return"}]
  /\ ms \in [Waiters -> Timeouts \cup {0}]
  /\ deadline \in [Waiters -> Nat] /\ start \in [Waiters -> 0..MaxNow]
  /\ seen \in [Waiters -> BOOLEAN] /\ answer \in [Waiters -> BOOLEAN]

\* A thread sleeps on a set event only while the thread that set it is on its way to
\* notify: no wake-up is lost, whatever reset() does without the mutex.
SleeperIsNotified ==
  \A w \in Waiters : pc[w] = "sleep" /\ m_nValue = 1 => \E s \in Setters : pc[s] = "notify"

\* wait() returns, and wait_for() answers true, only if the event was set at some
\* instant of the call ("Manual reset event, intitial state: not set").  wait_for()
\* looks at the flag again when it is woken; wait() does not.
WaitSeesSet == \A w \in Waiters : pc[w] = "return" /\ answer[w] => seen[w]

\* A timeout is over no more than a fraction of a second early ("Wait until thread
\* terminates or timeout."): relative() leaves out what the clock has beyond its last
\* full second.
TimeoutNearlyDue ==
  \A w \in Waiters : pc[w] = "expired" => now - start[w] > ms[w] - Second

\* A set event lets every waiting thread go, also when it is reset at once.
SetLetsGo ==
  \A w \in Waiters : pc[w] = "sleep" /\ m_nValue = 1 ~> pc[w] = "return"
=============================================================================
