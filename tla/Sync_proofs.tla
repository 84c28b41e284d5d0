----------------------------- MODULE Sync_proofs ------------------------------
(***************************************************************************)
(* Event loses no wake-up and invents none, for all numbers of setters and *)
(* waiters; only wait() without a timeout needs a condition variable that  *)
(* does not wake by itself.                                                *)
(*                                                                         *)
(* AtomicMutex excludes, keeps its assertions and implements RecursiveLock *)
(* for every set of threads, when the memory it is built in does not hold  *)
(* the id of one of them.                                                  *)
(*                                                                         *)
(* The coroutines and the collector of MCSync have what                    *)
(* StacksAndHeap_proofs proves of all.                                     *)
(***************************************************************************)
EXTENDS MCSync, TLAPS

\* The variables the argument is about.
TypeInv ==
  /\ m_nValue \in {0, 1}
  /\ pc \in [Threads -> {"idle", "lock", "notify", "sleep", "woken", "expired", "return"}]
  /\ ms \in [Waiters -> Nat]
  /\ \A s \in Setters : pc[s] \in {"idle", "lock", "notify"}
  /\ \A w \in Waiters : pc[w] # "notify"

\* The setter on its way to notify, and nobody else, holds the mutex.
MutexInv ==
  /\ \A s \in Setters : pc[s] = "notify" => mutex = {s}
  /\ mutex # {} => \E s \in Setters : pc[s] = "notify" /\ mutex = {s}

\* seen is up to date during a call, and before the wake-up that set() owes.
SeenType == seen \in [Waiters -> BOOLEAN] /\ answer \in [Waiters -> BOOLEAN]

SeenInv ==
  \A w \in Waiters :
    /\ pc[w] # "idle" /\ m_nValue = 1 => seen[w]
    /\ pc[w] = "sleep" => \A s \in Setters : pc[s] = "notify" => seen[w]
    /\ pc[w] = "expired" => ms[w] # 0
    /\ pc[w] = "woken" /\ ms[w] = 0 /\ ~Spurious => seen[w]
    /\ pc[w] = "return" /\ answer[w] /\ (ms[w] # 0 \/ ~Spurious) => seen[w]

Inv == TypeInv /\ MutexInv /\ SleeperIsNotified

\* Setters and waiters are different threads.
LEMMA Apart ==
  /\ Setters \subseteq Threads /\ Waiters \subseteq Threads
  /\ \A s \in Setters, w \in Waiters : s # w
  BY EventAssumption DEF Threads

\* The constructor establishes the invariant.
LEMMA InvInit == Init => Inv /\ SeenType /\ SeenInv
  BY Apart DEF Init, Inv, TypeInv, MutexInv, SleeperIsNotified, SeenType, SeenInv

\* Every step of set(), reset() and the waits keeps it.
LEMMA InvNext == Inv /\ [Next]_vars => Inv'
  <1> SUFFICES ASSUME Inv, [Next]_vars PROVE Inv'
    OBVIOUS
  <1> USE Apart DEF Inv, TypeInv, MutexInv, SleeperIsNotified, Goto, Lock, Unlock, timing
  <1>1. ASSUME NEW s \in Setters, SetTest(s) PROVE Inv'
    BY <1>1 DEF SetTest
  <1>2. ASSUME NEW s \in Setters, SetStore(s) PROVE Inv'
    BY <1>2 DEF SetStore
  <1>3. ASSUME NEW s \in Setters, SetNotify(s) PROVE Inv'
    <2>1. \A t \in Threads : pc'[t] = IF t = s THEN "idle"
                                      ELSE IF pc[t] = "sleep" THEN "woken" ELSE pc[t]
      BY <1>3 DEF SetNotify
    <2>2. \A w \in Waiters : pc'[w] # "sleep" /\ pc'[w] # "notify"
      BY <2>1
    <2>3. \A r \in Setters : pc'[r] # "notify" /\ pc'[r] \in {"idle", "lock"}
      <3> SUFFICES ASSUME NEW r \in Setters PROVE pc'[r] \in {"idle", "lock"}
        OBVIOUS
      <3>1. pc[r] = "notify" => r = s
        BY <1>3 DEF SetNotify
      <3> QED
        BY <2>1, <3>1
    <2>4. TypeInv'
      BY <1>3, <2>2, <2>3 DEF SetNotify
    <2> QED
      BY <1>3, <2>2, <2>3, <2>4 DEF SetNotify
  <1>4. ASSUME NEW s \in Setters, Reset(s) PROVE Inv'
    BY <1>4 DEF Reset
  <1>5. ASSUME NEW w \in Waiters, NEW n \in Timeouts \cup {0}, WaitTest(w, n) PROVE Inv'
    <2>1. n \in Nat
      BY EventAssumption
    <2>2. PICK l \in {"return", "lock"} : pc' = [pc EXCEPT ![w] = l]
      BY <1>5, Zenon DEF WaitTest
    <2>3. ms' = [ms EXCEPT ![w] = n] /\ m_nValue' = m_nValue /\ mutex' = mutex
      BY <1>5 DEF WaitTest
    <2> QED
      BY <2>1, <2>2, <2>3
  <1>6. ASSUME NEW w \in Waiters, WaitSleep(w) PROVE Inv'
    BY <1>6 DEF WaitSleep
  <1>7. ASSUME NEW w \in Waiters, WaitTimesOut(w) \/ WaitWakesByItself(w) PROVE Inv'
    BY <1>7 DEF WaitTimesOut, WaitWakesByItself
  <1>8. ASSUME NEW w \in Waiters, WaitEnd(w) PROVE Inv'
    <2>1. pc' = [pc EXCEPT ![w] = "return"] /\ UNCHANGED <<m_nValue, mutex, ms>>
      BY <1>8 DEF WaitEnd
    <2> QED
      BY <2>1
  <1>9. ASSUME NEW w \in Waiters, WaitReturn(w) PROVE Inv'
    BY <1>9 DEF WaitReturn
  <1>10. CASE Tick \/ UNCHANGED vars
    BY <1>10 DEF Tick, vars
  <1> QED
    BY <1>1, <1>2, <1>3, <1>4, <1>5, <1>6, <1>7, <1>8, <1>9, <1>10
       DEF Next, SetStep, WaitStep

\* seen and answer stay Boolean.
LEMMA SeenTypeNext == SeenType /\ [Next]_vars => SeenType'
  <1> SUFFICES ASSUME SeenType, [Next]_vars PROVE SeenType'
    OBVIOUS
  <1>1. (m_nValue # 0) \in BOOLEAN /\ \A w \in Waiters : (ms[w] = 0 \/ m_nValue # 0) \in BOOLEAN
    OBVIOUS
  <1>2. ASSUME NEW w \in Waiters, WaitEnd(w) PROVE SeenType'
    BY <1>1, <1>2, Zenon DEF WaitEnd, SeenType
  <1>3. ASSUME NEW w \in Waiters, NEW n \in Timeouts \cup {0}, WaitTest(w, n) PROVE SeenType'
    BY <1>1, <1>3, Zenon DEF WaitTest, SeenType
  <1>4. ASSUME NEW s \in Setters, SetTest(s) \/ SetStep(s) \/ Reset(s) PROVE SeenType'
    BY <1>4 DEF SetTest, SetStep, SetStore, SetNotify, Reset, SeenType
  <1>5. ASSUME NEW w \in Waiters,
               WaitSleep(w) \/ WaitTimesOut(w) \/ WaitWakesByItself(w) \/ WaitReturn(w)
        PROVE SeenType'
    BY <1>5 DEF WaitSleep, WaitTimesOut, WaitWakesByItself, WaitReturn, SeenType
  <1>6. CASE Tick \/ UNCHANGED vars
    BY <1>6 DEF Tick, vars, SeenType
  <1> QED
    BY <1>2, <1>3, <1>4, <1>5, <1>6 DEF Next, WaitStep

\* What a call has seen stays true to the flag.
LEMMA SeenNext == Inv /\ SeenType /\ SeenInv /\ [Next]_vars => SeenInv'
  <1> SUFFICES ASSUME Inv, SeenType, SeenInv, [Next]_vars PROVE SeenInv'
    OBVIOUS
  <1> USE Apart, EventAssumption DEF Inv, TypeInv, MutexInv, SeenInv, Goto, Lock, Unlock, timing
  <1>1. ASSUME NEW s \in Setters, SetTest(s) PROVE SeenInv'
    BY <1>1 DEF SetTest
  <1>2. ASSUME NEW s \in Setters, SetStore(s) PROVE SeenInv'
    BY <1>2 DEF SetStore
  <1>3. ASSUME NEW s \in Setters, SetNotify(s) PROVE SeenInv'
    <2> SUFFICES ASSUME NEW w \in Waiters
                 PROVE  /\ pc'[w] # "idle" /\ m_nValue' = 1 => seen'[w]
                        /\ pc'[w] # "sleep"
                        /\ pc'[w] = "expired" => ms'[w] # 0
                        /\ pc'[w] = "woken" /\ ms'[w] = 0 /\ ~Spurious => seen'[w]
                        /\ pc'[w] = "return" /\ answer'[w] /\ (ms'[w] # 0 \/ ~Spurious) => seen'[w]
      BY Zenon DEF SeenInv
    <2>1. pc'[w] = IF pc[w] = "sleep" THEN "woken" ELSE pc[w]
      BY <1>3 DEF SetNotify
    <2>2. seen' = seen /\ m_nValue' = m_nValue /\ ms' = ms /\ answer' = answer /\ pc[s] = "notify"
      BY <1>3 DEF SetNotify
    <2>3. pc[w] = "sleep" => seen[w]
      BY <2>2
    <2> QED
      BY <2>1, <2>2, <2>3
  <1>4. ASSUME NEW s \in Setters, Reset(s) PROVE SeenInv'
    BY <1>4 DEF Reset
  <1>5. ASSUME NEW w \in Waiters, NEW n \in Timeouts \cup {0}, WaitTest(w, n) PROVE SeenInv'
    <2> SUFFICES ASSUME NEW v \in Waiters
                 PROVE  /\ pc'[v] # "idle" /\ m_nValue' = 1 => seen'[v]
                        /\ pc'[v] = "sleep" => \A s \in Setters : pc'[s] = "notify" => seen'[v]
                        /\ pc'[v] = "expired" => ms'[v] # 0
                        /\ pc'[v] = "woken" /\ ms'[v] = 0 /\ ~Spurious => seen'[v]
                        /\ pc'[v] = "return" /\ answer'[v] /\ (ms'[v] # 0 \/ ~Spurious) => seen'[v]
      BY Zenon DEF SeenInv
    <2>1. CASE v # w
      <3>1. /\ pc'[v] = pc[v] /\ seen'[v] = seen[v] /\ answer'[v] = answer[v]
            /\ ms'[v] = ms[v] /\ m_nValue' = m_nValue
        BY <1>5, <2>1 DEF WaitTest, SeenType
      <3>2. \A s \in Setters : pc'[s] = pc[s]
        BY <1>5 DEF WaitTest
      <3> QED
        BY <3>1, <3>2
    <2>2. CASE v = w
      <3>1. pc'[v] \in {"return", "lock"} /\ m_nValue' = m_nValue
        BY <1>5, <2>2 DEF WaitTest
      <3>2. (m_nValue # 0 => seen'[v]) /\ (answer'[v] => seen'[v])
        BY <1>5, <2>2, Zenon DEF WaitTest, SeenType
      <3> QED
        BY <3>1, <3>2
    <2> QED
      BY <2>1, <2>2
  <1>6. ASSUME NEW w \in Waiters, WaitSleep(w) PROVE SeenInv'
    BY <1>6 DEF WaitSleep
  <1>7. ASSUME NEW w \in Waiters, WaitTimesOut(w) PROVE SeenInv'
    BY <1>7 DEF WaitTimesOut
  <1>8. ASSUME NEW w \in Waiters, WaitEnd(w) PROVE SeenInv'
    <2> SUFFICES ASSUME NEW v \in Waiters
                 PROVE  /\ pc'[v] # "idle" /\ m_nValue' = 1 => seen'[v]
                        /\ pc'[v] = "sleep" => \A s \in Setters : pc'[s] = "notify" => seen'[v]
                        /\ pc'[v] = "expired" => ms'[v] # 0
                        /\ pc'[v] = "woken" /\ ms'[v] = 0 /\ ~Spurious => seen'[v]
                        /\ pc'[v] = "return" /\ answer'[v] /\ (ms'[v] # 0 \/ ~Spurious) => seen'[v]
      BY Zenon DEF SeenInv
    <2>0. UNCHANGED <<m_nValue, seen, ms>> /\ pc[w] \in {"woken", "expired"}
      BY <1>8 DEF WaitEnd
    <2>1. CASE v # w
      <3>1. pc'[v] = pc[v] /\ answer'[v] = answer[v]
        BY <1>8, <2>1 DEF WaitEnd, SeenType
      <3>2. \A s \in Setters : pc'[s] = pc[s]
        BY <1>8 DEF WaitEnd
      <3> QED
        BY <2>0, <3>1, <3>2
    <2>2. CASE v = w
      <3>1. pc'[v] = "return"
        BY <1>8, <2>2 DEF WaitEnd
      <3>2. answer'[v] => ms[v] = 0 \/ m_nValue # 0
        BY <1>8, <2>2, Zenon DEF WaitEnd, SeenType
      <3>3. (ms[v] = 0 /\ ~Spurious) \/ m_nValue # 0 => seen[v]
        BY <2>0, <2>2
      <3> QED
        BY <2>0, <3>1, <3>2, <3>3
    <2> QED
      BY <2>1, <2>2
  <1>9. ASSUME NEW w \in Waiters, WaitReturn(w) PROVE SeenInv'
    BY <1>9 DEF WaitReturn, SeenType
  <1>10. CASE Tick \/ UNCHANGED vars
    BY <1>10 DEF Tick, vars
  <1>11. ASSUME NEW w \in Waiters, WaitWakesByItself(w) PROVE SeenInv'
    BY <1>11 DEF WaitWakesByItself
  <1> QED
    BY <1>1, <1>2, <1>3, <1>4, <1>5, <1>6, <1>7, <1>8, <1>9, <1>10, <1>11
       DEF Next, SetStep, WaitStep

\* No wake-up is lost: a thread that sleeps on a set event is about to be notified,
\* whatever reset() does without the mutex and however waits end.
THEOREM NoWakeupLost == Spec => []SleeperIsNotified
  <1>1. Init => Inv
    BY InvInit
  <1>2. Inv => SleeperIsNotified
    BY DEF Inv
  <1> QED
    BY <1>1, <1>2, InvNext, PTL DEF Spec

\* No wake-up is invented by set(), reset() and the timeouts: where the condition variable
\* returns only when it is signalled or timed out, wait() returns and wait_for() answers true
\* only after the event was set during the call.  wait() needs the assumption, because it does
\* not test the flag again (thread_mutex.cpp:258-263).
THEOREM NoWakeupInvented ==
  ASSUME ~Spurious
  PROVE  Spec => []WaitSeesSet
  <1>1. Inv /\ SeenType /\ SeenInv /\ [Next]_vars => Inv' /\ SeenType' /\ SeenInv'
    BY InvNext, SeenTypeNext, SeenNext
  <1>2. SeenInv => WaitSeesSet
    BY DEF SeenInv, WaitSeesSet
  <1> QED
    BY InvInit, <1>1, <1>2, PTL DEF Spec

-----------------------------------------------------------------------------
(* Timeouts *)

\* The clock and what the waits have read from it.
ClockType ==
  /\ now \in 0..MaxNow /\ start \in [Waiters -> 0..MaxNow]
  /\ deadline \in [Waiters -> Nat] /\ ms \in [Waiters -> Timeouts \cup {0}]

\* A deadline lies less than a second before the instant that was asked for.
DueInv ==
  \A w \in Waiters :
    /\ start[w] <= now
    /\ pc[w] = "sleep" /\ ms[w] > 0 => deadline[w] - start[w] > ms[w] - Second
    /\ pc[w] = "expired" => now - start[w] > ms[w] - Second

\* A number is its full seconds and the rest.
LEMMA RestOf ==
  ASSUME NEW N \in Nat \ {0}, NEW k \in Nat
  PROVE  /\ k \div N \in Nat /\ k % N \in 0..N-1
         /\ k % N = k - N * (k \div N)
  OBVIOUS

\* relative() loses what the clock has beyond its last full second, and no more.
LEMMA RelativeBound ==
  ASSUME NEW n \in Nat, now \in Nat
  PROVE  Relative(n) \in Nat /\ Relative(n) > now + n - Second
<1> DEFINE a == now \div Second
           b == n \div Second
<1>0. Second \in Nat \ {0}
  BY EventAssumption
<1>1. a \in Nat /\ now - Second * a \in 0..Second-1
  BY <1>0, RestOf
<1>2. b \in Nat /\ n % Second = n - Second * b /\ n % Second \in Nat
  <2>1. b \in Nat /\ n % Second \in 0..Second-1
    BY <1>0, RestOf
  <2>2. n % Second = n - Second * b
    BY <1>0, RestOf
  <2> QED
    BY <1>0, <2>1, <2>2
<1>3. Relative(n) = (a + b) * Second + (n % Second)
  BY DEF Relative
<1> HIDE DEF a, b
<1>4. (a + b) * Second = Second * a + Second * b /\ (a + b) * Second \in Nat
      /\ Second * a \in Nat /\ Second * b \in Nat
  BY <1>0, <1>1, <1>2
<1> QED
  BY <1>0, <1>1, <1>2, <1>3, <1>4

\* Every step keeps the deadlines close to what was asked for.
LEMMA DueNext == TypeInv /\ ClockType /\ DueInv /\ [Next]_vars => ClockType' /\ DueInv'
<1> SUFFICES ASSUME TypeInv, ClockType, DueInv, [Next]_vars PROVE ClockType' /\ DueInv'
  OBVIOUS
<1> USE Apart, EventAssumption DEF TypeInv, ClockType, DueInv, Goto
<1>1. ASSUME NEW s \in Setters, SetTest(s) \/ SetStep(s) \/ Reset(s) PROVE ClockType' /\ DueInv'
  <2>1. UNCHANGED timing
    BY <1>1 DEF SetTest, SetStep, SetStore, SetNotify, Reset
  <2>2. \A w \in Waiters : pc'[w] \in {"sleep", "expired"} => pc'[w] = pc[w]
    BY <1>1 DEF SetTest, SetStep, SetStore, SetNotify, Reset
  <2> QED
    BY <2>1, <2>2 DEF timing
<1>2. ASSUME NEW w \in Waiters, NEW n \in Timeouts \cup {0}, WaitTest(w, n)
      PROVE  ClockType' /\ DueInv'
  <2>1. PICK l \in {"return", "lock"} : pc' = [pc EXCEPT ![w] = l]
    BY <1>2 DEF WaitTest
  <2>2. /\ ms' = [ms EXCEPT ![w] = n] /\ start' = [start EXCEPT ![w] = now]
        /\ UNCHANGED <<now, deadline>>
    BY <1>2 DEF WaitTest
  <2> QED
    BY <2>1, <2>2
<1>3. ASSUME NEW w \in Waiters, WaitSleep(w) PROVE ClockType' /\ DueInv'
  <2>1. ms[w] \in Nat /\ now \in Nat
    OBVIOUS
  <2>2. Relative(ms[w]) \in Nat /\ Relative(ms[w]) > now + ms[w] - Second
    BY <2>1, RelativeBound
  <2> QED
    BY <1>3, <2>1, <2>2 DEF WaitSleep
<1>4. ASSUME NEW w \in Waiters, WaitTimesOut(w) PROVE ClockType' /\ DueInv'
  BY <1>4 DEF WaitTimesOut, timing
<1>5. ASSUME NEW w \in Waiters, WaitEnd(w) \/ WaitWakesByItself(w) PROVE ClockType' /\ DueInv'
  BY <1>5 DEF WaitEnd, WaitWakesByItself, timing
<1>6. ASSUME NEW w \in Waiters, WaitReturn(w) PROVE ClockType' /\ DueInv'
  BY <1>6 DEF WaitReturn
<1>7. CASE Tick \/ UNCHANGED vars
  BY <1>7 DEF Tick, vars
<1> QED
  BY <1>1, <1>2, <1>3, <1>4, <1>5, <1>6, <1>7 DEF Next, WaitStep

\* What is true of every state of an Event.
LEMMA AllHold == Spec => [](Inv /\ SeenType /\ ClockType /\ DueInv)
<1>1. Init => Inv /\ SeenType /\ ClockType /\ DueInv
  BY InvInit, EventAssumption DEF Init, ClockType, DueInv
<1>2. Inv /\ SeenType /\ ClockType /\ DueInv /\ [Next]_vars
        => Inv' /\ SeenType' /\ ClockType' /\ DueInv'
  BY InvNext, SeenTypeNext, DueNext DEF Inv
<1> QED
  BY <1>1, <1>2, PTL DEF Spec

\* The flag, the mutex, the clock and the places of the threads have their types.
THEOREM EventTypes == Spec => []TypeOK
<1>1. Inv /\ SeenType /\ ClockType => TypeOK
  <2> SUFFICES ASSUME Inv, SeenType, ClockType PROVE TypeOK
    OBVIOUS
  <2>1. mutex \in {{}} \cup {{s} : s \in Setters}
    BY DEF Inv, MutexInv
  <2>2. seen \in [Waiters -> BOOLEAN] /\ answer \in [Waiters -> BOOLEAN]
    BY DEF SeenType
  <2> QED
    BY <2>1, <2>2 DEF Inv, TypeInv, ClockType, TypeOK
<1> QED
  BY <1>1, AllHold, PTL

\* wait_for() gives up no more than a fraction of a second too early, at whatever
\* instant of a second it is called.
THEOREM TimeoutsAreDue == Spec => []TimeoutNearlyDue
<1>1. DueInv => TimeoutNearlyDue
  BY DEF DueInv, TimeoutNearlyDue
<1> QED
  BY <1>1, AllHold, PTL

-----------------------------------------------------------------------------
(* AtomicMutex: the invariant *)

\* What each place says of the thread's depth.
PcInv ==
  \A t \in Lockers :
    /\ mpc[t] \in {"assert", "own", "disown", "release"} => depth[t] = 0
    /\ mpc[t] = "again" => depth[t] > 0
    /\ mpc[t] \in {"lock", "trylock", "compare", "trycompare", "again"} => depth[t] < MaxDepth

\* val is 1 while somebody is inside, and only one is.
ValInv ==
  /\ \A t \in Lockers : Mutex!Inside(t) => val = 1
  /\ \A t, u \in Lockers : Mutex!Inside(t) /\ Mutex!Inside(u) => t = u

\* tid is the id of the thread that holds the lock, from SetTid to ClearTid.
TidInv ==
  \A t \in Lockers : tid = t <=> depth[t] > 0 \/ mpc[t] = "disown"

\* num is how often the owner holds the lock.
NumInv ==
  /\ \A t \in Lockers : depth[t] > 0 => num = depth[t]
  /\ \A t \in Lockers : mpc[t] = "own" => num = 1
  /\ num # 0 => \E t \in Lockers : depth[t] > 0 \/ mpc[t] = "own"

\* The ranges, without the bound that MaxDepth puts on num.
LockTypes ==
  /\ val \in {0, 1} /\ num \in Nat
  /\ tid \in Lockers \cup {NoId} \cup Garbage
  /\ mpc \in [Lockers -> Mutex!Labels]
  /\ depth \in [Lockers -> 0..MaxDepth]

LockInv == LockTypes /\ PcInv /\ ValInv /\ TidInv /\ NumInv

\* The memory that the mutex is built in holds no thread's id.
NoStaleId == Garbage \cap Lockers = {}

\* uintptr_t(-1) is no thread's id.
LEMMA MutexConstants == NoId \notin Lockers /\ MaxDepth \in Nat \ {0}
  BY LockAssumption DEF Mutex!MutexAssumption

\* The constructor establishes the invariant.
LEMMA MutexInit == ASSUME NoStaleId PROVE Mutex!Init => LockInv
  <1> SUFFICES ASSUME Mutex!Init PROVE LockInv
    OBVIOUS
  <1>1. \A t \in Lockers : mpc[t] = "idle" /\ depth[t] = 0
    BY DEF Mutex!Init
  <1>2. LockTypes
    BY MutexConstants DEF Mutex!Init, LockTypes, Mutex!Labels
  <1>3. PcInv /\ ValInv
    BY <1>1, MutexConstants DEF PcInv, ValInv, Mutex!Inside
  <1>4. TidInv
    <2>1. tid \notin Lockers
      BY DEF Mutex!Init, NoStaleId
    <2>2. \A t \in Lockers : ~(depth[t] > 0) /\ mpc[t] # "disown"
      BY <1>1, ~(0 > 0), Zenon
    <2> QED
      BY <2>1, <2>2 DEF TidInv
  <1>5. NumInv
    BY <1>1 DEF Mutex!Init, NumInv
  <1> QED
    BY <1>2, <1>3, <1>4, <1>5 DEF LockInv

\* Every step of lock(), try_lock() and unlock() keeps it.
LEMMA MutexNext == LockInv /\ [Mutex!Next]_(Mutex!vars) => LockInv'
  <1> SUFFICES ASSUME LockInv, [Mutex!Next]_(Mutex!vars) PROVE LockInv'
    OBVIOUS
  <1> USE MutexConstants DEF LockInv, LockTypes, PcInv, ValInv, TidInv, NumInv, Mutex!Inside, Mutex!Goto, Mutex!Labels
  <1>1. ASSUME NEW t \in Lockers, Mutex!Call(t) PROVE LockInv'
    BY <1>1 DEF Mutex!Call
  <1>2. ASSUME NEW t \in Lockers, Mutex!Exchange(t) PROVE LockInv'
    <2>1. CASE val = 0
      BY <1>2, <2>1 DEF Mutex!Exchange
    <2>2. CASE val # 0
      BY <1>2, <2>2 DEF Mutex!Exchange
    <2> QED
      BY <2>1, <2>2
  <1>3. ASSUME NEW t \in Lockers, Mutex!Compare(t) PROVE LockInv'
    BY <1>3 DEF Mutex!Compare
  <1>4. ASSUME NEW t \in Lockers, Mutex!Again(t) PROVE LockInv'
    BY <1>4 DEF Mutex!Again
  <1>5. ASSUME NEW t \in Lockers, Mutex!SetNum(t) PROVE LockInv'
    BY <1>5 DEF Mutex!SetNum
  <1>6. ASSUME NEW t \in Lockers, Mutex!SetTid(t) PROVE LockInv'
    BY <1>6 DEF Mutex!SetTid
  <1>7. ASSUME NEW t \in Lockers, Mutex!Unlock(t) PROVE LockInv'
    BY <1>7 DEF Mutex!Unlock
  <1>8. ASSUME NEW t \in Lockers, Mutex!ClearTid(t) PROVE LockInv'
    BY <1>8 DEF Mutex!ClearTid
  <1>9. ASSUME NEW t \in Lockers, Mutex!Release(t) PROVE LockInv'
    BY <1>9 DEF Mutex!Release
  <1>10. CASE UNCHANGED Mutex!vars
    BY <1>10 DEF Mutex!vars
  <1> QED
    BY <1>1, <1>2, <1>3, <1>4, <1>5, <1>6, <1>7, <1>8, <1>9, <1>10 DEF Mutex!Next

\* The invariant holds throughout.
LEMMA MutexAlways == ASSUME NoStaleId PROVE Mutex!Spec => []LockInv
  BY MutexInit, MutexNext, PTL DEF Mutex!Spec

\* The fields stay in their ranges.
THEOREM MutexTypesHold == ASSUME NoStaleId PROVE Mutex!Spec => []Mutex!TypeOK
  <1>1. LockInv => Mutex!TypeOK
    <2> SUFFICES ASSUME LockInv PROVE num <= MaxDepth
      BY MutexConstants DEF LockInv, LockTypes, Mutex!TypeOK
    <2>1. \A t \in Lockers : depth[t] \in 0..MaxDepth
      BY DEF LockInv, LockTypes
    <2> QED
      BY <2>1, MutexConstants DEF LockInv, LockTypes, NumInv
  <1> QED
    BY <1>1, MutexAlways, PTL

\* lock(), try_lock() and unlock() exclude.
THEOREM MutexExcludes == ASSUME NoStaleId PROVE Mutex!Spec => []Mutex!MutualExclusion
  <1>1. LockInv => Mutex!MutualExclusion
    BY DEF LockInv, ValInv, Mutex!Inside, Mutex!MutualExclusion
  <1> QED
    BY <1>1, MutexAlways, PTL

\* None of the wassert()s of AtomicMutex fails.
THEOREM MutexAssertsHold == ASSUME NoStaleId PROVE Mutex!Spec => []Mutex!Asserts
  <1>1. LockInv => Mutex!Asserts
    <2> SUFFICES ASSUME LockInv, NEW t \in Lockers
                 PROVE /\ mpc[t] = "assert" => num = 0
                       /\ mpc[t] = "idle" /\ depth[t] > 0 => tid = t
                       /\ mpc[t] = "release" => val = 1
      BY DEF Mutex!Asserts
    <2>1. mpc[t] = "assert" => num = 0
      BY MutexConstants DEF LockInv, LockTypes, PcInv, ValInv, NumInv, Mutex!Inside
    <2>2. mpc[t] = "idle" /\ depth[t] > 0 => tid = t
      BY DEF LockInv, TidInv
    <2>3. mpc[t] = "release" => val = 1
      BY DEF LockInv, ValInv, Mutex!Inside
    <2> QED
      BY <2>1, <2>2, <2>3
  <1> QED
    BY <1>1, MutexAlways, PTL

-----------------------------------------------------------------------------
(* AtomicMutex implements RecursiveLock *)

\* The abstract owner and depth, from the invariant.
LEMMA OwnerIs ==
  ASSUME LockInv, NEW t \in Lockers, Mutex!Inside(t)
  PROVE  Mutex!Owner = t /\ Mutex!Depth = IF num = 0 THEN 1 ELSE num
  BY MutexConstants DEF LockInv, ValInv, Mutex!Owner, Mutex!Depth

\* With nobody inside the abstract lock is free.
LEMMA OwnerIsNobody ==
  ASSUME \A t \in Lockers : ~Mutex!Inside(t)
  PROVE  Mutex!Owner = NoId /\ Mutex!Depth = 0
  BY DEF Mutex!Owner, Mutex!Depth

\* A step of a thread that changes neither who is inside nor the abstract depth.
LEMMA StepStutters ==
  ASSUME \A t \in Lockers : Mutex!Inside(t)' <=> Mutex!Inside(t),
         (IF num' = 0 THEN 1 ELSE num') = (IF num = 0 THEN 1 ELSE num)
  PROVE  UNCHANGED <<Mutex!Owner, Mutex!Depth>>
  <1>1. Mutex!Owner' = Mutex!Owner
    <2>1. CASE \E t \in Lockers : Mutex!Inside(t)
      <3>1. (CHOOSE t \in Lockers : Mutex!Inside(t)') = (CHOOSE t \in Lockers : Mutex!Inside(t))
        OBVIOUS
      <3> QED
        BY <2>1, <3>1 DEF Mutex!Owner
    <2>2. CASE ~ \E t \in Lockers : Mutex!Inside(t)
      BY <2>2 DEF Mutex!Owner
    <2> QED
      BY <2>1, <2>2
  <1> QED
    BY <1>1 DEF Mutex!Depth

\* The initial states of the mutex are initial states of the lock.
LEMMA MutexRefinesInit == Mutex!Init => Mutex!Lock!Init
  <1> SUFFICES ASSUME Mutex!Init PROVE Mutex!Owner = NoId /\ Mutex!Depth = 0
    BY DEF Mutex!Lock!Init
  <1>1. \A t \in Lockers : mpc[t] = "idle" /\ depth[t] = 0
    BY DEF Mutex!Init
  <1>2. \A t \in Lockers : ~Mutex!Inside(t)
    BY <1>1, ~(0 > 0) DEF Mutex!Inside
  <1> QED
    BY <1>2, OwnerIsNobody

\* Every step of the mutex is a step of the lock or changes nothing of it.
LEMMA MutexRefinesNext == LockInv /\ LockInv' /\ [Mutex!Next]_(Mutex!vars) => [Mutex!Lock!Next]_(Mutex!Lock!vars)
  <1> SUFFICES ASSUME LockInv, LockInv', [Mutex!Next]_(Mutex!vars)
               PROVE  Mutex!Lock!Next \/ UNCHANGED <<Mutex!Owner, Mutex!Depth>>
    BY DEF Mutex!Lock!vars
  <1> USE MutexConstants DEF Mutex!Goto, Mutex!Labels
  <1>a. \A t \in Lockers : depth[t] \in Nat /\ depth'[t] \in Nat /\ num \in Nat /\ num' \in Nat
    BY DEF LockInv, LockTypes
  <1>1. ASSUME NEW t \in Lockers, Mutex!Call(t) \/ Mutex!Compare(t) PROVE UNCHANGED <<Mutex!Owner, Mutex!Depth>>
    <2>1. \A u \in Lockers : Mutex!Inside(u)' <=> Mutex!Inside(u)
      BY <1>1 DEF Mutex!Call, Mutex!Compare, Mutex!Inside, LockInv, LockTypes
    <2> QED
      BY <1>1, <2>1, StepStutters DEF Mutex!Call, Mutex!Compare
  <1>2. ASSUME NEW t \in Lockers, Mutex!Exchange(t) PROVE Mutex!Lock!Acquire(t) \/ UNCHANGED <<Mutex!Owner, Mutex!Depth>>
    <2>1. CASE val = 0
      <3>1. \A u \in Lockers : ~Mutex!Inside(u)
        BY <2>1 DEF LockInv, ValInv
      <3>2. Mutex!Owner = NoId /\ Mutex!Depth = 0
        BY <3>1, OwnerIsNobody
      <3>3. Mutex!Inside(t)' /\ num' = 0
        BY <1>2, <2>1, <3>1 DEF Mutex!Exchange, Mutex!Inside, LockInv, LockTypes, NumInv
      <3>4. Mutex!Owner' = t /\ Mutex!Depth' = 1
        BY <3>3 DEF LockInv, ValInv, Mutex!Owner, Mutex!Depth
      <3> QED
        BY <3>2, <3>4 DEF Mutex!Lock!Acquire
    <2>2. CASE val # 0
      <3>1. \A u \in Lockers : Mutex!Inside(u)' <=> Mutex!Inside(u)
        BY <1>2, <2>2 DEF Mutex!Exchange, Mutex!Inside, LockInv, LockTypes
      <3> QED
        BY <1>2, <3>1, StepStutters DEF Mutex!Exchange
    <2> QED
      BY <2>1, <2>2
  <1>3. ASSUME NEW t \in Lockers, Mutex!Again(t) PROVE Mutex!Lock!Acquire(t)
    <2>1. Mutex!Inside(t) /\ Mutex!Inside(t)' /\ num # 0 /\ num' = num + 1
      BY <1>3, <1>a DEF Mutex!Again, Mutex!Inside, LockInv, LockTypes, PcInv, NumInv
    <2>2. Mutex!Owner = t /\ Mutex!Depth = num
      BY <2>1, OwnerIs
    <2>3. Mutex!Owner' = t /\ Mutex!Depth' = num + 1
      BY <2>1, <1>a DEF LockInv, ValInv, Mutex!Owner, Mutex!Depth
    <2> QED
      BY <2>2, <2>3 DEF Mutex!Lock!Acquire
  <1>4. ASSUME NEW t \in Lockers, Mutex!SetNum(t) \/ Mutex!SetTid(t) \/ Mutex!ClearTid(t)
        PROVE UNCHANGED <<Mutex!Owner, Mutex!Depth>>
    <2>1. \A u \in Lockers : Mutex!Inside(u)' <=> Mutex!Inside(u)
      BY <1>4 DEF Mutex!SetNum, Mutex!SetTid, Mutex!ClearTid, Mutex!Inside, LockInv, LockTypes
    <2>2. mpc[t] = "assert" => num = 0
      BY DEF LockInv, PcInv, ValInv, NumInv, Mutex!Inside
    <2> QED
      BY <1>4, <2>1, <2>2, StepStutters DEF Mutex!SetNum, Mutex!SetTid, Mutex!ClearTid
  <1>5. ASSUME NEW t \in Lockers, Mutex!Unlock(t) PROVE Mutex!Lock!Release(t) \/ UNCHANGED <<Mutex!Owner, Mutex!Depth>>
    <2>1. Mutex!Inside(t) /\ num = depth[t] /\ num > 0
      BY <1>5 DEF Mutex!Unlock, Mutex!Inside, LockInv, NumInv
    <2>2. Mutex!Owner = t /\ Mutex!Depth = num
      BY <2>1, OwnerIs
    <2>3. Mutex!Inside(t)'
      BY <1>5, <2>1, <1>a DEF Mutex!Unlock, Mutex!Inside, LockInv, LockTypes
    <2>4. Mutex!Owner' = t /\ Mutex!Depth' = IF num' = 0 THEN 1 ELSE num'
      BY <2>3 DEF LockInv, ValInv, Mutex!Owner, Mutex!Depth
    <2>5. num' = num - 1
      BY <1>5 DEF Mutex!Unlock
    <2> QED
      BY <2>1, <2>2, <2>4, <2>5, <1>a DEF Mutex!Lock!Release
  <1>6. ASSUME NEW t \in Lockers, Mutex!Release(t) PROVE Mutex!Lock!Release(t)
    <2>1. Mutex!Inside(t) /\ depth[t] = 0 /\ \A u \in Lockers : Mutex!Inside(u) => u = t
      BY <1>6 DEF Mutex!Release, Mutex!Inside, LockInv, PcInv, ValInv
    <2>2. num = 0
      BY <1>6, <2>1 DEF Mutex!Release, Mutex!Inside, LockInv, NumInv
    <2>3. Mutex!Owner = t /\ Mutex!Depth = 1
      BY <2>1, <2>2, OwnerIs
    <2>4. \A u \in Lockers : ~Mutex!Inside(u)'
      BY <1>6, <2>1 DEF Mutex!Release, Mutex!Inside, LockInv, LockTypes
    <2>5. Mutex!Owner' = NoId /\ Mutex!Depth' = 0
      BY <2>4 DEF Mutex!Owner, Mutex!Depth
    <2> QED
      BY <2>3, <2>5 DEF Mutex!Lock!Release
  <1>7. CASE UNCHANGED Mutex!vars
    BY <1>7 DEF Mutex!vars, Mutex!Owner, Mutex!Depth, Mutex!Inside
  <1> QED
    BY <1>1, <1>2, <1>3, <1>4, <1>5, <1>6, <1>7 DEF Mutex!Next, Mutex!Lock!Next

\* The exchange protocol is a recursive lock.
LEMMA MutexIsLock == ASSUME NoStaleId PROVE Mutex!Spec => Mutex!ImplementsLock
  <1>1. Mutex!Spec => []LockInv
    BY MutexAlways
  <1>2. Mutex!Init => Mutex!Lock!Init
    BY MutexRefinesInit
  <1>3. LockInv /\ LockInv' /\ [Mutex!Next]_(Mutex!vars) => [Mutex!Lock!Next]_(Mutex!Lock!vars)
    BY MutexRefinesNext
  <1> QED
    BY <1>1, <1>2, <1>3, PTL DEF Mutex!Spec, Mutex!ImplementsLock, Mutex!Lock!Spec

LEMMA MutexRuns == AnySpec => Mutex!Spec
  <1>1. AnyInit => Mutex!Init
    BY DEF AnyInit
  <1>2. [AnyNext]_allVars => [Mutex!Next]_(Mutex!vars)
    BY DEF AnyNext, Events, Locks, Swaps, Collects, allVars, lockVars, Mutex!vars
  <1> QED
    BY <1>1, <1>2, PTL DEF AnySpec, Mutex!Spec

\* lock(), try_lock() and unlock() are a recursive lock, in the run and for all threads.
THEOREM ImplementsRecursiveLock == ASSUME NoStaleId PROVE AnySpec => ImplementsLock
  BY MutexIsLock, MutexRuns, PTL DEF ImplementsLock

-----------------------------------------------------------------------------
(* The coroutines beside the event *)

\* What is proved of all, for the threads and the data of MCSync.
All ==
  INSTANCE StacksAndHeap_proofs
  WITH Threads <- {t1, t2}, Routines <- {c1, c2}, Spawner <- OneSpawner, Extras <- {Nil, x},
       pc <- cpc, Objects <- {o1, o2, o3}, Handles <- BothOfOne, mutex <- gmutex

\* Each coroutine of MCSync has one spawner.
LEMMA RoutinesAssumed == All!RoutinesAssumed
<1>1. All!Routine!CoroutineAssumption
  BY RoutineAssumption DEF All!Routine!CoroutineAssumption, Routine!CoroutineAssumption,
     Routine!Mains, Routine!Main, Routine!Coroutines,
     All!Routine!Mains, All!Routine!Main, All!Routine!Coroutines
<1>2. All!OneSpawnerEach
  BY DEF All!OneSpawnerEach, OneSpawner
<1> QED
  BY <1>1, <1>2 DEF All!RoutinesAssumed

LEMMA RoutineInitIs == AnyInit => All!Routine!Init
  BY DEF AnyInit, Routine!Init, All!Routine!Init, Routine!Coroutines, All!Routine!Coroutines,
     Routine!Mains, All!Routine!Mains, Routine!Main, All!Routine!Main

LEMMA RoutineNextIs == Routine!Next => All!Routine!Next
  BY Zenon DEF Routine!Next, All!Routine!Next, Routine!SpawnInit, All!Routine!SpawnInit,
     Routine!SpawnFails, All!Routine!SpawnFails, Routine!SpawnAlloc, All!Routine!SpawnAlloc,
     Routine!SpawnCas, All!Routine!SpawnCas, Routine!Yield, All!Routine!Yield,
     Routine!SvcReturns, All!Routine!SvcReturns, Routine!Swap, All!Routine!Swap,
     Routine!Phase2, All!Routine!Phase2, Routine!Goto, All!Routine!Goto, Routine!state,
     All!Routine!state, Routine!comain, All!Routine!comain, Routine!NeedsStack,
     All!Routine!NeedsStack, Routine!Takes, All!Routine!Takes, Routine!PassExtra,
     All!Routine!PassExtra, Routine!Targets, All!Routine!Targets, Routine!VoidCleared,
     All!Routine!VoidCleared, Routine!Enters, All!Routine!Enters, Routine!Main,
     All!Routine!Main, Routine!Coroutines, All!Routine!Coroutines, Routine!Mains,
     All!Routine!Mains

LEMMA RoutineStepIs == [AnyNext]_allVars => [All!Routine!Next]_(All!Routine!vars)
<1>1. Routine!vars = All!Routine!vars /\ (UNCHANGED routineVars => UNCHANGED All!Routine!vars)
  BY DEF Routine!vars, All!Routine!vars, Routine!state, All!Routine!state, Routine!comain,
     All!Routine!comain, routineVars
<1> QED
  BY <1>1, RoutineNextIs DEF AnyNext, Events, Locks, Swaps, Collects, allVars, routineVars

LEMMA RoutinesRun == AnySpec => All!Routine!Spec
  BY RoutineInitIs, RoutineStepIs, PTL DEF AnySpec, All!Routine!Spec

\* What a yield passes on arrives (get_extra_data), in the run and for all coroutines that
\* have one spawner each.
THEOREM ExtraArrives == AnySpec => []ExtraDelivered
<1>1. All!Routine!Spec => []All!Routine!ExtraDelivered
  BY RoutinesAssumed, All!ExtraArrives
<1>2. All!Routine!ExtraDelivered <=> ExtraDelivered
  BY DEF All!Routine!ExtraDelivered, ExtraDelivered, Routine!ExtraDelivered
<1> QED
  BY <1>1, <1>2, RoutinesRun, PTL

\* No stack is used by two threads, a swap goes to a stack that has been saved, states and
\* assertions agree with that, and spawn() keeps the stack that there is.
THEOREM SwapsAreSafe == AnySpec => SwapsToSavedStack
<1>1. All!Routine!Spec => /\ []All!Routine!TypeOK /\ []All!Routine!StackInUseOnce
                          /\ []All!Routine!SwapsToSavedStack /\ []All!Routine!StatesAgree
                          /\ []All!Routine!YieldAsserts /\ All!Routine!StackKept
  BY RoutinesAssumed, All!CoroutineTypes, All!StacksInUseOnce,
     All!SavedBeforeSwap, All!StatesOfCoroutines, All!AssertsOfYield,
     All!StacksKept
<1>2. All!Routine!TypeOK <=> Routine!TypeOK
  BY DEF All!Routine!TypeOK, Routine!TypeOK, Routine!Coroutines, All!Routine!Coroutines,
     Routine!Mains, All!Routine!Mains, Routine!Main, All!Routine!Main
<1>3. All!Routine!StackInUseOnce <=> Routine!StackInUseOnce
  BY DEF All!Routine!StackInUseOnce, Routine!StackInUseOnce
<1>4. All!Routine!SwapsToSavedStack <=> Routine!SwapsToSavedStack
  BY DEF All!Routine!SwapsToSavedStack, Routine!SwapsToSavedStack
<1>5. All!Routine!StatesAgree <=> Routine!StatesAgree
  BY DEF All!Routine!StatesAgree, Routine!StatesAgree, Routine!Coroutines,
     All!Routine!Coroutines, Routine!Mains, All!Routine!Mains, Routine!Main, All!Routine!Main
<1>6. All!Routine!YieldAsserts <=> Routine!YieldAsserts
  BY DEF All!Routine!YieldAsserts, Routine!YieldAsserts, Routine!Main, All!Routine!Main
<1>7. All!Routine!StackKept => Routine!StackKept
  BY DEF All!Routine!StackKept, Routine!StackKept, Routine!vars, All!Routine!vars, Routine!state,
     All!Routine!state, Routine!comain, All!Routine!comain, Routine!Coroutines,
     All!Routine!Coroutines, Routine!Mains, All!Routine!Mains, Routine!Main, All!Routine!Main
<1> QED
  BY <1>1, <1>2, <1>3, <1>4, <1>5, <1>6, <1>7, RoutinesRun, PTL DEF SwapsToSavedStack

-----------------------------------------------------------------------------
(* The collector beside the event *)

LEMMA CollectorAssumed == All!GcAssumption
  BY CollectorAssumption DEF All!GcAssumption, Collector!GcAssumption

LEMMA CollectorInitIs == AnyInit => All!Init
  BY DEF AnyInit, Collector!Init, All!Init, Collector!Roots, All!Roots,
     Collector!Clear, All!Clear, Collector!NoNew, All!NoNew

LEMMA CollectorNextIs == Collector!Next => All!Next
<1> USE DEF Collector!Go, All!Go, Collector!Running, All!Running, Collector!Unlocked,
        All!Unlocked, Collector!heap, All!heap, Collector!NoNew, All!NoNew,
        Collector!Begin, All!Begin, Collector!Clear, All!Clear,
        Collector!ToSet, All!ToSet
<1>1. ASSUME NEW t, NEW h
      PROVE  /\ Collector!Construct(t, h) => All!Construct(t, h)
             /\ Collector!Destruct(t, h) => All!Destruct(t, h)
             /\ Collector!Assign(t, h) => All!Assign(t, h)
             /\ Collector!Store(t, h) => All!Store(t, h)
             /\ Collector!NewLock(t, h) => All!NewLock(t, h)
  BY Zenon DEF Collector!Construct, All!Construct, Collector!Destruct, All!Destruct,
     Collector!Assign, All!Assign, Collector!Store, All!Store, Collector!NewLock,
     All!NewLock, Collector!Moves, All!Moves, Collector!Collecting,
     All!Collecting, Collector!RemoveAt, All!RemoveAt
<1>2. ASSUME NEW t
      PROVE  /\ Collector!NewCollect(t) => All!NewCollect(t)
             /\ Collector!NewDone(t) => All!NewDone(t)
             /\ Collector!NewThrows(t) => All!NewThrows(t)
             /\ Collector!CtorNew(t) => All!CtorNew(t)
             /\ Collector!CtorCollect(t) => All!CtorCollect(t)
             /\ \A force \in BOOLEAN : Collector!Collect(t, force) => All!Collect(t, force)
  BY Zenon DEF Collector!NewCollect, All!NewCollect, Collector!NewDone, All!NewDone,
     Collector!NewThrows, All!NewThrows, Collector!CtorNew, All!CtorNew,
     Collector!CtorCollect, All!CtorCollect, Collector!Collect, All!Collect
<1>3. ASSUME NEW t
      PROVE  /\ Collector!ScanRoot(t) => All!ScanRoot(t)
             /\ Collector!ScanEnds(t) => All!ScanEnds(t)
             /\ Collector!MarkOne(t) => All!MarkOne(t)
             /\ Collector!MarkFails(t) => All!MarkFails(t)
             /\ Collector!ScanFails(t) => All!ScanFails(t)
  BY Zenon DEF Collector!ScanRoot, All!ScanRoot, Collector!ScanEnds, All!ScanEnds,
     Collector!MarkOne, All!MarkOne, Collector!Unmarked, All!Unmarked,
     Collector!MarkFails, All!MarkFails, Collector!ScanFails, All!ScanFails,
     Collector!Returns, All!Returns
<1>4. ASSUME NEW t PROVE Collector!Sweep(t) <=> All!Sweep(t)
  BY Zenon DEF Collector!Sweep, All!Sweep, Collector!Returns, All!Returns
<1>5. Collector!Dangling <=> All!Dangling
  BY Zenon DEF Collector!Dangling, All!Dangling, Collector!Roots, All!Roots
<1> QED
  BY <1>1, <1>2, <1>3, <1>4, <1>5, Zenon
     DEF Collector!Next, All!Next, Collector!Step, All!Step

LEMMA CollectorStepIs == [AnyNext]_allVars => [All!Next]_(All!vars)
<1>1. UNCHANGED gcVars => UNCHANGED All!vars
  BY DEF All!vars, gcVars
<1> QED
  BY <1>1, CollectorNextIs DEF AnyNext, Events, Locks, Swaps, Collects, allVars

LEMMA CollectorRuns == AnySpec => All!Spec
  BY CollectorInitIs, CollectorStepIs, PTL DEF AnySpec, All!Spec

\* gc() destroys what cannot be reached from a root, and nothing else, in the run and for all
\* numbers of threads, objects and roots.
THEOREM CollectsExactly == AnySpec => KeepsExactlyReachable
<1>1. All!Spec => []All!TypeOK /\ All!KeepsExactlyReachable
  BY CollectorAssumed, All!GcTypes, All!CollectsExactly
<1>2. All!TypeOK <=> Collector!TypeOK
  BY DEF All!TypeOK, Collector!TypeOK, All!Roots, Collector!Roots
<1>3. All!Reachable = Collector!Reachable
  BY Zenon DEF All!Reachable, Collector!Reachable, All!Closure, Collector!Closure,
     All!Closed, Collector!Closed, All!ToSet, Collector!ToSet
<1>4. ASSUME NEW t PROVE Collector!Sweep(t) <=> All!Sweep(t)
  BY Zenon DEF Collector!Sweep, All!Sweep, Collector!Returns, All!Returns,
     Collector!Go, All!Go, Collector!NoNew, All!NoNew, Collector!Clear, All!Clear
<1>5. [All!Keeps]_(All!vars) => [which = "gc" => Collector!Keeps]_gcVars
  BY <1>3, <1>4 DEF All!Keeps, Collector!Keeps, All!vars, gcVars
<1> QED
  BY <1>1, <1>2, <1>5, CollectorRuns, PTL
     DEF KeepsExactlyReachable, All!KeepsExactlyReachable

==============================================================================
