---------------------------- MODULE ThreadManager ----------------------------
(***************************************************************************)
(* Thread, ThreadImpl and ThreadManager (src/vhwd/threading/thread.cpp,    *)
(* thread_impl.cpp, thread_manager.cpp).  A Thread is a job description    *)
(* that activate() hands to n ThreadImpls, each an operating system        *)
(* thread; a ThreadImpl whose job is done goes to the manager's free list  *)
(* and waits there for another one.                                        *)
(*                                                                         *)
(* One step is one critical section of the manager's or the thread's       *)
(* m_thrd_mutex, or one access made without them.                          *)
(***************************************************************************)
EXTENDS Integers, FiniteSets

CONSTANTS Thrds,    \* Thread objects
          Impls,    \* memory for ThreadImpl objects; bounds how many exist at a time
          Clients,  \* program threads that call the two classes
          Roles,    \* what the clients may be there for, each a set of calls per client
          Sizes,    \* numbers of threads an activation starts
          Dynamic,  \* Threads with FLAG_DYNAMIC
          Looping,  \* Threads whose svc() runs until test_destroy() answers true
          Nil       \* the null pointer

Calls == {"activate", "wait", "reqexit", "pause", "resume",
          "main_reqexit", "manager_close", "manager_wait"}

ASSUME ManagerAssumption ==
  /\ Nil \notin Thrds \cup Impls
  /\ IsFiniteSet(Impls)
  /\ Sizes \subseteq Nat \ {0}
  /\ Dynamic \subseteq Thrds /\ Looping \subseteq Thrds
  /\ Roles \subseteq [Clients -> SUBSET Calls]

VARIABLES
  disabled,                  \* THREADMANAGER_DISABLED; the code never sets the other flag
  m_nThreadNum, m_nThreadJob,
  m_pThreads_free,           \* head of the free list
  pNext, pPrev,              \* its links
  thrd_ptr, thrd_rank, pc,   \* each ThreadImpl's job and where its thread is
  leaving,                   \* threads past "delete this", not yet counted out
  m_nState, m_nAlive,        \* of each Thread
  m_bReqExit,                \* the main thread's exit request
  cpc, on, old,              \* each client's place, its Thread, what it has loaded
  ops                        \* the clients' roles, fixed at the start

manager == <<disabled, m_nThreadNum, m_nThreadJob, leaving>>
freelist == <<m_pThreads_free, pNext, pPrev>>
impl == <<thrd_ptr, thrd_rank, pc>>
thread == <<m_nState, m_nAlive, m_bReqExit>>
client == <<cpc, on, old, ops>>
vars == <<manager, freelist, impl, thread, client>>

Init ==
  /\ disabled = FALSE /\ m_nThreadNum = 0 /\ m_nThreadJob = 0 /\ leaving = 0
  /\ m_pThreads_free = Nil
  /\ pNext = [i \in Impls |-> Nil] /\ pPrev = [i \in Impls |-> Nil]
  /\ thrd_ptr = [i \in Impls |-> Nil] /\ thrd_rank = [i \in Impls |-> -1]
  /\ pc = [i \in Impls |-> "none"]
  /\ m_nState = [t \in Thrds |-> {}] /\ m_nAlive = [t \in Thrds |-> 0]
  /\ m_bReqExit = FALSE
  /\ cpc = [c \in Clients |-> "idle"]
  /\ on = [c \in Clients |-> Nil]
  /\ old = [c \in Clients |-> {}]
  /\ ops \in Roles

\* Mutant: one waiting ThreadImpl is woken, whichever.
NotifyOneAttached ==
  LET parked == {i \in Impls : pc[i] = "parked"} IN
  IF parked = {} THEN pc ELSE [pc EXCEPT ![CHOOSE i \in parked : TRUE] = "loop"]

\* Mutant: the clients that wait for the Thread are not woken.
NotifyNobody(t) == cpc

\* pthread's broadcast on m_thrd_attached and on a Thread's m_cond_thrd_empty
NotifyAttached == [i \in Impls |-> IF pc[i] = "parked" THEN "loop" ELSE pc[i]]
NotifyEmpty(t) == [c \in Clients |-> IF cpc[c] = "waiting" /\ on[c] = t THEN "recheck" ELSE cpc[c]]

Goto(i, l) == pc' = [pc EXCEPT ![i] = l]

\* What test_destroy() of t answers when it does not block, and when it blocks.
Stops(t) == "CANCEL" \in m_nState[t] \/ m_bReqExit
Blocks(t) == "PAUSED" \in m_nState[t] /\ ~Stops(t)

-----------------------------------------------------------------------------
(* The free list *)

\* The k-th ThreadImpl from the head, or Nil.
FreeAt[k \in 0..Cardinality(Impls)] ==
  IF k = 0 THEN m_pThreads_free
  ELSE IF FreeAt[k-1] = Nil THEN Nil ELSE pNext[FreeAt[k-1]]

\* n calls of get_thread(): from the head of the free list, then new ones.
GetThreads(n) ==
  {f \in [0..n-1 -> Impls] :
     /\ \A j, k \in 0..n-1 : f[j] = f[k] => j = k
     /\ \A k \in 0..n-1 : IF FreeAt[k] # Nil THEN f[k] = FreeAt[k] ELSE pc[f[k]] = "none"}

Created(f) == {f[k] : k \in {k \in DOMAIN f : FreeAt[k] = Nil}}

TakeFree(n) ==
  LET rest == FreeAt[n] IN
  /\ m_pThreads_free' = rest
  /\ pPrev' = [i \in Impls |-> IF i = rest THEN Nil ELSE pPrev[i]]

\* put_thread(impl)
PutFree(i) ==
  /\ pNext' = [pNext EXCEPT ![i] = m_pThreads_free]
  /\ pPrev' = [k \in Impls |-> IF k = i THEN Nil
                               ELSE IF k = m_pThreads_free THEN i ELSE pPrev[k]]
  /\ m_pThreads_free' = i

-----------------------------------------------------------------------------
(* Clients *)

Call(c, op) == cpc[c] = "idle" /\ op \in ops[c]

MayActivate(t) == t \in Dynamic \/ m_nAlive[t] = 0

\* ThreadImpl::activate(thrd,n), when every thread can be created; it answers
\* false without an effect when the manager is disabled or the Thread alive.
Activate(c, t, n) ==
  /\ Call(c, "activate")
  /\ ~disabled /\ MayActivate(t)
  /\ Cardinality(Impls) >= n
  /\ \E f \in GetThreads(n) :
       /\ TakeFree(n)
       /\ pNext' = [i \in Impls |-> IF i \in Created(f) THEN Nil ELSE pNext[i]]
       /\ thrd_ptr' = [i \in Impls |-> IF \E k \in 0..n-1 : f[k] = i THEN t ELSE thrd_ptr[i]]
       /\ thrd_rank' = [i \in Impls |-> IF \E k \in 0..n-1 : f[k] = i
                                        THEN CHOOSE k \in 0..n-1 : f[k] = i ELSE thrd_rank[i]]
       /\ pc' = [i \in Impls |-> IF i \in Created(f) THEN "enter" ELSE NotifyAttached[i]]
  /\ m_nAlive' = [m_nAlive EXCEPT ![t] = @ + n]
  /\ UNCHANGED <<manager, m_nState, m_bReqExit, client>>

\* Thread::reqexit()
ReqExit(c, t) ==
  /\ Call(c, "reqexit")
  /\ m_nState' = [m_nState EXCEPT ![t] = {"CANCEL"}]
  /\ UNCHANGED <<manager, freelist, impl, m_nAlive, m_bReqExit, client>>

\* Thread::pause(): m_nState|=STATE_PAUSED without the mutex, a load and a store
PauseLoad(c, t) ==
  /\ Call(c, "pause")
  /\ cpc' = [cpc EXCEPT ![c] = "pausing"]
  /\ on' = [on EXCEPT ![c] = t]
  /\ old' = [old EXCEPT ![c] = m_nState[t]]
  /\ UNCHANGED <<manager, freelist, impl, thread, ops>>

PauseStore(c) ==
  /\ cpc[c] = "pausing"
  /\ m_nState' = [m_nState EXCEPT ![on[c]] = old[c] \cup {"PAUSED"}]
  /\ cpc' = [cpc EXCEPT ![c] = "idle"]
  /\ on' = [on EXCEPT ![c] = Nil]
  /\ old' = [old EXCEPT ![c] = {}]
  /\ UNCHANGED <<manager, freelist, impl, m_nAlive, m_bReqExit, ops>>

\* Thread::resume(): m_nState|=~STATE_PAUSED sets every other bit
Resume(c, t) ==
  /\ Call(c, "resume")
  /\ m_nState' = [m_nState EXCEPT ![t] = @ \cup {"CANCEL"}]
  /\ UNCHANGED <<manager, freelist, impl, m_nAlive, m_bReqExit, client>>

\* Thread::wait(): while(m_nAlive!=0) m_cond_thrd_empty.wait(lock1);
Wait(c, t) ==
  /\ Call(c, "wait")
  /\ m_nAlive[t] # 0
  /\ cpc' = [cpc EXCEPT ![c] = "waiting"]
  /\ on' = [on EXCEPT ![c] = t]
  /\ UNCHANGED <<manager, freelist, impl, thread, old, ops>>

WaitAgain(c) ==
  /\ cpc[c] = "recheck"
  /\ IF m_nAlive[on[c]] # 0
     THEN cpc' = [cpc EXCEPT ![c] = "waiting"] /\ UNCHANGED on
     ELSE cpc' = [cpc EXCEPT ![c] = "idle"] /\ on' = [on EXCEPT ![c] = Nil]
  /\ UNCHANGED <<manager, freelist, impl, thread, old, ops>>

WaitWakesByItself(c) ==
  /\ cpc[c] = "waiting"
  /\ cpc' = [cpc EXCEPT ![c] = "recheck"]
  /\ UNCHANGED <<manager, freelist, impl, thread, on, old, ops>>

\* Thread::main_thread().reqexit()
MainReqExit(c) ==
  /\ Call(c, "main_reqexit")
  /\ m_bReqExit' = TRUE
  /\ UNCHANGED <<manager, freelist, impl, m_nState, m_nAlive, client>>

\* ThreadManager::close()
Close(c) ==
  /\ Call(c, "manager_close")
  /\ disabled' = TRUE
  /\ pc' = NotifyAttached
  /\ UNCHANGED <<m_nThreadNum, m_nThreadJob, leaving, freelist, thrd_ptr, thrd_rank,
                 thread, client>>

\* ThreadManager::wait(): the flags are loaded before the mutex is taken
ManagerLoad(c) ==
  /\ Call(c, "manager_wait")
  /\ cpc' = [cpc EXCEPT ![c] = "disabling"]
  /\ old' = [old EXCEPT ![c] = IF disabled THEN {"DISABLED"} ELSE {}]
  /\ UNCHANGED <<manager, freelist, impl, thread, on, ops>>

ManagerDisable(c) ==
  /\ cpc[c] = "disabling"
  /\ disabled' = TRUE
  /\ pc' = NotifyAttached
  /\ cpc' = [cpc EXCEPT ![c] = "draining"]
  /\ UNCHANGED <<m_nThreadNum, m_nThreadJob, leaving, freelist, thrd_ptr, thrd_rank,
                 thread, on, old, ops>>

\* Mutant: the manager's wait looks at the jobs.
DrainedOfJobs == m_nThreadJob = 0

Drained == m_nThreadNum = 0

\* It looks again every 100ms, and restores what it loaded.
ManagerDrained(c) ==
  /\ cpc[c] = "draining"
  /\ Drained
  /\ disabled' = (old[c] # {})
  /\ cpc' = [cpc EXCEPT ![c] = "idle"]
  /\ old' = [old EXCEPT ![c] = {}]
  /\ UNCHANGED <<m_nThreadNum, m_nThreadJob, leaving, freelist, impl, thread, on, ops>>

-----------------------------------------------------------------------------
(* ThreadImpls *)

\* delete this
Delete(i) ==
  /\ Goto(i, "none")
  /\ thrd_ptr' = [thrd_ptr EXCEPT ![i] = Nil]
  /\ thrd_rank' = [thrd_rank EXCEPT ![i] = -1]

\* svc_enter()
SvcEnter(i) ==
  /\ pc[i] = "enter"
  /\ IF disabled
     THEN Delete(i) /\ UNCHANGED m_nThreadNum
     ELSE /\ Goto(i, "loop")
          /\ m_nThreadNum' = m_nThreadNum + 1
          /\ UNCHANGED <<thrd_ptr, thrd_rank>>
  /\ UNCHANGED <<disabled, m_nThreadJob, leaving, freelist, thread, client>>

\* svc(): there is a job
SvcTake(i) ==
  /\ pc[i] = "loop" /\ thrd_ptr[i] # Nil
  /\ m_nThreadJob' = m_nThreadJob + 1
  /\ Goto(i, "prelude")
  /\ UNCHANGED <<disabled, m_nThreadNum, leaving, freelist, thrd_ptr, thrd_rank, thread, client>>

\* svc(): there is none
SvcPark(i) ==
  /\ pc[i] = "loop" /\ thrd_ptr[i] = Nil /\ ~disabled
  /\ Goto(i, "parked")
  /\ UNCHANGED <<manager, freelist, thrd_ptr, thrd_rank, thread, client>>

SvcWakesByItself(i) ==
  /\ pc[i] = "parked"
  /\ Goto(i, "loop")
  /\ UNCHANGED <<manager, freelist, thrd_ptr, thrd_rank, thread, client>>

\* svc(): the neighbours are linked to each other; the head stays
SvcUnlink(i) ==
  /\ pc[i] = "loop" /\ thrd_ptr[i] = Nil /\ disabled
  /\ pNext' = [k \in Impls |-> IF k = pPrev[i] THEN pNext[i] ELSE pNext[k]]
  /\ pPrev' = [k \in Impls |-> IF k = pNext[i] THEN pPrev[i] ELSE pPrev[k]]
  /\ Goto(i, "delete")
  /\ UNCHANGED <<manager, m_pThreads_free, thrd_ptr, thrd_rank, thread, client>>

\* thrd_ptr->test_destroy(), its answer unused: it may block
SvcPrelude(i) ==
  /\ pc[i] = "prelude"
  /\ ~Blocks(thrd_ptr[i])
  /\ Goto(i, "run")
  /\ UNCHANGED <<manager, freelist, thrd_ptr, thrd_rank, thread, client>>

\* The job's svc() returns, or throws.
SvcReturns(i) ==
  /\ pc[i] = "run"
  /\ thrd_ptr[i] \in Looping => Stops(thrd_ptr[i])
  /\ Goto(i, "done")
  /\ UNCHANGED <<manager, freelist, thrd_ptr, thrd_rank, thread, client>>

\* Mutant: the state is cleared by whichever thread leaves.
ClearedByAny(t) == {}

\* m_nState, when thread leaves
StateAfterLeaving(t) == IF m_nAlive[t] = 1 THEN {} ELSE m_nState[t]

\* Mutant: the ThreadImpl keeps its job.
JobDoneKeepsJob(i) ==
  LET t == thrd_ptr[i] IN
  /\ pc[i] = "done"
  /\ m_nAlive' = [m_nAlive EXCEPT ![t] = @ - 1]
  /\ m_nState' = [m_nState EXCEPT ![t] = StateAfterLeaving(t)]
  /\ cpc' = IF m_nAlive[t] = 1 THEN NotifyEmpty(t) ELSE cpc
  /\ Goto(i, "put")
  /\ UNCHANGED <<manager, freelist, thrd_ptr, thrd_rank, m_bReqExit, on, old, ops>>

\* svc(): --m_nAlive, under the Thread's mutex
JobDone(i) ==
  LET t == thrd_ptr[i] IN
  /\ pc[i] = "done"
  /\ m_nAlive' = [m_nAlive EXCEPT ![t] = @ - 1]
  /\ m_nState' = [m_nState EXCEPT ![t] = StateAfterLeaving(t)]
  /\ cpc' = IF m_nAlive[t] = 1 THEN NotifyEmpty(t) ELSE cpc
  /\ thrd_ptr' = [thrd_ptr EXCEPT ![i] = Nil]
  /\ Goto(i, "put")
  /\ UNCHANGED <<manager, freelist, thrd_rank, m_bReqExit, on, old, ops>>

\* svc(): back to the free list, unless the manager is disabled
PutThread(i) ==
  /\ pc[i] = "put"
  /\ m_nThreadJob' = m_nThreadJob - 1
  /\ IF disabled
     THEN Goto(i, "delete") /\ UNCHANGED freelist
     ELSE Goto(i, "loop") /\ PutFree(i)
  /\ UNCHANGED <<disabled, m_nThreadNum, leaving, thrd_ptr, thrd_rank, thread, client>>

\* svc_leave()
SvcDelete(i) ==
  /\ pc[i] = "delete"
  /\ Delete(i)
  /\ leaving' = leaving + 1
  /\ UNCHANGED <<disabled, m_nThreadNum, m_nThreadJob, freelist, thread, client>>

SvcLeave ==
  /\ leaving > 0
  /\ leaving' = leaving - 1
  /\ m_nThreadNum' = m_nThreadNum - 1
  /\ UNCHANGED <<disabled, m_nThreadJob, freelist, impl, thread, client>>

-----------------------------------------------------------------------------

ImplStep(i) ==
  \/ SvcEnter(i) \/ SvcTake(i) \/ SvcPark(i) \/ SvcUnlink(i) \/ SvcPrelude(i)
  \/ SvcReturns(i) \/ JobDone(i) \/ PutThread(i) \/ SvcDelete(i)

ClientStep(c) == PauseStore(c) \/ WaitAgain(c) \/ ManagerDisable(c) \/ ManagerDrained(c)

ClientCall(c) ==
  \/ \E t \in Thrds : \/ \E n \in Sizes : Activate(c, t, n)
                      \/ ReqExit(c, t) \/ PauseLoad(c, t) \/ Resume(c, t) \/ Wait(c, t)
  \/ MainReqExit(c) \/ Close(c) \/ ManagerLoad(c)

Next ==
  \/ \E i \in Impls : ImplStep(i) \/ SvcWakesByItself(i)
  \/ SvcLeave
  \/ \E c \in Clients : ClientCall(c) \/ ClientStep(c) \/ WaitWakesByItself(c)

Spec == Init /\ [][Next]_vars

\* The operating system runs every thread that can run; nobody has to call.
FairSpec ==
  /\ Spec
  /\ \A i \in Impls : WF_vars(ImplStep(i))
  /\ WF_vars(SvcLeave)
  /\ \A c \in Clients : WF_vars(ClientStep(c))

-----------------------------------------------------------------------------
(* Properties *)

Labels == {"none", "enter", "loop", "parked", "prelude", "run", "done", "put", "delete"}

\* The values the fields of the three classes range over.
TypeOK ==
  /\ disabled \in BOOLEAN /\ m_bReqExit \in BOOLEAN
  /\ m_nThreadNum \in Nat /\ m_nThreadJob \in Nat /\ leaving \in Nat
  /\ m_pThreads_free \in Impls \cup {Nil}
  /\ pNext \in [Impls -> Impls \cup {Nil}] /\ pPrev \in [Impls -> Impls \cup {Nil}]
  /\ thrd_ptr \in [Impls -> Thrds \cup {Nil}]
  /\ thrd_rank \in [Impls -> Nat \cup {-1}]
  /\ pc \in [Impls -> Labels]
  /\ m_nState \in [Thrds -> SUBSET {"PAUSED", "CANCEL"}]
  /\ m_nAlive \in [Thrds -> Nat]
  /\ cpc \in [Clients -> {"idle", "waiting", "recheck", "pausing", "disabling", "draining"}]
  /\ on \in [Clients -> Thrds \cup {Nil}]
  /\ old \in [Clients -> SUBSET {"PAUSED", "CANCEL", "DISABLED"}]

\* Nobody takes the manager down.
ManagerStays == \A c \in Clients : ops[c] \cap {"manager_close", "manager_wait"} = {}

\* count(), "Return running thread count.": m_nAlive counts the ThreadImpls that
\* have the Thread as their job, while the manager stays.
AliveCounts == ManagerStays =>
  \A t \in Thrds : m_nAlive[t] = Cardinality({i \in Impls : thrd_ptr[i] = t})

\* The ThreadImpls without a job, once they have started and are not leaving.
Idle == {i \in Impls : thrd_ptr[i] = Nil /\ pc[i] \in {"loop", "parked"}}

\* While the manager stays, the free list is a doubly linked list
\* of exactly the idle ThreadImpls: none is lost, none is handed out twice.
FreeListIsIdle == ManagerStays =>
  LET n == Cardinality(Idle) IN
  /\ {FreeAt[k] : k \in 0..n-1} = Idle
  /\ FreeAt[n] = Nil
  /\ \A k \in 0..n-1 : pPrev[FreeAt[k]] = IF k = 0 THEN Nil ELSE FreeAt[k-1]

\* The types, and what the manager counts and lists: while it stays, m_nAlive and the free list
\* agree with what the ThreadImpls do.
BooksAgree == TypeOK /\ AliveCounts /\ FreeListIsIdle

\* An activated job is in the hands of a ThreadImpl that exists ("Start one thread
\* calling entry point").
JobsHaveThreads ==
  \A i \in Impls : thrd_ptr[i] # Nil => pc[i] # "none"

\* ThreadManager::wait() returns when no thread that has started is left, down to
\* the deletion of its ThreadImpl.
WaitDrains ==
  [][\A c \in Clients : cpc[c] = "draining" /\ cpc'[c] = "idle"
       => leaving = 0 /\ \A i \in Impls : pc[i] \in {"none", "enter"}]_vars

\* Every activated job gets to its svc(), while the manager stays: no wake-up of a
\* parked thread is lost.
ActivatedRuns == ManagerStays =>
  \A i \in Impls :
    thrd_ptr[i] # Nil /\ pc[i] \in {"enter", "loop", "parked"} ~> pc[i] = "run"

\* After an exit request all threads of the Thread leave, when their svc() looks at
\* test_destroy().
ExitHonoured ==
  \A t \in Thrds : "CANCEL" \in m_nState[t] /\ m_nAlive[t] > 0 ~> m_nAlive[t] = 0

\* wait() returns once the Thread is asked to exit ("Wait until thread terminates.").
WaitReturns ==
  \A c \in Clients : cpc[c] = "waiting" /\ Stops(on[c]) ~> cpc[c] = "idle"
=============================================================================
