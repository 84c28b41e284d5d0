------------------------------ MODULE ThreadPool ------------------------------
(***************************************************************************)
(* ThreadPool (src/vhwd/threading/thread_pool.cpp): a Thread whose svc()   *)
(* takes tasks from a queue.  putq() starts one more worker whenever the   *)
(* queue is a multiple of the hint; a worker that finds the queue empty    *)
(* leaves when another one is waiting and there are more than the minimum. *)
(*                                                                         *)
(* m_tMutex is explicit: getq() holds it while test_destroy() blocks.  The *)
(* manager's side of a worker (see ThreadManager) is its start and its     *)
(* end, --m_nAlive.                                                        *)
(***************************************************************************)
EXTENDS Integers, Sequences, FiniteSets

CONSTANTS Workers,      \* threads; bounds how many are alive at a time
          Tasks,        \* what is put into the queue, each once
          WorkerMin, WorkerMax, TaskHint,  \* m_nWorkerMin, m_nWorkerMax, m_nTaskHint
          MaxStarts,    \* bound: how often activate() is called with effect
          Uses          \* what the clients call besides putq and activate, and whether
                        \* tasks may throw

ASSUME PoolAssumption ==
  /\ IsFiniteSet(Workers)
  /\ WorkerMin \in Nat \ {0} /\ WorkerMax \in Nat /\ WorkerMin <= WorkerMax
  /\ TaskHint \in Nat \ {0} /\ MaxStarts \in Nat
  /\ Uses \subseteq [calls : SUBSET {"reqexit", "pause", "resume"}, throws : BOOLEAN]

\* Some uses: nobody interferes, somebody ends the pool and tasks throw, somebody pauses it.
Quiet == [calls |-> {}, throws |-> FALSE]
Stopped == [calls |-> {"reqexit"}, throws |-> TRUE]
Paused == [calls |-> {"reqexit", "pause", "resume"}, throws |-> FALSE]

AllUses == {Quiet, Stopped, Paused}
PauseAndStop == {[calls |-> {"reqexit", "pause"}, throws |-> FALSE]}

VARIABLES m_tTaskQueue, mutex,        \* mutex: the holder of m_tMutex, {} or a singleton
          m_nWorkerNum, m_nWorkerWait,
          m_nAlive, m_nState,         \* of the Thread that the pool is
          pc, job,                    \* each worker's place and its task
          fate,                       \* what has become of each task
          exiting,                    \* a client is inside reqexit()
          starts,
          use                         \* one of Uses, fixed at the start

queue == <<m_tTaskQueue, fate>>
count == <<m_nWorkerNum, m_nWorkerWait>>
thread == <<m_nAlive, m_nState>>
worker == <<pc, job>>
vars == <<queue, mutex, count, thread, worker, exiting, starts, use>>

NoTask == <<>>

Init ==
  /\ m_tTaskQueue = <<>> /\ mutex = {}
  /\ m_nWorkerNum = 0 /\ m_nWorkerWait = 0
  /\ m_nAlive = 0 /\ m_nState = {}
  /\ pc = [w \in Workers |-> "none"]
  /\ job = [w \in Workers |-> NoTask]
  /\ fate = [t \in Tasks |-> "new"]
  /\ exiting = FALSE /\ starts = 0
  /\ use \in Uses

Goto(w, l) == pc' = [pc EXCEPT ![w] = l]

Stops == "CANCEL" \in m_nState
Blocks == "PAUSED" \in m_nState /\ ~Stops

Sleeping == {w \in Workers : pc[w] = "sleep"}

-----------------------------------------------------------------------------
(* putq, activate, reqexit *)

\* if(qs%m_nTaskHint==0) if(m_nWorkerNum<m_nWorkerMax)
NeedsWorker(n) == n % TaskHint = 0 /\ m_nWorkerNum < WorkerMax

\* Mutant: nobody is told.
WakesNobody == {{}}

\* if(m_nWorkerWait>0) m_tCond.notify_one(); of those that sleep
WakesOne ==
  IF m_nWorkerWait > 0 /\ Sleeping # {} THEN {{w} : w \in Sleeping} ELSE {{}}

\* What a thread goes through in ThreadImpl::activate: Thread::m_nAlive and svc().
StartWorkers(n, woken) ==
  /\ \E new \in SUBSET {w \in Workers : pc[w] = "none"} :
       /\ Cardinality(new) = n
       /\ pc' = [w \in Workers |-> IF w \in new THEN "start"
                                   ELSE IF w \in woken THEN "woken" ELSE pc[w]]
  /\ m_nAlive' = m_nAlive + n

Putq(t) ==
  LET n == Len(m_tTaskQueue) + 1 IN
  /\ fate[t] = "new" /\ mutex = {}
  /\ m_tTaskQueue' = Append(m_tTaskQueue, t)
  /\ fate' = [fate EXCEPT ![t] = "queued"]
  /\ \E woken \in WakesOne :
       IF NeedsWorker(n)
       THEN StartWorkers(1, woken) /\ m_nWorkerNum' = m_nWorkerNum + 1
       ELSE /\ pc' = [w \in Workers |-> IF w \in woken THEN "woken" ELSE pc[w]]
            /\ UNCHANGED <<m_nAlive, m_nWorkerNum>>
  /\ UNCHANGED <<mutex, m_nWorkerWait, m_nState, job, exiting, starts, use>>

Activate ==
  /\ starts < MaxStarts /\ mutex = {}
  /\ m_nWorkerNum = 0
  /\ StartWorkers(WorkerMin, {})
  /\ m_nWorkerNum' = WorkerMin
  /\ starts' = starts + 1
  /\ UNCHANGED <<queue, mutex, m_nWorkerWait, m_nState, job, exiting, use>>

ReqExitCall ==
  /\ "reqexit" \in use.calls /\ ~exiting
  /\ exiting' = TRUE
  /\ UNCHANGED <<queue, mutex, count, thread, worker, starts, use>>

\* Mutant: the waiting workers are not woken.
ReqExitSilent ==
  /\ exiting /\ mutex = {}
  /\ m_tTaskQueue' = <<>>
  /\ fate' = [t \in Tasks |-> IF fate[t] = "queued" THEN "deleted" ELSE fate[t]]
  /\ m_nState' = {"CANCEL"}
  /\ exiting' = FALSE
  /\ UNCHANGED <<mutex, count, m_nAlive, worker, starts, use>>

\* Every task is popped and told del(); Thread::reqexit(); m_tCond.notify_all()
ReqExit ==
  /\ exiting /\ mutex = {}
  /\ m_tTaskQueue' = <<>>
  /\ fate' = [t \in Tasks |-> IF fate[t] = "queued" THEN "deleted" ELSE fate[t]]
  /\ m_nState' = {"CANCEL"}
  /\ pc' = [w \in Workers |-> IF pc[w] = "sleep" THEN "woken" ELSE pc[w]]
  /\ exiting' = FALSE
  /\ UNCHANGED <<mutex, count, m_nAlive, job, starts, use>>

\* Thread::pause() and Thread::resume(), which takes no flag away
Pause ==
  /\ "pause" \in use.calls
  /\ m_nState' = m_nState \cup {"PAUSED"}
  /\ UNCHANGED <<queue, mutex, count, m_nAlive, worker, exiting, starts, use>>

Resume ==
  /\ "resume" \in use.calls
  /\ m_nState' = m_nState \cup {"CANCEL"}
  /\ UNCHANGED <<queue, mutex, count, m_nAlive, worker, exiting, starts, use>>

-----------------------------------------------------------------------------
(* Workers *)

\* ThreadImpl::svc(): thrd_ptr->test_destroy(), then svc()
Start(w) ==
  /\ pc[w] = "start" /\ ~Blocks
  /\ Goto(w, "getq")
  /\ UNCHANGED <<queue, mutex, count, thread, job, exiting, starts, use>>

\* getq(): LockGuard
Enter(w) ==
  /\ pc[w] = "getq" /\ mutex = {}
  /\ mutex' = {w}
  /\ Goto(w, "loop")
  /\ UNCHANGED <<queue, count, thread, job, exiting, starts, use>>

\* if(test_destroy()) { m_nWorkerNum--; return NULL; }
Exit(w) ==
  /\ pc[w] = "loop" /\ Stops
  /\ m_nWorkerNum' = m_nWorkerNum - 1
  /\ mutex' = {}
  /\ Goto(w, "leave")
  /\ UNCHANGED <<queue, m_nWorkerWait, thread, job, exiting, starts, use>>

\* Mutant: the task stays in the queue.
PopKeeps(w) ==
  /\ pc[w] = "loop" /\ m_nState = {} /\ m_tTaskQueue # <<>>
  /\ job' = [job EXCEPT ![w] = <<Head(m_tTaskQueue)>>]
  /\ fate' = [fate EXCEPT ![Head(m_tTaskQueue)] = "running"]
  /\ mutex' = {}
  /\ Goto(w, "run")
  /\ UNCHANGED <<m_tTaskQueue, count, thread, exiting, starts, use>>

\* q=m_tTaskQueue.pop_front(); return q
Pop(w) ==
  /\ pc[w] = "loop" /\ m_nState = {} /\ m_tTaskQueue # <<>>
  /\ job' = [job EXCEPT ![w] = <<Head(m_tTaskQueue)>>]
  /\ fate' = [fate EXCEPT ![Head(m_tTaskQueue)] = "running"]
  /\ m_tTaskQueue' = Tail(m_tTaskQueue)
  /\ mutex' = {}
  /\ Goto(w, "run")
  /\ UNCHANGED <<count, thread, exiting, starts, use>>

TooMany == m_nWorkerWait > 0 /\ m_nWorkerNum > WorkerMin

\* "too many workers, leaving"
LeaveTooMany(w) ==
  /\ pc[w] = "loop" /\ m_nState = {} /\ m_tTaskQueue = <<>>
  /\ TooMany
  /\ m_nWorkerNum' = m_nWorkerNum - 1
  /\ mutex' = {}
  /\ Goto(w, "leave")
  /\ UNCHANGED <<queue, m_nWorkerWait, thread, job, exiting, starts, use>>

\* m_nWorkerWait++; m_tCond.wait(m_tMutex);
Sleep(w) ==
  /\ pc[w] = "loop" /\ m_nState = {} /\ m_tTaskQueue = <<>>
  /\ ~TooMany
  /\ m_nWorkerWait' = m_nWorkerWait + 1
  /\ mutex' = {}
  /\ Goto(w, "sleep")
  /\ UNCHANGED <<queue, m_nWorkerNum, thread, job, exiting, starts, use>>

WakesByItself(w) ==
  /\ pc[w] = "sleep"
  /\ Goto(w, "woken")
  /\ UNCHANGED <<queue, mutex, count, thread, job, exiting, starts, use>>

\* m_nWorkerWait--;
Wake(w) ==
  /\ pc[w] = "woken" /\ mutex = {}
  /\ m_nWorkerWait' = m_nWorkerWait - 1
  /\ mutex' = {w}
  /\ Goto(w, "loop")
  /\ UNCHANGED <<queue, m_nWorkerNum, thread, job, exiting, starts, use>>

\* q->hjob->svc(q->pdat); delete q;
Run(w) ==
  /\ pc[w] = "run"
  /\ fate' = [fate EXCEPT ![job[w][1]] = "done"]
  /\ job' = [job EXCEPT ![w] = NoTask]
  /\ Goto(w, "getq")
  /\ UNCHANGED <<m_tTaskQueue, mutex, count, thread, exiting, starts, use>>

\* The task throws: the worker's svc() ends, caught by ThreadImpl::svc().
Throw(w) ==
  /\ use.throws /\ pc[w] = "run"
  /\ fate' = [fate EXCEPT ![job[w][1]] = "done"]
  /\ job' = [job EXCEPT ![w] = NoTask]
  /\ Goto(w, "leave")
  /\ UNCHANGED <<m_tTaskQueue, mutex, count, thread, exiting, starts, use>>

\* ThreadImpl::svc(): --m_nAlive, m_nState=0 by the last one
End(w) ==
  /\ pc[w] = "leave"
  /\ m_nAlive' = m_nAlive - 1
  /\ m_nState' = IF m_nAlive = 1 THEN {} ELSE m_nState
  /\ Goto(w, "none")
  /\ UNCHANGED <<queue, mutex, count, job, exiting, starts, use>>

-----------------------------------------------------------------------------

WorkerStep(w) ==
  \/ Start(w) \/ Enter(w) \/ Exit(w) \/ Pop(w) \/ LeaveTooMany(w) \/ Sleep(w)
  \/ Wake(w) \/ Run(w) \/ Throw(w) \/ End(w)

Next ==
  \/ \E t \in Tasks : Putq(t)
  \/ Activate \/ ReqExitCall \/ ReqExit \/ Pause \/ Resume
  \/ \E w \in Workers : WorkerStep(w) \/ WakesByItself(w)

Spec == Init /\ [][Next]_vars

\* Every thread runs on, and gets the mutex when it keeps asking for it.
FairSpec == Spec /\ SF_vars(ReqExit) /\ \A w \in Workers : SF_vars(WorkerStep(w))

-----------------------------------------------------------------------------
(* Properties *)

\* The values of the fields and of the workers' places.
TypeOK ==
  /\ m_tTaskQueue \in Seq(Tasks)
  /\ mutex \in {{}} \cup {{w} : w \in Workers}
  /\ m_nWorkerNum \in Nat /\ m_nWorkerWait \in Nat /\ m_nAlive \in Nat
  /\ m_nState \subseteq {"PAUSED", "CANCEL"}
  /\ pc \in [Workers -> {"none", "start", "getq", "loop", "sleep", "woken", "run", "leave"}]
  /\ job \in [Workers -> {NoTask} \cup {<<t>> : t \in Tasks}]
  /\ fate \in [Tasks -> {"new", "queued", "running", "done", "deleted"}]
  /\ exiting \in BOOLEAN /\ starts \in 0..MaxStarts

\* Each task is in one place: once in the queue, or with one worker, or over (run
\* once, or told del()).
EachTaskOnce ==
  \A t \in Tasks :
    /\ Cardinality({k \in 1..Len(m_tTaskQueue) : m_tTaskQueue[k] = t})
         = IF fate[t] = "queued" THEN 1 ELSE 0
    /\ Cardinality({w \in Workers : job[w] = <<t>>}) = IF fate[t] = "running" THEN 1 ELSE 0

\* m_nWorkerNum, m_nWorkerWait and m_nAlive count what they are read for: the
\* workers that will come back to the queue, those that wait, those that exist.  (A
\* worker whose task throws stays in m_nWorkerNum.)
Serving == {w \in Workers : pc[w] \notin {"none", "leave"}}
CountsHold ==
  /\ ~use.throws => m_nWorkerNum = Cardinality(Serving)
  /\ m_nWorkerWait = Cardinality({w \in Workers : pc[w] \in {"sleep", "woken"}})
  /\ m_nAlive = Cardinality({w \in Workers : pc[w] # "none"})

\* There are never more workers than the maximum, and, while nobody asks them to
\* exit, never fewer than the minimum once the pool is active.
WorkersInRange ==
  /\ m_nWorkerNum <= WorkerMax
  /\ use.calls = {} /\ starts > 0 => m_nWorkerNum >= WorkerMin

\* The types, the place of each task, and the counters of the pool: whatever the workers and the
\* callers do, they agree with each other.
PoolAccounted == TypeOK /\ EachTaskOnce /\ CountsHold /\ WorkersInRange

\* A queued task is run when nobody asks the pool to exit and no task throws: no
\* wake-up is lost, and no worker leaves that is needed.
QueuedRuns == use = [calls |-> {}, throws |-> FALSE] =>
  \A t \in Tasks : fate[t] = "queued" /\ m_nWorkerNum > 0 ~> fate[t] = "done"

\* After reqexit() all workers leave, also when tasks throw; activate() is not called
\* for ever, and nobody pauses the pool.
ExitHonoured == "pause" \notin use.calls => Stops /\ m_nAlive > 0 ~> m_nAlive = 0

\* reqexit() sets the exit flag ("Set the thread exit flag, causing member function
\* test_destroy() return true").
ReqExitReturns == exiting ~> ~exiting
=============================================================================
