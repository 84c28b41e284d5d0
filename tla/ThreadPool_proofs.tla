--------------------------- MODULE ThreadPool_proofs ---------------------------
(***************************************************************************)
(* ThreadPool for any number of workers and tasks: each task is in one     *)
(* place, and the pool's counters count the workers that they stand for.   *)
(***************************************************************************)
EXTENDS ThreadPool, TLAPS, FiniteSetTheorems

Places == {"none", "start", "getq", "loop", "sleep", "woken", "run", "leave"}

\* The workers at places of a set.
At(L) == {w \in Workers : pc[w] \in L}

Alive == Places \ {"none"}
Serves == Places \ {"none", "leave"}
Waits == {"sleep", "woken"}

\* The types; m_nWorkerNum and the other counters are natural numbers by CountInv.
Types ==
  /\ m_tTaskQueue \in Seq(Tasks)
  /\ mutex \in {{}} \cup {{w} : w \in Workers}
  /\ m_nWorkerNum \in Int /\ m_nWorkerWait \in Int /\ m_nAlive \in Int
  /\ m_nState \subseteq {"PAUSED", "CANCEL"}
  /\ pc \in [Workers -> Places]
  /\ job \in [Workers -> {NoTask} \cup {<<t>> : t \in Tasks}]
  /\ fate \in [Tasks -> {"new", "queued", "running", "done", "deleted"}]
  /\ exiting \in BOOLEAN /\ starts \in 0..MaxStarts
  /\ use \in Uses

\* The holder of the mutex is in getq()'s loop.
MutexInv == \A w \in Workers : pc[w] = "loop" <=> mutex = {w}

\* The queue holds the tasks that wait, each once.
QueueInv ==
  /\ \A k \in 1..Len(m_tTaskQueue) : fate[m_tTaskQueue[k]] = "queued"
  /\ \A k, l \in 1..Len(m_tTaskQueue) : m_tTaskQueue[k] = m_tTaskQueue[l] => k = l
  /\ \A t \in Tasks : fate[t] = "queued" => \E k \in 1..Len(m_tTaskQueue) : m_tTaskQueue[k] = t

\* A worker has a task while it runs it, and no other worker has it.
JobInv ==
  /\ \A w \in Workers : job[w] # NoTask <=> pc[w] = "run"
  /\ \A w \in Workers, t \in Tasks : job[w] = <<t>> => fate[t] = "running"
  /\ \A v, w \in Workers : job[v] = job[w] /\ job[v] # NoTask => v = w
  /\ \A t \in Tasks : fate[t] = "running" => \E w \in Workers : job[w] = <<t>>

\* The counters, and that nobody but reqexit() and resume() ends the workers.
CountInv ==
  /\ m_nAlive = Cardinality(At(Alive))
  /\ m_nWorkerWait = Cardinality(At(Waits))
  /\ m_nWorkerNum >= Cardinality(At(Serves))
  /\ ~use.throws => m_nWorkerNum = Cardinality(At(Serves))
  /\ m_nWorkerNum <= WorkerMax
  /\ use.calls = {} => ~exiting /\ m_nState = {}
  /\ use.calls = {} /\ starts > 0 => m_nWorkerNum >= WorkerMin

Inv == Types /\ MutexInv /\ QueueInv /\ JobInv /\ CountInv

-----------------------------------------------------------------------------
(* Counting *)

\* One worker that goes elsewhere changes the number at a set of places by one.
LEMMA MoveOne ==
  ASSUME NEW w \in Workers, NEW l, pc \in [Workers -> Places], pc' = [pc EXCEPT ![w] = l],
         NEW L
  PROVE  Cardinality(At(L)') = Cardinality(At(L)) + (IF l \in L THEN 1 ELSE 0)
                                                  - (IF pc[w] \in L THEN 1 ELSE 0)
<1>1. IsFiniteSet(At(L)) /\ Cardinality(At(L)) \in Nat
  BY PoolAssumption, FS_Subset, FS_CardinalityType DEF At
<1>2. At(L)' = IF l \in L THEN At(L) \cup {w} ELSE At(L) \ {w}
  <2>1. \A u \in Workers : pc'[u] = IF u = w THEN l ELSE pc[u]
    OBVIOUS
  <2> QED BY <2>1 DEF At
<1>3. w \in At(L) <=> pc[w] \in L
  BY DEF At
<1>4. CASE l \in L
  BY SMTT(30), <1>1, <1>2, <1>3, <1>4, FS_AddElement
<1>5. CASE l \notin L
  <2>1. Cardinality(At(L) \ {w}) = IF w \in At(L) THEN Cardinality(At(L)) - 1 ELSE Cardinality(At(L))
    BY <1>1, FS_RemoveElement
  <2> QED
    BY <1>1, <1>2, <1>3, <1>5, <2>1
<1> QED
  BY <1>4, <1>5

\* Workers that start are added to those that are there; those that are woken stay.
LEMMA MoveSome ==
  ASSUME NEW new \in SUBSET At({"none"}), NEW woken \in SUBSET Sleeping,
         pc \in [Workers -> Places],
         pc' = [w \in Workers |-> IF w \in new THEN "start"
                                  ELSE IF w \in woken THEN "woken" ELSE pc[w]]
  PROVE  /\ pc' \in [Workers -> Places]
         /\ Cardinality(At(Alive)') = Cardinality(At(Alive)) + Cardinality(new)
         /\ Cardinality(At(Serves)') = Cardinality(At(Serves)) + Cardinality(new)
         /\ Cardinality(At(Waits)') = Cardinality(At(Waits))
<1>1. /\ IsFiniteSet(new) /\ Cardinality(new) \in Nat
      /\ IsFiniteSet(At(Alive)) /\ IsFiniteSet(At(Serves))
  BY PoolAssumption, FS_Subset, FS_CardinalityType DEF At
<1>2. /\ At(Alive)' = At(Alive) \cup new /\ At(Alive) \cap new = {}
      /\ At(Serves)' = At(Serves) \cup new /\ At(Serves) \cap new = {}
      /\ At(Waits)' = At(Waits)
  BY DEF At, Alive, Serves, Waits, Places, Sleeping
<1>3. pc' \in [Workers -> Places]
  BY DEF Places
<1>4. ASSUME NEW S, IsFiniteSet(S), S \cap new = {}
      PROVE  Cardinality(S \cup new) = Cardinality(S) + Cardinality(new)
  <2>1. Cardinality(S \cup new) = Cardinality(S) + Cardinality(new) - Cardinality(S \cap new)
    BY <1>1, <1>4, FS_Union
  <2>2. Cardinality(S \cap new) = 0 /\ Cardinality(S) \in Nat
    BY <1>4, FS_EmptySet, FS_CardinalityType
  <2> QED
    BY <1>1, <2>1, <2>2
<1> QED
  BY <1>1, <1>2, <1>3, <1>4

\* What a step of one worker does to the counters.
LEMMA MoveCounts ==
  ASSUME NEW w \in Workers, NEW l \in Places, pc \in [Workers -> Places],
         NEW o, pc[w] = o, Goto(w, l)
  PROVE  /\ pc' \in [Workers -> Places]
         /\ Cardinality(At(Alive)') = Cardinality(At(Alive)) + (IF l # "none" THEN 1 ELSE 0)
                                       - (IF o # "none" THEN 1 ELSE 0)
         /\ Cardinality(At(Serves)') =
              Cardinality(At(Serves)) + (IF l \notin {"none", "leave"} THEN 1 ELSE 0)
                - (IF o \notin {"none", "leave"} THEN 1 ELSE 0)
         /\ Cardinality(At(Waits)') = Cardinality(At(Waits)) + (IF l \in {"sleep", "woken"} THEN 1 ELSE 0)
                                       - (IF o \in {"sleep", "woken"} THEN 1 ELSE 0)
<1>1. pc' \in [Workers -> Places] /\ pc[w] \in Places
  BY DEF Goto
<1>2. \A m \in Places : /\ m \in Alive <=> m # "none"
                        /\ m \in Serves <=> m \notin {"none", "leave"}
  BY DEF Alive, Serves
<1>3. \A m \in Places : m \in Waits <=> m \in {"sleep", "woken"}
  BY DEF Waits
<1>4. ASSUME NEW L
      PROVE  Cardinality(At(L)') = Cardinality(At(L)) + (IF l \in L THEN 1 ELSE 0)
                                    - (IF o \in L THEN 1 ELSE 0)
  BY MoveOne DEF Goto
<1>5. o \in Places
  BY <1>1
<1>6. Cardinality(At(Alive)') = Cardinality(At(Alive)) + (IF l # "none" THEN 1 ELSE 0)
                                 - (IF o # "none" THEN 1 ELSE 0)
  BY <1>2, <1>4, <1>5, Zenon
<1>7. Cardinality(At(Serves)') =
        Cardinality(At(Serves)) + (IF l \notin {"none", "leave"} THEN 1 ELSE 0)
          - (IF o \notin {"none", "leave"} THEN 1 ELSE 0)
  BY <1>2, <1>4, <1>5, Zenon
<1>8. Cardinality(At(Waits)') = Cardinality(At(Waits)) + (IF l \in {"sleep", "woken"} THEN 1 ELSE 0)
                                 - (IF o \in {"sleep", "woken"} THEN 1 ELSE 0)
  BY <1>3, <1>4, <1>5, Zenon
<1> QED BY <1>1, <1>6, <1>7, <1>8

\* The numbers of workers at a set of places are natural numbers.
LEMMA AtNat == \A L : Cardinality(At(L)) \in Nat
<1> SUFFICES ASSUME NEW L PROVE Cardinality(At(L)) \in Nat
  OBVIOUS
<1>1. At(L) \in SUBSET Workers /\ IsFiniteSet(Workers)
  BY PoolAssumption DEF At
<1> QED
  BY <1>1, FS_Subset, FS_CardinalityType

-----------------------------------------------------------------------------
(* The invariant *)

\* The constructor: no workers, no tasks.
LEMMA InvInit == Init => Inv
<1> SUFFICES ASSUME Init PROVE Inv
  OBVIOUS
<1>1. Types
  <2>1. /\ m_tTaskQueue \in Seq(Tasks)
        /\ m_nWorkerNum \in Int /\ m_nWorkerWait \in Int /\ m_nAlive \in Int
        /\ starts \in 0..MaxStarts
    BY PoolAssumption DEF Init
  <2>2. /\ pc \in [Workers -> Places]
        /\ job \in [Workers -> {NoTask} \cup {<<t>> : t \in Tasks}]
        /\ fate \in [Tasks -> {"new", "queued", "running", "done", "deleted"}]
    BY DEF Init, Places
  <2>3. /\ mutex \in {{}} \cup {{w} : w \in Workers}
        /\ m_nState \subseteq {"PAUSED", "CANCEL"}
        /\ exiting \in BOOLEAN /\ use \in Uses
    BY DEF Init
  <2> QED
    BY <2>1, <2>2, <2>3 DEF Types
<1>2. At(Alive) = {} /\ At(Serves) = {} /\ At(Waits) = {}
  BY DEF Init, At, Alive, Serves, Waits
<1>3. CountInv
  BY <1>2, FS_EmptySet, PoolAssumption DEF Init, CountInv
<1>4. MutexInv
  BY DEF Init, MutexInv
<1>5. QueueInv
  BY DEF Init, QueueInv
<1>6. JobInv
  BY DEF Init, JobInv, NoTask
<1> QED
  BY <1>1, <1>3, <1>4, <1>5, <1>6 DEF Inv

\* putq() appends a task that is nowhere yet; activate() starts workers.
LEMMA StartKeeps == ASSUME Inv, (\E t \in Tasks : Putq(t)) \/ Activate PROVE Inv'
<1> DEFINE Moves(new, woken) ==
             pc' = [w \in Workers |-> IF w \in new THEN "start"
                                      ELSE IF w \in woken THEN "woken" ELSE pc[w]]
           Counted(n) ==
             /\ n \in Nat
             /\ m_nAlive' = m_nAlive + n /\ m_nWorkerNum' = m_nWorkerNum + n
             /\ m_nWorkerNum' <= WorkerMax
             /\ starts' = starts \/ m_nWorkerNum' = WorkerMin
<1>0. /\ m_nAlive \in Int /\ m_nWorkerNum \in Int /\ m_nWorkerNum <= WorkerMax
      /\ WorkerMin \in Nat /\ WorkerMax \in Nat /\ WorkerMin <= WorkerMax
      /\ pc \in [Workers -> Places]
  BY PoolAssumption DEF Inv, Types, CountInv
<1>1. PICK new \in SUBSET At({"none"}), woken \in SUBSET Sleeping :
        Moves(new, woken) /\ Counted(Cardinality(new))
  <2>1. ASSUME NEW t \in Tasks, Putq(t), NeedsWorker(Len(m_tTaskQueue) + 1)
        PROVE \E new \in SUBSET At({"none"}), woken \in SUBSET Sleeping :
                Moves(new, woken) /\ Counted(Cardinality(new))
    <3>1. PICK woken \in WakesOne : StartWorkers(1, woken) /\ m_nWorkerNum' = m_nWorkerNum + 1
      BY <2>1, Zenon DEF Putq
    <3>2. woken \in SUBSET Sleeping
      BY DEF WakesOne
    <3>3. PICK new \in SUBSET {w \in Workers : pc[w] = "none"} :
            Cardinality(new) = 1 /\ Moves(new, woken)
      BY <3>1 DEF StartWorkers
    <3>4. new \in SUBSET At({"none"})
      BY DEF At
    <3>5. m_nWorkerNum < WorkerMax /\ starts' = starts
      BY <2>1 DEF NeedsWorker, Putq
    <3>6. m_nAlive' = m_nAlive + 1
      BY <3>1 DEF StartWorkers
    <3>7. Counted(1)
      BY <1>0, <3>1, <3>5, <3>6
    <3> QED
      BY <3>2, <3>3, <3>4, <3>7
  <2>2. ASSUME NEW t \in Tasks, Putq(t), ~NeedsWorker(Len(m_tTaskQueue) + 1)
        PROVE \E new \in SUBSET At({"none"}), woken \in SUBSET Sleeping :
                Moves(new, woken) /\ Counted(Cardinality(new))
    <3>1. PICK woken \in WakesOne :
            /\ pc' = [w \in Workers |-> IF w \in woken THEN "woken" ELSE pc[w]]
            /\ UNCHANGED <<m_nAlive, m_nWorkerNum>>
      BY <2>2 DEF Putq
    <3>2. woken \in SUBSET Sleeping /\ starts' = starts
      BY <2>2 DEF WakesOne, Putq
    <3>3. Cardinality({}) = 0 /\ {} \in SUBSET At({"none"})
      BY FS_EmptySet
    <3>4. Moves({}, woken)
      BY <3>1
    <3>5. Counted(0)
      BY <1>0, <3>1, <3>2
    <3> QED
      BY <3>2, <3>3, <3>4, <3>5
  <2>3. ASSUME Activate
        PROVE \E new \in SUBSET At({"none"}), woken \in SUBSET Sleeping :
                Moves(new, woken) /\ Counted(Cardinality(new))
    <3>1. StartWorkers(WorkerMin, {}) /\ m_nWorkerNum = 0 /\ m_nWorkerNum' = WorkerMin
      BY <2>3 DEF Activate
    <3>2. PICK new \in SUBSET {w \in Workers : pc[w] = "none"} :
            Cardinality(new) = WorkerMin /\ Moves(new, {})
      BY <3>1 DEF StartWorkers
    <3>3. new \in SUBSET At({"none"}) /\ {} \in SUBSET Sleeping
      BY DEF At
    <3>4. m_nAlive' = m_nAlive + WorkerMin
      BY <3>1 DEF StartWorkers
    <3>5. Counted(WorkerMin)
      BY <1>0, <3>1, <3>4
    <3>6. Moves(new, {}) /\ Counted(Cardinality(new))
      BY <3>2, <3>5
    <3> HIDE DEF Moves, Counted
    <3> QED
      BY <3>3, <3>6
  <2> HIDE DEF Moves, Counted
  <2> QED
    BY <2>1, <2>2, <2>3
<1>2. /\ UNCHANGED <<mutex, m_nWorkerWait, m_nState, job, exiting, use>> /\ mutex = {}
      /\ starts' = starts \/ (starts' = starts + 1 /\ starts < MaxStarts)
  BY DEF Putq, Activate, queue
<1>3. \A w \in Workers : /\ pc'[w] = "loop" <=> pc[w] = "loop"
                         /\ pc'[w] = "run" <=> pc[w] = "run"
  BY <1>1 DEF At, Sleeping
<1>4. /\ pc' \in [Workers -> Places]
      /\ Cardinality(At(Alive)') = Cardinality(At(Alive)) + Cardinality(new)
      /\ Cardinality(At(Serves)') = Cardinality(At(Serves)) + Cardinality(new)
      /\ Cardinality(At(Waits)') = Cardinality(At(Waits))
  BY <1>1, MoveSome DEF Inv, Types
<1>5. \/ UNCHANGED queue
      \/ \E t \in Tasks : /\ fate[t] = "new" /\ fate' = [fate EXCEPT ![t] = "queued"]
                          /\ m_tTaskQueue' = Append(m_tTaskQueue, t)
  BY DEF Putq, Activate
<1>6. Types'
  <2>1. m_tTaskQueue' \in Seq(Tasks)
        /\ fate' \in [Tasks -> {"new", "queued", "running", "done", "deleted"}]
    <3>1. CASE UNCHANGED queue
      BY <3>1 DEF queue, Inv, Types
    <3>2. CASE \E t \in Tasks : /\ fate[t] = "new" /\ fate' = [fate EXCEPT ![t] = "queued"]
                                /\ m_tTaskQueue' = Append(m_tTaskQueue, t)
      BY <3>2 DEF Inv, Types
    <3> QED BY <1>5, <3>1, <3>2
  <2>2. starts' \in 0..MaxStarts
    BY <1>2, PoolAssumption DEF Inv, Types
  <2> QED
    BY <1>1, <1>2, <1>4, <2>1, <2>2 DEF Inv, Types
<1>7. MutexInv'
  BY <1>2, <1>3 DEF Inv, MutexInv
<1>8. QueueInv' /\ JobInv'
  <2>1. CASE UNCHANGED queue
    <3>1. UNCHANGED <<m_tTaskQueue, fate, job>>
      BY <1>2, <2>1 DEF queue
    <3>2. QueueInv'
      BY <3>1 DEF Inv, QueueInv
    <3>3. JobInv'
      BY <1>3, <3>1 DEF Inv, JobInv
    <3> QED
      BY <3>2, <3>3
  <2>2. ASSUME NEW t \in Tasks, fate[t] = "new", fate' = [fate EXCEPT ![t] = "queued"],
               m_tTaskQueue' = Append(m_tTaskQueue, t)
        PROVE  QueueInv' /\ JobInv'
    <3>1. /\ Len(m_tTaskQueue') = Len(m_tTaskQueue) + 1 /\ Len(m_tTaskQueue) \in Nat
          /\ \A k \in 1..Len(m_tTaskQueue) : m_tTaskQueue'[k] = m_tTaskQueue[k]
          /\ m_tTaskQueue'[Len(m_tTaskQueue) + 1] = t
          /\ \A k \in 1..Len(m_tTaskQueue) : m_tTaskQueue[k] \in Tasks
      BY <2>2 DEF Inv, Types
    <3>2. QueueInv'
      BY <2>2, <3>1 DEF Inv, Types, QueueInv
    <3>3. JobInv'
      BY <1>2, <1>3, <2>2 DEF Inv, Types, JobInv
    <3> QED
      BY <3>2, <3>3
  <2> QED
    BY <1>5, <2>1, <2>2
<1>9. CountInv'
  BY <1>1, <1>2, <1>4, AtNat, PoolAssumption DEF Inv, Types, CountInv
<1> QED
  BY <1>6, <1>7, <1>8, <1>9 DEF Inv

\* The client's other calls: only reqexit() touches the queue, and it wakes all.
LEMMA CallsKeep == ASSUME Inv, ReqExitCall \/ ReqExit \/ Pause \/ Resume PROVE Inv'
<1>1. use.calls # {} /\ UNCHANGED <<mutex, count, m_nAlive, job, starts, use>>
  BY DEF Inv, CountInv, ReqExitCall, ReqExit, Pause, Resume, count, thread, worker
<1>2. /\ m_nState' \subseteq {"PAUSED", "CANCEL"} /\ exiting' \in BOOLEAN
      /\ \A w \in Workers : /\ pc'[w] = "loop" <=> pc[w] = "loop"
                            /\ pc'[w] = "run" <=> pc[w] = "run"
      /\ pc' \in [Workers -> Places]
      /\ At(Alive)' = At(Alive) /\ At(Serves)' = At(Serves) /\ At(Waits)' = At(Waits)
  <2>1. CASE ReqExit
    <3>1. pc' = [w \in Workers |-> IF pc[w] = "sleep" THEN "woken" ELSE pc[w]]
      BY <2>1 DEF ReqExit
    <3>2. m_nState' \subseteq {"PAUSED", "CANCEL"} /\ exiting' \in BOOLEAN
      BY <2>1 DEF ReqExit
    <3> QED
      BY <3>1, <3>2 DEF Inv, Types, Places, At, Alive, Serves, Waits
  <2>2. CASE ReqExitCall \/ Pause \/ Resume
    <3>1. UNCHANGED pc
      BY <2>2 DEF ReqExitCall, Pause, Resume, worker
    <3>2. m_nState' \subseteq {"PAUSED", "CANCEL"} /\ exiting' \in BOOLEAN
      BY <2>2 DEF Inv, Types, ReqExitCall, Pause, Resume, thread
    <3> QED
      BY <3>1, <3>2 DEF Inv, Types, At
  <2> QED
    BY <2>1, <2>2
<1>3. QueueInv' /\ JobInv' /\ m_tTaskQueue' \in Seq(Tasks)
      /\ fate' \in [Tasks -> {"new", "queued", "running", "done", "deleted"}]
  <2>1. CASE ReqExit
    <3>1. /\ m_tTaskQueue' = <<>>
          /\ fate' = [t \in Tasks |-> IF fate[t] = "queued" THEN "deleted" ELSE fate[t]]
      BY <2>1 DEF ReqExit
    <3>2. QueueInv'
      BY <3>1 DEF QueueInv
    <3>3. \A t \in Tasks : fate'[t] = "running" <=> fate[t] = "running"
      BY <3>1
    <3>4. JobInv'
      BY <1>1, <1>2, <3>3 DEF Inv, JobInv
    <3>5. m_tTaskQueue' \in Seq(Tasks)
          /\ fate' \in [Tasks -> {"new", "queued", "running", "done", "deleted"}]
      BY <3>1 DEF Inv, Types
    <3> QED
      BY <3>2, <3>4, <3>5
  <2>2. CASE ReqExitCall \/ Pause \/ Resume
    <3>1. UNCHANGED <<m_tTaskQueue, fate>>
      BY <2>2 DEF ReqExitCall, Pause, Resume, queue
    <3>2. QueueInv'
      BY <3>1 DEF Inv, QueueInv
    <3>3. JobInv'
      BY <1>1, <1>2, <3>1 DEF Inv, JobInv
    <3> QED
      BY <3>1, <3>2, <3>3 DEF Inv, Types
  <2> QED
    BY <2>1, <2>2
<1>4. Types'
  BY <1>1, <1>2, <1>3 DEF Inv, Types, count
<1>5. MutexInv'
  BY <1>1, <1>2 DEF Inv, MutexInv
<1>6. CountInv'
  BY <1>1, <1>2 DEF Inv, CountInv, count
<1> QED
  BY <1>3, <1>4, <1>5, <1>6 DEF Inv

\* The holder of the mutex stays the worker in getq().
LEMMA MutexKeeps ==
  ASSUME MutexInv, pc \in [Workers -> Places], NEW w \in Workers, NEW l,
         pc' = [pc EXCEPT ![w] = l],
         \/ pc[w] # "loop" /\ l # "loop" /\ UNCHANGED mutex
         \/ l = "loop" /\ mutex = {} /\ mutex' = {w}
         \/ pc[w] = "loop" /\ l # "loop" /\ mutex' = {}
  PROVE  MutexInv'
<1>1. \A v \in Workers : pc'[v] = IF v = w THEN l ELSE pc[v]
  OBVIOUS
<1>2. CASE pc[w] # "loop" /\ l # "loop" /\ UNCHANGED mutex
  BY <1>1, <1>2 DEF MutexInv
<1>3. CASE l = "loop" /\ mutex = {} /\ mutex' = {w}
  BY <1>1, <1>3 DEF MutexInv
<1>4. CASE pc[w] = "loop" /\ l # "loop" /\ mutex' = {}
  <2>1. mutex = {w}
    BY <1>4 DEF MutexInv
  <2> QED
    BY <1>1, <1>4, <2>1 DEF MutexInv
<1> QED
  BY <1>2, <1>3, <1>4

\* A worker that neither takes nor ends a task leaves the tasks as they are.
LEMMA TasksKeep ==
  ASSUME Inv, NEW w \in Workers, NEW l, pc' = [pc EXCEPT ![w] = l],
         pc[w] # "run", l # "run", UNCHANGED <<m_tTaskQueue, fate, job>>
  PROVE  QueueInv' /\ JobInv'
<1>1. QueueInv'
  BY DEF Inv, QueueInv
<1>2. \A v \in Workers : pc'[v] = "run" <=> pc[v] = "run"
  BY DEF Inv, Types
<1>3. JobInv'
  BY <1>2 DEF Inv, JobInv
<1> QED
  BY <1>1, <1>3

\* A step of a worker.
Steps(w) == WorkerStep(w) \/ WakesByItself(w)

LEMMA StepsKeepMutex == ASSUME Inv, NEW w \in Workers, Steps(w) PROVE MutexInv'
<1>0. MutexInv /\ pc \in [Workers -> Places]
  BY DEF Inv, Types
<1>1. CASE Start(w)
  BY <1>0, <1>1, MutexKeeps DEF Start, Goto
<1>2. CASE Enter(w)
  BY <1>0, <1>2, MutexKeeps DEF Enter, Goto
<1>3. CASE Exit(w)
  BY <1>0, <1>3, MutexKeeps DEF Exit, Goto
<1>4. CASE Pop(w)
  BY <1>0, <1>4, MutexKeeps DEF Pop, Goto
<1>5. CASE LeaveTooMany(w)
  BY <1>0, <1>5, MutexKeeps DEF LeaveTooMany, Goto
<1>6. CASE Sleep(w)
  BY <1>0, <1>6, MutexKeeps DEF Sleep, Goto
<1>7. CASE WakesByItself(w)
  BY <1>0, <1>7, MutexKeeps DEF WakesByItself, Goto
<1>8. CASE Wake(w)
  BY <1>0, <1>8, MutexKeeps DEF Wake, Goto
<1>9. CASE Run(w)
  BY <1>0, <1>9, MutexKeeps DEF Run, Goto
<1>10. CASE Throw(w)
  BY <1>0, <1>10, MutexKeeps DEF Throw, Goto
<1>11. CASE End(w)
  BY <1>0, <1>11, MutexKeeps DEF End, Goto
<1> QED
  BY <1>1, <1>2, <1>3, <1>4, <1>5, <1>6, <1>7, <1>8, <1>9, <1>10, <1>11 DEF Steps, WorkerStep

LEMMA StepsKeepTasks == ASSUME Inv, NEW w \in Workers, Steps(w) PROVE QueueInv' /\ JobInv'
<1>0. /\ m_tTaskQueue \in Seq(Tasks) /\ Len(m_tTaskQueue) \in Nat
      /\ pc \in [Workers -> Places]
      /\ job \in [Workers -> {NoTask} \cup {<<t>> : t \in Tasks}]
      /\ fate \in [Tasks -> {"new", "queued", "running", "done", "deleted"}]
      /\ QueueInv /\ JobInv
  BY DEF Inv, Types
<1>1. CASE Start(w)
  BY <1>1, TasksKeep DEF Start, Goto, queue
<1>2. CASE Enter(w)
  BY <1>2, TasksKeep DEF Enter, Goto, queue
<1>3. CASE Exit(w)
  BY <1>3, TasksKeep DEF Exit, Goto, queue
<1>4. CASE LeaveTooMany(w)
  BY <1>4, TasksKeep DEF LeaveTooMany, Goto, queue
<1>5. CASE Sleep(w)
  BY <1>5, TasksKeep DEF Sleep, Goto, queue
<1>6. CASE WakesByItself(w)
  BY <1>6, TasksKeep DEF WakesByItself, Goto, queue
<1>7. CASE Wake(w)
  BY <1>7, TasksKeep DEF Wake, Goto, queue
<1>8. CASE End(w)
  BY <1>8, TasksKeep DEF End, Goto, queue
<1>9. CASE Pop(w)
  <2> DEFINE h == Head(m_tTaskQueue)
  <2>1. /\ m_tTaskQueue # <<>> /\ job' = [job EXCEPT ![w] = <<h>>]
        /\ fate' = [fate EXCEPT ![h] = "running"] /\ m_tTaskQueue' = Tail(m_tTaskQueue)
        /\ pc[w] = "loop" /\ pc' = [pc EXCEPT ![w] = "run"]
    BY <1>9 DEF Pop, Goto
  <2>2. /\ h = m_tTaskQueue[1] /\ 1 \in 1..Len(m_tTaskQueue) /\ h \in Tasks
        /\ Len(m_tTaskQueue') = Len(m_tTaskQueue) - 1
        /\ \A k \in 1..Len(m_tTaskQueue') : m_tTaskQueue'[k] = m_tTaskQueue[k + 1]
        /\ \A k \in 1..Len(m_tTaskQueue) : m_tTaskQueue[k] \in Tasks
    BY <1>0, <2>1
  <2> HIDE DEF h
  <2>3. fate[h] = "queued" /\ job[w] = NoTask
    BY <1>0, <2>1, <2>2 DEF QueueInv, JobInv
  <2>4. \A t \in Tasks : fate'[t] = IF t = h THEN "running" ELSE fate[t]
    BY <1>0, <2>1
  <2>5. QueueInv'
    <3>1. \A k \in 1..Len(m_tTaskQueue') :
            fate'[m_tTaskQueue'[k]] = "queued"
      BY <1>0, <2>2, <2>4 DEF QueueInv
    <3>2. \A k, l \in 1..Len(m_tTaskQueue') : m_tTaskQueue'[k] = m_tTaskQueue'[l] => k = l
      <4> SUFFICES ASSUME NEW k \in 1..Len(m_tTaskQueue'), NEW l \in 1..Len(m_tTaskQueue'),
                          m_tTaskQueue'[k] = m_tTaskQueue'[l]
                   PROVE  k = l
        OBVIOUS
      <4>1. k + 1 \in 1..Len(m_tTaskQueue) /\ l + 1 \in 1..Len(m_tTaskQueue)
        BY <1>0, <2>2
      <4>2. m_tTaskQueue[k + 1] = m_tTaskQueue[l + 1]
        BY <2>2
      <4>3. k + 1 = l + 1
        BY <1>0, <4>1, <4>2 DEF QueueInv
      <4> QED
        BY <4>3
    <3>3. ASSUME NEW t \in Tasks, fate'[t] = "queued"
          PROVE  \E k \in 1..Len(m_tTaskQueue') : m_tTaskQueue'[k] = t
      <4>1. t # h /\ fate[t] = "queued"
        BY <2>4, <3>3
      <4>2. PICK k \in 1..Len(m_tTaskQueue) : m_tTaskQueue[k] = t
        BY <1>0, <4>1 DEF QueueInv
      <4>3. k - 1 \in 1..Len(m_tTaskQueue') /\ k = (k - 1) + 1
        BY <1>0, <2>2, <4>1, <4>2
      <4>4. m_tTaskQueue'[k - 1] = t
        BY <2>2, <4>2, <4>3
      <4> QED
        BY <4>3, <4>4
    <3> QED
      BY <3>1, <3>2, <3>3 DEF QueueInv
  <2>6. JobInv'
    <3>1. \A v \in Workers : /\ job'[v] = IF v = w THEN <<h>> ELSE job[v]
                             /\ pc'[v] = IF v = w THEN "run" ELSE pc[v]
      BY <1>0, <2>1
    <3>2. \A v \in Workers : job[v] # <<h>>
      BY <1>0, <2>2, <2>3 DEF JobInv
    <3>3. \A t \in Tasks : <<t>> # NoTask /\ (<<t>> = <<h>> => t = h)
      BY DEF NoTask
    <3>4. \A v \in Workers : job'[v] # NoTask <=> pc'[v] = "run"
      BY <1>0, <2>2, <3>1, <3>3 DEF JobInv
    <3>5. \A v \in Workers, t \in Tasks : job'[v] = <<t>> => fate'[t] = "running"
      BY <1>0, <2>4, <3>1, <3>3 DEF JobInv
    <3>6. \A u, v \in Workers : job'[u] = job'[v] /\ job'[u] # NoTask => u = v
      BY <1>0, <3>1, <3>2 DEF JobInv
    <3>7. \A t \in Tasks : fate'[t] = "running" => \E v \in Workers : job'[v] = <<t>>
      <4> SUFFICES ASSUME NEW t \in Tasks, fate'[t] = "running"
                   PROVE  \E v \in Workers : job'[v] = <<t>>
        OBVIOUS
      <4>1. CASE t = h
        BY <3>1, <4>1
      <4>2. CASE t # h
        <5>1. PICK v \in Workers : job[v] = <<t>>
          BY <1>0, <2>4, <4>2 DEF JobInv
        <5>2. v # w
          BY <2>3, <3>3, <5>1
        <5> QED
          BY <3>1, <5>1, <5>2
      <4> QED
        BY <4>1, <4>2
    <3> QED
      BY <3>4, <3>5, <3>6, <3>7 DEF JobInv
  <2> QED
    BY <2>5, <2>6
<1>10. CASE Run(w) \/ Throw(w)
  <2>1. PICK d \in Tasks : job[w] = <<d>>
    BY <1>0, <1>10 DEF JobInv, Run, Throw
  <2>2. /\ fate' = [fate EXCEPT ![d] = "done"] /\ job' = [job EXCEPT ![w] = NoTask]
        /\ pc'[w] # "run" /\ \A v \in Workers \ {w} : pc'[v] = pc[v]
        /\ UNCHANGED m_tTaskQueue
    BY <1>0, <1>10, <2>1 DEF Run, Throw, Goto
  <2>3. /\ fate[d] = "running"
        /\ \A t \in Tasks : fate'[t] = IF t = d THEN "done" ELSE fate[t]
        /\ \A v \in Workers : job'[v] = IF v = w THEN NoTask ELSE job[v]
    BY <1>0, <2>1, <2>2 DEF JobInv
  <2>4. QueueInv'
    BY <1>0, <2>2, <2>3 DEF QueueInv
  <2>5. \A t \in Tasks : <<t>> # NoTask /\ (<<t>> = <<d>> => t = d)
    BY DEF NoTask
  <2>6. \A v \in Workers : v # w => job[v] # <<d>>
    <3>1. job[w] = <<d>> /\ job[w] # NoTask
      BY <2>1, <2>5
    <3> QED
      BY <1>0, <3>1 DEF JobInv
  <2>7. JobInv'
    <3>1. \A v \in Workers : job'[v] # NoTask <=> pc'[v] = "run"
      <4> SUFFICES ASSUME NEW v \in Workers PROVE job'[v] # NoTask <=> pc'[v] = "run"
        OBVIOUS
      <4>1. CASE v = w
        BY <2>2, <2>3, <4>1
      <4>2. CASE v # w
        <5>1. job'[v] = job[v] /\ pc'[v] = pc[v]
          BY <2>2, <2>3, <4>2
        <5> QED
          BY <1>0, <5>1 DEF JobInv
      <4> QED
        BY <4>1, <4>2
    <3>2. \A v \in Workers, t \in Tasks : job'[v] = <<t>> => fate'[t] = "running"
      <4> SUFFICES ASSUME NEW v \in Workers, NEW t \in Tasks, job'[v] = <<t>>
                   PROVE  fate'[t] = "running"
        OBVIOUS
      <4>1. v # w /\ job[v] = <<t>>
        BY <2>3, <2>5
      <4>2. t # d
        BY <2>6, <4>1
      <4>3. fate[t] = "running"
        BY <1>0, <4>1 DEF JobInv
      <4> QED
        BY <2>3, <4>2, <4>3
    <3>3. \A u, v \in Workers : job'[u] = job'[v] /\ job'[u] # NoTask => u = v
      BY <1>0, <2>3 DEF JobInv
    <3>4. \A t \in Tasks : fate'[t] = "running" => \E v \in Workers : job'[v] = <<t>>
      <4> SUFFICES ASSUME NEW t \in Tasks, fate'[t] = "running"
                   PROVE  \E v \in Workers : job'[v] = <<t>>
        OBVIOUS
      <4>1. t # d /\ fate[t] = "running"
        BY <2>3
      <4>2. PICK v \in Workers : job[v] = <<t>>
        BY <1>0, <4>1 DEF JobInv
      <4>3. v # w
        BY <2>1, <4>1, <4>2
      <4> QED
        BY <2>3, <4>2, <4>3
    <3> QED
      BY <3>1, <3>2, <3>3, <3>4 DEF JobInv
  <2> QED
    BY <2>4, <2>7
<1> QED
  BY <1>1, <1>2, <1>3, <1>4, <1>5, <1>6, <1>7, <1>8, <1>9, <1>10 DEF Steps, WorkerStep

\* A worker that starts, asks for the mutex, sleeps, wakes or leaves is counted as such.
LEMMA StepsKeepCounts == ASSUME Inv, NEW w \in Workers, Steps(w) PROVE CountInv'
<1> /\ Cardinality(At(Alive)) \in Nat /\ Cardinality(At(Serves)) \in Nat
    /\ Cardinality(At(Waits)) \in Nat /\ pc \in [Workers -> Places]
  BY AtNat DEF Inv, Types
<1>0. /\ m_nWorkerNum \in Int /\ m_nWorkerWait \in Int /\ m_nAlive \in Int
      /\ CountInv /\ WorkerMin \in Nat /\ WorkerMax \in Nat
  BY PoolAssumption DEF Inv, Types
<1>1. CASE Start(w)
  <2>0. pc[w] = "start" /\ "getq" \in Places /\ Goto(w, "getq")
    BY <1>1 DEF Start, Places
  <2>1. /\ Cardinality(At(Alive)') = Cardinality(At(Alive))
        /\ Cardinality(At(Serves)') = Cardinality(At(Serves))
        /\ Cardinality(At(Waits)') = Cardinality(At(Waits))
    BY <2>0, MoveCounts
  <2> QED
    BY <1>0, <1>1, <2>1 DEF Start, CountInv, count, thread
<1>2. CASE Enter(w)
  <2>0. pc[w] = "getq" /\ "loop" \in Places /\ Goto(w, "loop")
    BY <1>2 DEF Enter, Places
  <2>1. /\ Cardinality(At(Alive)') = Cardinality(At(Alive))
        /\ Cardinality(At(Serves)') = Cardinality(At(Serves))
        /\ Cardinality(At(Waits)') = Cardinality(At(Waits))
    BY <2>0, MoveCounts
  <2> QED
    BY <1>0, <1>2, <2>1 DEF Enter, CountInv, count, thread
<1>3. CASE Exit(w)
  <2>0. pc[w] = "loop" /\ "leave" \in Places /\ Goto(w, "leave")
    BY <1>3 DEF Exit, Places
  <2>1. /\ Cardinality(At(Alive)') = Cardinality(At(Alive))
        /\ Cardinality(At(Serves)') = Cardinality(At(Serves)) - 1
        /\ Cardinality(At(Waits)') = Cardinality(At(Waits))
    BY <2>0, MoveCounts
  <2> QED
    BY <1>0, <1>3, <2>1 DEF Exit, CountInv, thread, Stops
<1>4. CASE Pop(w)
  <2>0. pc[w] = "loop" /\ "run" \in Places /\ Goto(w, "run")
    BY <1>4 DEF Pop, Places
  <2>1. /\ Cardinality(At(Alive)') = Cardinality(At(Alive))
        /\ Cardinality(At(Serves)') = Cardinality(At(Serves))
        /\ Cardinality(At(Waits)') = Cardinality(At(Waits))
    BY <2>0, MoveCounts
  <2> QED
    BY <1>0, <1>4, <2>1 DEF Pop, CountInv, count, thread
<1>5. CASE LeaveTooMany(w)
  <2>0. pc[w] = "loop" /\ "leave" \in Places /\ Goto(w, "leave")
    BY <1>5 DEF LeaveTooMany, Places
  <2>1. /\ Cardinality(At(Alive)') = Cardinality(At(Alive))
        /\ Cardinality(At(Serves)') = Cardinality(At(Serves)) - 1
        /\ Cardinality(At(Waits)') = Cardinality(At(Waits))
    BY <2>0, MoveCounts
  <2> QED
    BY <1>0, <1>5, <2>1 DEF LeaveTooMany, CountInv, thread, TooMany
<1>6. CASE Sleep(w)
  <2>0. pc[w] = "loop" /\ "sleep" \in Places /\ Goto(w, "sleep")
    BY <1>6 DEF Sleep, Places
  <2>1. /\ Cardinality(At(Alive)') = Cardinality(At(Alive))
        /\ Cardinality(At(Serves)') = Cardinality(At(Serves))
        /\ Cardinality(At(Waits)') = Cardinality(At(Waits)) + 1
    BY <2>0, MoveCounts
  <2> QED
    BY <1>0, <1>6, <2>1 DEF Sleep, CountInv, thread
<1>7. CASE WakesByItself(w)
  <2>0. pc[w] = "sleep" /\ "woken" \in Places /\ Goto(w, "woken")
    BY <1>7 DEF WakesByItself, Places
  <2>1. /\ Cardinality(At(Alive)') = Cardinality(At(Alive))
        /\ Cardinality(At(Serves)') = Cardinality(At(Serves))
        /\ Cardinality(At(Waits)') = Cardinality(At(Waits))
    BY <2>0, MoveCounts
  <2> QED
    BY <1>0, <1>7, <2>1 DEF WakesByItself, CountInv, count, thread
<1>8. CASE Wake(w)
  <2>0. pc[w] = "woken" /\ "loop" \in Places /\ Goto(w, "loop")
    BY <1>8 DEF Wake, Places
  <2>1. /\ Cardinality(At(Alive)') = Cardinality(At(Alive))
        /\ Cardinality(At(Serves)') = Cardinality(At(Serves))
        /\ Cardinality(At(Waits)') = Cardinality(At(Waits)) - 1
    BY <2>0, MoveCounts
  <2> QED
    BY <1>0, <1>8, <2>1 DEF Wake, CountInv, thread
<1>9. CASE Run(w)
  <2>0. pc[w] = "run" /\ "getq" \in Places /\ Goto(w, "getq")
    BY <1>9 DEF Run, Places
  <2>1. /\ Cardinality(At(Alive)') = Cardinality(At(Alive))
        /\ Cardinality(At(Serves)') = Cardinality(At(Serves))
        /\ Cardinality(At(Waits)') = Cardinality(At(Waits))
    BY <2>0, MoveCounts
  <2> QED
    BY <1>0, <1>9, <2>1 DEF Run, CountInv, count, thread
<1>10. CASE Throw(w)
  <2>0. pc[w] = "run" /\ "leave" \in Places /\ Goto(w, "leave")
    BY <1>10 DEF Throw, Places
  <2>1. /\ Cardinality(At(Alive)') = Cardinality(At(Alive))
        /\ Cardinality(At(Serves)') = Cardinality(At(Serves)) - 1
        /\ Cardinality(At(Waits)') = Cardinality(At(Waits))
    BY <2>0, MoveCounts
  <2> QED
    BY <1>0, <1>10, <2>1 DEF Throw, CountInv, count, thread
<1>11. CASE End(w)
  <2>0. pc[w] = "leave" /\ "none" \in Places /\ Goto(w, "none")
    BY <1>11 DEF End, Places
  <2>1. /\ Cardinality(At(Alive)') = Cardinality(At(Alive)) - 1
        /\ Cardinality(At(Serves)') = Cardinality(At(Serves))
        /\ Cardinality(At(Waits)') = Cardinality(At(Waits))
    BY <2>0, MoveCounts
  <2> QED
    BY <1>0, <1>11, <2>1 DEF End, CountInv, count
<1> QED
  BY <1>1, <1>2, <1>3, <1>4, <1>5, <1>6, <1>7, <1>8, <1>9, <1>10, <1>11 DEF Steps, WorkerStep

LEMMA StepsKeepTypes == ASSUME Inv, NEW w \in Workers, Steps(w) PROVE Types'
<1>0. Types
  BY DEF Inv
<1>1. CASE Start(w)
  BY <1>0, <1>1 DEF Start, Goto, Types, Places, NoTask, queue, count, thread
<1>2. CASE Enter(w)
  BY <1>0, <1>2 DEF Enter, Goto, Types, Places, NoTask, queue, count, thread
<1>3. CASE Exit(w)
  BY <1>0, <1>3 DEF Exit, Goto, Types, Places, NoTask, queue, thread
<1>4. CASE Pop(w)
  BY <1>0, <1>4 DEF Pop, Goto, Types, Places, NoTask, count, thread
<1>5. CASE LeaveTooMany(w)
  BY <1>0, <1>5 DEF LeaveTooMany, Goto, Types, Places, NoTask, queue, thread
<1>6. CASE Sleep(w)
  BY <1>0, <1>6 DEF Sleep, Goto, Types, Places, NoTask, queue, thread
<1>7. CASE WakesByItself(w)
  BY <1>0, <1>7 DEF WakesByItself, Goto, Types, Places, NoTask, queue, count, thread
<1>8. CASE Wake(w)
  BY <1>0, <1>8 DEF Wake, Goto, Types, Places, NoTask, queue, thread
<1>9. CASE Run(w)
  BY <1>0, <1>9 DEF Run, Goto, Types, Places, NoTask, count, thread
<1>10. CASE Throw(w)
  BY <1>0, <1>10 DEF Throw, Goto, Types, Places, NoTask, count, thread
<1>11. CASE End(w)
  <2>0. m_nState \subseteq {"PAUSED", "CANCEL"} /\ m_nAlive \in Int
    BY <1>0 DEF Types
  <2>1. m_nState' \in {m_nState, {}} /\ m_nAlive' = m_nAlive - 1
    BY <1>11 DEF End
  <2>2. pc' \in [Workers -> Places]
    BY <1>0, <1>11 DEF End, Goto, Types, Places
  <2>3. m_nState' \subseteq {"PAUSED", "CANCEL"} /\ m_nAlive' \in Int
    BY <2>0, <2>1
  <2>4. UNCHANGED <<m_tTaskQueue, fate, mutex, m_nWorkerNum, m_nWorkerWait, job, exiting, starts,
                    use>>
    BY <1>11 DEF End, queue, count
  <2> QED
    BY <1>0, <2>2, <2>3, <2>4 DEF Types
<1> QED
  BY <1>1, <1>2, <1>3, <1>4, <1>5, <1>6, <1>7, <1>8, <1>9, <1>10, <1>11 DEF Steps, WorkerStep

LEMMA InvNext == Inv /\ [Next]_vars => Inv'
<1> SUFFICES ASSUME Inv, [Next]_vars PROVE Inv'
  OBVIOUS
<1>1. CASE (\E t \in Tasks : Putq(t)) \/ Activate
  BY <1>1, StartKeeps
<1>2. CASE ReqExitCall \/ ReqExit \/ Pause \/ Resume
  BY <1>2, CallsKeep
<1>3. CASE \E w \in Workers : Steps(w)
  BY <1>3, StepsKeepMutex, StepsKeepTasks, StepsKeepCounts, StepsKeepTypes DEF Inv
<1>4. CASE UNCHANGED vars
  <2>1. UNCHANGED <<m_tTaskQueue, fate, mutex, m_nWorkerNum, m_nWorkerWait, m_nAlive, m_nState,
                    pc, job, exiting, starts, use>>
    BY <1>4 DEF vars, queue, count, thread, worker
  <2>2. Types' /\ MutexInv'
    <3>1. Types'
      BY <2>1 DEF Inv, Types
    <3>2. MutexInv'
      BY <2>1 DEF Inv, MutexInv
    <3> QED
      BY <3>1, <3>2
  <2>3. QueueInv'
    BY <2>1 DEF Inv, QueueInv
  <2>4. JobInv'
    BY <2>1 DEF Inv, JobInv
  <2>5. CountInv'
    BY <2>1 DEF Inv, CountInv, At
  <2> QED
    BY <2>2, <2>3, <2>4, <2>5 DEF Inv
<1> QED
  BY <1>1, <1>2, <1>3, <1>4 DEF Next, Steps

THEOREM PoolInvariant == Spec => []Inv
<1> QED
  BY InvInit, InvNext, PTL DEF Spec

-----------------------------------------------------------------------------
(* What the runs check *)

\* The fields of the pool and the places of its workers keep their types.
LEMMA InvTypes == Inv => TypeOK
<1> SUFFICES ASSUME Inv PROVE TypeOK
  OBVIOUS
<1>1. m_nWorkerNum \in Nat /\ m_nWorkerWait \in Nat /\ m_nAlive \in Nat
  BY AtNat DEF Inv, Types, CountInv
<1> QED
  BY <1>1 DEF Inv, Types, Places, TypeOK

\* A set that holds one worker, or one place of the queue, or nothing.
LEMMA OneOrNone ==
  ASSUME NEW S, NEW b \in BOOLEAN, b => \E x : S = {x}, ~b => S = {}
  PROVE  Cardinality(S) = IF b THEN 1 ELSE 0
<1>1. CASE b
  BY <1>1, FS_Singleton
<1>2. CASE ~b
  BY <1>2, FS_EmptySet
<1> QED
  BY <1>1, <1>2

\* Each task is in one place: once in the queue, or with one worker, or over.
LEMMA InvOnce == Inv => EachTaskOnce
<1> SUFFICES ASSUME Inv, NEW t \in Tasks
    PROVE  /\ Cardinality({k \in 1..Len(m_tTaskQueue) : m_tTaskQueue[k] = t})
                = IF fate[t] = "queued" THEN 1 ELSE 0
           /\ Cardinality({w \in Workers : job[w] = <<t>>}) = IF fate[t] = "running" THEN 1 ELSE 0
  BY DEF EachTaskOnce
<1> DEFINE Q == {k \in 1..Len(m_tTaskQueue) : m_tTaskQueue[k] = t}
           J == {w \in Workers : job[w] = <<t>>}
<1>1. fate[t] = "queued" => \E k : Q = {k}
  <2> SUFFICES ASSUME fate[t] = "queued" PROVE \E k : Q = {k}
    OBVIOUS
  <2>1. PICK k \in 1..Len(m_tTaskQueue) : m_tTaskQueue[k] = t
    BY DEF Inv, QueueInv
  <2>2. \A l \in Q : l = k
    BY <2>1 DEF Inv, QueueInv
  <2> QED
    BY <2>1, <2>2
<1>2. fate[t] # "queued" => Q = {}
  BY DEF Inv, QueueInv
<1>3. fate[t] = "running" => \E w : J = {w}
  <2> SUFFICES ASSUME fate[t] = "running" PROVE \E w : J = {w}
    OBVIOUS
  <2>1. PICK w \in Workers : job[w] = <<t>>
    BY DEF Inv, JobInv
  <2>2. <<t>> # NoTask
    BY DEF NoTask
  <2>3. \A v \in J : v = w
    BY <2>1, <2>2 DEF Inv, JobInv
  <2> QED
    BY <2>1, <2>3
<1>4. fate[t] # "running" => J = {}
  BY DEF Inv, JobInv
<1> HIDE DEF Q, J
<1>5. Cardinality(Q) = IF fate[t] = "queued" THEN 1 ELSE 0
  BY <1>1, <1>2, OneOrNone
<1>6. Cardinality(J) = IF fate[t] = "running" THEN 1 ELSE 0
  BY <1>3, <1>4, OneOrNone
<1> QED
  BY <1>5, <1>6 DEF Q, J

\* The counters count the workers that they are read for.
LEMMA InvCounts == Inv => CountsHold /\ WorkersInRange
<1> SUFFICES ASSUME Inv PROVE CountsHold /\ WorkersInRange
  OBVIOUS
<1>1. /\ At(Serves) = Serving
      /\ At(Waits) = {w \in Workers : pc[w] \in {"sleep", "woken"}}
      /\ At(Alive) = {w \in Workers : pc[w] # "none"}
  BY DEF Inv, Types, At, Serves, Waits, Alive, Serving
<1> QED
  BY <1>1 DEF Inv, CountInv, CountsHold, WorkersInRange

\* Each task is in one place, the counters of the pool count the workers they are read
\* for, and the workers stay within the limits: for any number of workers and tasks, any
\* minimum, maximum and hint, whatever the clients call and whether or not tasks throw.
THEOREM PoolAccounts == Spec => []PoolAccounted
<1>1. Inv => PoolAccounted
  BY InvTypes, InvOnce, InvCounts DEF PoolAccounted
<1> QED
  BY <1>1, PoolInvariant, PTL
=============================================================================
