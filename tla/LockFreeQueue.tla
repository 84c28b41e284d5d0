---------------------------- MODULE LockFreeQueue ----------------------------
(***************************************************************************)
(* LockFreeQueue (inc/vhwd/collection/lockfree_queue.h): a ring of Cap     *)
(* slots with a head and a rear cursor.  The getters share the key kget    *)
(* and the putters the key kput; a key is taken by the fetch_add that      *)
(* finds 0 and given back by store(0).  Spinning makes the key count up;   *)
(* a spinner that draws the value Timeout exchanges the key for 1 and,     *)
(* when the queue has QUEUE_TIMEOUT, enters although somebody is inside.   *)
(*                                                                         *)
(* Each step is one access to the memory that other threads contend for:   *)
(* a key, the other side's cursor, a slot, the publication of a cursor.    *)
(* A thread's loads of its own side's cursor are joined to the next such   *)
(* access; they can only change under it when QUEUE_TIMEOUT let two in.    *)
(***************************************************************************)
EXTENDS Integers, Sequences, FiniteSets

CONSTANTS Threads,    \* callers of the queue
          Values,     \* elements
          Cap,        \* mask + 1, a power of two
          Timeout,    \* P::timeout()
          CtorFlags,  \* flags passed to the constructor
          Residue,    \* sets of flags malloc's memory may hold when the constructor adds its own
          Calls,      \* Calls[t]: the requests thread t may make
          MaxCrash,   \* bound: how many threads may die inside an operation
          NoReq       \* no request

Flags == {"NONBLOCK", "TIMEOUT", "PARTIAL"}
GetOps == {"getq", "getn", "peek"}
PutOps == {"putq", "putn"}

\* getq(), getq(p,n), peek(p,n), putq(v), putq(p,n), rewind()
IsRequest(r) ==
  /\ r.op \in GetOps \cup PutOps \cup {"rewind"}
  /\ r.n \in Nat
  /\ r.batch \in Seq(Values)
  /\ r.op \in PutOps => r.n = Len(r.batch) /\ r.n > 0
  /\ r.op \in GetOps => r.n > 0
  /\ r.op \in {"getq", "putq"} => r.n = 1

ASSUME QueueAssumption ==
  /\ Cap \in Nat \ {0, 1}
  /\ Timeout \in Nat \ {0}
  /\ CtorFlags \subseteq Flags
  /\ Residue \subseteq SUBSET Flags
  /\ MaxCrash \in Nat
  /\ \A t \in Threads : \A r \in Calls[t] : IsRequest(r)

Sides == {"get", "put"}

VARIABLES head, rear, \* cursors
          key,        \* key["get"] is kget, key["put"] is kput
          flags,      \* fixed when the queue is built
          buffer,     \* the slots, 0..mask
          pc, req,    \* where each thread is, and in which call
          at, cnt,    \* its locals: cursor read, number of elements to move
          tmp,        \* elements moved out by a getter
          ret,        \* what its call will answer
          crashed     \* number of threads that died inside a call

locals == <<at, cnt, tmp>>
vars == <<head, rear, key, flags, buffer, pc, req, at, cnt, tmp, ret, crashed>>

Side(t) == IF req[t].op \in GetOps THEN "get" ELSE "put"
Single(t) == req[t].op \in {"getq", "putq"}

\* (x) & mask, for the arguments the code gives it
Mask(x) == x % Cap

\* fetch_add(1); every value above Timeout behaves alike, so counting stops there
\* (the code's counter would wrap to 0 after 2^32 spins without a reset).
Bump(k) == IF k > Timeout THEN k ELSE k + 1

Goto(t, l) == pc' = [pc EXCEPT ![t] = l]

Answer(t, batch) == ret' = [ret EXCEPT ![t] = <<Side(t), batch>>]

\* ret[t] outside of the time from a call's effect to its return
None == <<>>

Return(t) == /\ Goto(t, "idle")
             /\ req' = [req EXCEPT ![t] = NoReq]
             /\ at' = [at EXCEPT ![t] = 0]
             /\ cnt' = [cnt EXCEPT ![t] = 0]
             /\ tmp' = [tmp EXCEPT ![t] = <<>>]
             /\ ret' = [ret EXCEPT ![t] = None]

-----------------------------------------------------------------------------
\* reset() mallocs the header, clears only the FREE flags and calls init();
\* the constructor then adds its flags to whatever the others were.
Init ==
  /\ head = 0 /\ rear = 0
  /\ key = [s \in Sides |-> 0]
  /\ flags \in {CtorFlags \cup g : g \in Residue}
  /\ buffer \in {[i \in 0..Cap-1 |-> v] : v \in Values}
  /\ pc = [t \in Threads |-> "idle"]
  /\ req = [t \in Threads |-> NoReq]
  /\ at = [t \in Threads |-> 0]
  /\ cnt = [t \in Threads |-> 0]
  /\ tmp = [t \in Threads |-> <<>>]
  /\ ret = [t \in Threads |-> None]
  /\ crashed = 0

\* A thread calls one of the operations.
Begin(t) ==
  /\ pc[t] = "idle"
  /\ \E r \in Calls[t] :
       /\ req' = [req EXCEPT ![t] = r]
       /\ cnt' = [cnt EXCEPT ![t] = r.n]
  /\ Goto(t, "acquire")
  /\ UNCHANGED <<head, rear, key, flags, buffer, at, tmp, ret, crashed>>

\* while((tag=k.fetch_add(1))!=0): enter on 0, try the exchange on Timeout,
\* spin otherwise; rewind() has no timeout.
Acquire(t) ==
  LET s == Side(t) IN
  /\ pc[t] = "acquire"
  /\ key' = [key EXCEPT ![s] = Bump(@)]
  /\ IF key[s] = 0 THEN Goto(t, IF req[t].op = "rewind" THEN "rw_kget" ELSE "test")
     ELSE IF key[s] = Timeout /\ req[t].op # "rewind" THEN Goto(t, "exchange")
     ELSE UNCHANGED pc
  /\ UNCHANGED <<head, rear, flags, buffer, req, locals, ret, crashed>>

\* if(k.exchange(1)==0) break; if(flags.get(QUEUE_TIMEOUT)) break;
\* Mutant: never enter on the flag.
NeverBreaksIn(s) == key[s] = 0

ExchangeEnters(s) == key[s] = 0 \/ "TIMEOUT" \in flags

Exchange(t) ==
  LET s == Side(t) IN
  /\ pc[t] = "exchange"
  /\ key' = [key EXCEPT ![s] = 1]
  /\ Goto(t, IF ExchangeEnters(s) THEN "test" ELSE "acquire")
  /\ UNCHANGED <<head, rear, flags, buffer, req, locals, ret, crashed>>

Blocked(t) == IF Side(t) = "get" THEN head = rear ELSE Mask(rear + 1) = head

\* The queue is empty (full): give up under QUEUE_NONBLOCK, else stay and spin.
Test(t) ==
  /\ pc[t] = "test"
  /\ IF ~Blocked(t)
     THEN Goto(t, IF Single(t) THEN "move" ELSE "load") /\ UNCHANGED ret
     ELSE IF "NONBLOCK" \in flags
     THEN Goto(t, "giveback") /\ Answer(t, <<>>)
     ELSE Goto(t, "alive") /\ UNCHANGED ret
  /\ UNCHANGED <<head, rear, key, flags, buffer, req, locals, crashed>>

\* Mutant: a waiting call stores 0, which invites others in.
AliveStoresZero(t) ==
  /\ pc[t] = "alive"
  /\ Goto(t, "test")
  /\ key' = [key EXCEPT ![Side(t)] = 0]
  /\ UNCHANGED <<head, rear, flags, buffer, req, locals, ret, crashed>>

\* store(1) to tell others that I'm alive
Alive(t) ==
  /\ pc[t] = "alive"
  /\ key' = [key EXCEPT ![Side(t)] = 1]
  /\ Goto(t, "test")
  /\ UNCHANGED <<head, rear, flags, buffer, req, locals, ret, crashed>>

Lesser(a, b) == IF a < b THEN a ELSE b

\* A single get or put reads its cursor again to advance it.
LoadSingle(t) ==
  /\ pc[t] = "load" /\ Single(t)
  /\ at' = [at EXCEPT ![t] = IF Side(t) = "get" THEN head ELSE rear]
  /\ Goto(t, "publish")
  /\ UNCHANGED <<head, rear, key, flags, buffer, req, cnt, tmp, ret, crashed>>

\* Mutant: a batch get does not look at how many elements there are.
LoadGetAll(t) ==
  /\ pc[t] = "load" /\ ~Single(t) /\ Side(t) = "get"
  /\ at' = [at EXCEPT ![t] = head]
  /\ Goto(t, "move")
  /\ UNCHANGED <<head, rear, key, flags, buffer, req, cnt, tmp, ret, crashed>>

\* A batch get moves as many of the n elements as there are.
LoadGet(t) ==
  /\ pc[t] = "load" /\ ~Single(t) /\ Side(t) = "get"
  /\ at' = [at EXCEPT ![t] = head]
  /\ cnt' = [cnt EXCEPT ![t] = Lesser(Mask(rear - head), @)]
  /\ Goto(t, "move")
  /\ UNCHANGED <<head, rear, key, flags, buffer, req, tmp, ret, crashed>>

\* A batch put that fits, or that may be shortened under QUEUE_PARTIAL.
LoadPut(t) ==
  LET room == Mask(head - rear - 1) IN
  /\ pc[t] = "load" /\ ~Single(t) /\ Side(t) = "put"
  /\ room >= cnt[t] \/ "PARTIAL" \in flags
  /\ at' = [at EXCEPT ![t] = rear]
  /\ cnt' = [cnt EXCEPT ![t] = Lesser(room, @)]
  /\ Goto(t, "move")
  /\ UNCHANGED <<head, rear, key, flags, buffer, req, tmp, ret, crashed>>

\* The other batch put returns 0 and does not give back the key.
PutDoesNotFit(t) ==
  /\ pc[t] = "load" /\ ~Single(t) /\ Side(t) = "put"
  /\ Mask(head - rear - 1) < cnt[t] /\ "PARTIAL" \notin flags
  /\ Answer(t, <<>>)
  /\ Goto(t, "leave")
  /\ UNCHANGED <<head, rear, key, flags, buffer, req, locals, crashed>>

Leave(t) ==
  /\ pc[t] = "leave"
  /\ Return(t)
  /\ UNCHANGED <<head, rear, key, flags, buffer, crashed>>

\* kn=rd+kp-mask-1: how many elements of a batch lie beyond the end of the ring.  mask
\* is unsigned and the int the sum is stored in is not: it is negative when none does.
Beyond(t) == at[t] + cnt[t] - Cap

\* The slot of the i-th element a thread moves: kp-kn from the cursor on, kn from 0 on.
Slot(t, i) ==
  IF Single(t) THEN IF Side(t) = "get" THEN head ELSE rear
  ELSE IF Beyond(t) > 0 /\ i > cnt[t] - Beyond(t) THEN i - (cnt[t] - Beyond(t)) - 1
  ELSE at[t] + i - 1

Slots(t) == {Slot(t, i) : i \in 1..cnt[t]}

MoveOut(t) ==
  /\ pc[t] = "move" /\ Side(t) = "get"
  /\ tmp' = [tmp EXCEPT ![t] = [i \in 1..cnt[t] |-> buffer[Slot(t, i)]]]
  /\ Goto(t, IF Single(t) THEN "load" ELSE "publish")
  /\ UNCHANGED <<head, rear, key, flags, buffer, req, at, cnt, ret, crashed>>

MoveIn(t) ==
  /\ pc[t] = "move" /\ Side(t) = "put"
  /\ buffer' = [k \in 0..Cap-1 |->
                  IF k \in Slots(t) THEN req[t].batch[CHOOSE i \in 1..cnt[t] : Slot(t, i) = k]
                  ELSE buffer[k]]
  /\ Goto(t, IF Single(t) THEN "load" ELSE "publish")
  /\ UNCHANGED <<head, rear, key, flags, req, locals, ret, crashed>>

\* The cursor to store: (at+1)&mask, kn, or kn&mask
Advanced(t) == IF Single(t) THEN Mask(at[t] + 1)
               ELSE IF Beyond(t) > 0 THEN Beyond(t) ELSE Mask(Beyond(t))

\* head.store(...): peek advances it as getq does
PublishHead(t) ==
  /\ pc[t] = "publish" /\ Side(t) = "get"
  /\ head' = Advanced(t)
  /\ Answer(t, tmp[t])
  /\ Goto(t, "giveback")
  /\ UNCHANGED <<rear, key, flags, buffer, req, locals, crashed>>

PublishRear(t) ==
  /\ pc[t] = "publish" /\ Side(t) = "put"
  /\ rear' = Advanced(t)
  /\ Answer(t, SubSeq(req[t].batch, 1, cnt[t]))
  /\ Goto(t, "giveback")
  /\ UNCHANGED <<head, key, flags, buffer, req, locals, crashed>>

\* Mutant: a declined call returns without store(0).
GiveBackUnlessDeclined(t) ==
  /\ pc[t] = "giveback"
  /\ key' = [key EXCEPT ![Side(t)] = IF ret[t][2] = <<>> THEN @ ELSE 0]
  /\ Return(t)
  /\ UNCHANGED <<head, rear, flags, buffer, crashed>>

\* store(0) and return
GiveBack(t) ==
  /\ pc[t] = "giveback"
  /\ key' = [key EXCEPT ![Side(t)] = 0]
  /\ Return(t)
  /\ UNCHANGED <<head, rear, flags, buffer, crashed>>

-----------------------------------------------------------------------------
\* rewind(), with kput taken: try kget, or back off kput and start again.
RewindKget(t) ==
  /\ pc[t] = "rw_kget"
  /\ key' = [key EXCEPT !["get"] = Bump(@)]
  /\ Goto(t, IF key["get"] = 0 THEN "rw_head" ELSE "rw_back")
  /\ UNCHANGED <<head, rear, flags, buffer, req, locals, ret, crashed>>

RewindBack(t) ==
  /\ pc[t] = "rw_back"
  /\ key' = [key EXCEPT !["put"] = 0]
  /\ Goto(t, "acquire")
  /\ UNCHANGED <<head, rear, flags, buffer, req, locals, ret, crashed>>

RewindHead(t) ==
  /\ pc[t] = "rw_head"
  /\ head' = 0
  /\ Goto(t, "rw_rear")
  /\ UNCHANGED <<rear, key, flags, buffer, req, locals, ret, crashed>>

RewindRear(t) ==
  /\ pc[t] = "rw_rear"
  /\ rear' = 0
  /\ Goto(t, "rw_kput")
  /\ UNCHANGED <<head, key, flags, buffer, req, locals, ret, crashed>>

RewindGiveKput(t) ==
  /\ pc[t] = "rw_kput"
  /\ key' = [key EXCEPT !["put"] = 0]
  /\ Goto(t, "rw_done")
  /\ UNCHANGED <<head, rear, flags, buffer, req, locals, ret, crashed>>

RewindGiveKget(t) ==
  /\ pc[t] = "rw_done"
  /\ key' = [key EXCEPT !["get"] = 0]
  /\ Return(t)
  /\ UNCHANGED <<head, rear, flags, buffer, crashed>>

\* A thread (a process, when the queue is in shared memory) dies in a call.
Crash(t) ==
  /\ pc[t] \notin {"idle", "dead"}
  /\ crashed < MaxCrash
  /\ crashed' = crashed + 1
  /\ Goto(t, "dead")
  /\ UNCHANGED <<head, rear, key, flags, buffer, req, locals, ret>>

Rewind(t) == \/ RewindKget(t) \/ RewindBack(t) \/ RewindHead(t) \/ RewindRear(t)
             \/ RewindGiveKput(t) \/ RewindGiveKget(t)

\* The steps of a call in progress.
Step(t) == \/ Acquire(t) \/ Exchange(t) \/ Test(t) \/ Alive(t)
           \/ LoadSingle(t) \/ LoadGet(t) \/ LoadPut(t) \/ PutDoesNotFit(t) \/ Leave(t)
           \/ MoveOut(t) \/ MoveIn(t) \/ PublishHead(t) \/ PublishRear(t)
           \/ GiveBack(t) \/ Rewind(t)

Next == \E t \in Threads : Begin(t) \/ Step(t) \/ Crash(t)

Spec == Init /\ [][Next]_vars

\* The operating system keeps running every thread; callers keep calling.
FairSpec == Spec /\ \A t \in Threads : WF_vars(Step(t)) /\ WF_vars(Begin(t))

-----------------------------------------------------------------------------
(* Properties *)

InCall == {"test", "alive", "load", "move", "publish", "giveback"}
InRewind == {"rw_head", "rw_rear", "rw_kput"}

\* Thread t is inside the part that kget (kput) guards.
Holds(t, s) ==
  \/ pc[t] \in InCall /\ Side(t) = s
  \/ pc[t] \in InRewind
  \/ pc[t] = "rw_done" /\ s = "get"
  \/ pc[t] \in {"rw_kget", "rw_back"} /\ s = "put"

Labels == {"idle", "acquire", "exchange", "dead", "rw_done", "rw_kget", "rw_back", "leave"}
            \cup InCall \cup InRewind

\* The values the variables range over (lf_queue_header and the locals).
TypeOK ==
  /\ head \in 0..Cap-1 /\ rear \in 0..Cap-1
  /\ key \in [Sides -> 0..Timeout+1]
  /\ flags \in SUBSET Flags
  /\ buffer \in [0..Cap-1 -> Values]
  /\ pc \in [Threads -> Labels]
  /\ \A t \in Threads : req[t] \in Calls[t] \cup {NoReq}
  /\ at \in [Threads -> 0..Cap-1] /\ cnt \in [Threads -> Nat]
  /\ crashed \in 0..MaxCrash

\* Without QUEUE_TIMEOUT the key protocol, with the exchange a spinner makes
\* at the timeout and the key a rewind backs off, lets one thread in at a time
\* ("then enter and get an element, and then store zero to the key and leave").
OneInside ==
  \A s \in Sides : \A t, u \in Threads : Holds(t, s) /\ Holds(u, s) => t = u
KeyExclusive == "TIMEOUT" \notin flags => OneInside

\* "give back the key": a key is nonzero only while somebody is inside.
KeyGivenBack ==
  \A s \in Sides : key[s] # 0 => \E t \in Threads : Holds(t, s)

\* The list the ring stands for; between the two stores of a rewind it is
\* already empty.
Items == IF \E t \in Threads : pc[t] = "rw_rear" THEN <<>>
         ELSE [i \in 1..Mask(rear - head) |-> buffer[Mask(head + i - 1)]]

Offers == {r.batch : r \in UNION {Calls[t] : t \in Threads}}

Fifo == INSTANCE BoundedFifo
          WITH items <- Items, Limit <- Cap - 1, Batches <- Offers

\* Every call takes effect at one instant, as on a bounded FIFO list: elements
\* leave in the order they came, none is lost or doubled, and a call is declined
\* only when the queue is empty (full) at some instant inside the call.
ImplementsFifo == Fifo!Spec

Callers(s) == {t \in Threads : \A r \in Calls[t] : (r.op \in GetOps) = (s = "get")}

\* The key is taken and nobody is inside who could give it back: its holder has died,
\* or has left with a batch that did not fit.
KeyLost(s) == key[s] # 0 /\ \A t \in Threads : ~Holds(t, s)

\* No caller of the side can get in any more.
Stuck(s) == \/ \A t \in Callers(s) : pc[t] = "dead"
            \/ KeyLost(s) /\ "TIMEOUT" \notin flags

Opposite(s) == IF s = "get" THEN "put" ELSE "get"

\* Calls go on on a side for as long as its key is not lost, and with QUEUE_TIMEOUT
\* also when it is ("this is designed to avoid that some thread get the key but failed
\* to give back"); a call that waits for the other side needs somebody there, and a
\* list that two threads at a time have not spoilt.
SideAdvances ==
  \A s \in Sides :
    (\E t \in Callers(s) : pc[t] \notin {"idle", "dead"})
      ~> \/ \E t \in Callers(s) : pc[t] = "idle"
         \/ Stuck(s)
         \/ "NONBLOCK" \notin flags /\ (Stuck(Opposite(s)) \/ "TIMEOUT" \in flags)
=============================================================================
