------------------------------ MODULE SRSWQueue ------------------------------
(***************************************************************************)
(* SRSW_Queue (inc/vhwd/collection/lockfree_queue.h): a ring for a single  *)
(* reader and a single writer, without a lock.  Every handle of the queue  *)
(* counts in nref; the one that drops the last frees the ring.             *)
(*                                                                         *)
(* One step is one access to the positions or the slots; the accesses take *)
(* effect in program order.                                                *)
(***************************************************************************)
EXTENDS Integers, Sequences, FiniteSets

CONSTANTS Values,  \* elements
          Size,    \* slots of the ring
          Nil      \* no element

ASSUME SizeAssumption == Size \in Nat \ {0} /\ Values # {} /\ Nil \notin Values

\* The thread that builds the queue keeps a handle of its own, "main".
Handles == {"main", "reader", "writer"}

VARIABLES rd_pos, wr_pos, data,  \* the ring
          nref, freed,           \* its reference count, and whether it was freed
          attached,              \* handles whose m_ptr is the ring
          pc,                    \* where the reader and the writer are
          pushing, popped,       \* the argument of push and the result of popq
          ret                    \* what a call will answer

ring == <<rd_pos, wr_pos, data>>
refs == <<nref, freed, attached>>
vars == <<ring, refs, pc, pushing, popped, ret>>

Goto(h, l) == pc' = [pc EXCEPT ![h] = l]

None == <<>>
Answer(h, side, batch) == ret' = [ret EXCEPT ![h] = <<side, batch>>]

\* resize(n): positions 0, slots uninitialised, one reference held by "main".
Init ==
  /\ rd_pos = 0 /\ wr_pos = 0
  /\ data \in {[i \in 0..Size-1 |-> v] : v \in Values}
  /\ nref = 1 /\ freed = FALSE
  /\ attached = {"main"}
  /\ pc = [h \in Handles |-> "idle"]
  /\ pushing = Nil /\ popped = Nil
  /\ ret = [h \in {"reader", "writer"} |-> None]

-----------------------------------------------------------------------------
\* size_t wr2=(wr_pos+1)%size; if(wr2==rd_pos) return false;
RingFull == (wr_pos + 1) % Size = rd_pos

PushTest(v) ==
  /\ pc["writer"] = "idle" /\ "writer" \in attached
  /\ pushing' = v
  /\ IF RingFull
     THEN Goto("writer", "return") /\ Answer("writer", "put", <<>>)
     ELSE Goto("writer", "store") /\ UNCHANGED ret
  /\ UNCHANGED <<ring, refs, popped>>

\* data[wr_pos]=t;
PushStore ==
  /\ pc["writer"] = "store"
  /\ data' = [data EXCEPT ![wr_pos] = pushing]
  /\ Goto("writer", "publish")
  /\ UNCHANGED <<rd_pos, wr_pos, refs, pushing, popped, ret>>

\* wr_pos=wr2;
PushPublish ==
  /\ pc["writer"] = "publish"
  /\ wr_pos' = (wr_pos + 1) % Size
  /\ Goto("writer", "return") /\ Answer("writer", "put", <<pushing>>)
  /\ UNCHANGED <<rd_pos, data, refs, pushing, popped>>

\* Mutant: the reader declines when the ring is full, too.
PopTestFull ==
  /\ pc["reader"] = "idle" /\ "reader" \in attached
  /\ IF rd_pos = wr_pos \/ RingFull
     THEN Goto("reader", "return") /\ Answer("reader", "get", <<>>)
     ELSE Goto("reader", "load") /\ UNCHANGED ret
  /\ UNCHANGED <<ring, refs, pushing, popped>>

\* if(rd_pos==wr_pos) return false;
PopTest ==
  /\ pc["reader"] = "idle" /\ "reader" \in attached
  /\ IF rd_pos = wr_pos
     THEN Goto("reader", "return") /\ Answer("reader", "get", <<>>)
     ELSE Goto("reader", "load") /\ UNCHANGED ret
  /\ UNCHANGED <<ring, refs, pushing, popped>>

\* Mutant: the position is given up before the element is copied.
PopLoadLate ==
  /\ pc["reader"] = "load"
  /\ rd_pos' = (rd_pos + 1) % Size
  /\ popped' = data[rd_pos]
  /\ Goto("reader", "publish")
  /\ UNCHANGED <<wr_pos, data, refs, pushing, ret>>

\* t=data[rd_pos];
PopLoad ==
  /\ pc["reader"] = "load"
  /\ popped' = data[rd_pos]
  /\ Goto("reader", "publish")
  /\ UNCHANGED <<ring, refs, pushing, ret>>

\* rd_pos=(rd_pos+1)%size;
PopPublish ==
  /\ pc["reader"] = "publish"
  /\ rd_pos' = (rd_pos + 1) % Size
  /\ Goto("reader", "return") /\ Answer("reader", "get", <<popped>>)
  /\ UNCHANGED <<wr_pos, data, refs, pushing, popped>>

Return(h) ==
  /\ pc[h] = "return"
  /\ Goto(h, "idle")
  /\ ret' = [ret EXCEPT ![h] = None]
  /\ pushing' = IF h = "writer" THEN Nil ELSE pushing
  /\ popped' = IF h = "reader" THEN Nil ELSE popped
  /\ UNCHANGED <<ring, refs>>

-----------------------------------------------------------------------------
\* SRSW_Queue(const SRSW_Queue&): the owner of "main" gives copies of it away.
Copy(h) ==
  /\ "main" \in attached /\ pc["main"] = "idle"
  /\ h \notin attached
  /\ nref' = nref + 1
  /\ attached' = attached \cup {h}
  /\ UNCHANGED <<ring, freed, pc, pushing, popped, ret>>

\* Mutant: the count is tested apart from its decrement.
ClearTestsEarly(h) ==
  /\ h \in attached /\ pc[h] = "idle"
  /\ nref' = nref - 1
  /\ Goto(h, IF nref <= 2 THEN "free" ELSE "drop")
  /\ UNCHANGED <<ring, freed, attached, pushing, popped, ret>>

\* clear(): --nref, and dfun(m_ptr) by the one that finds 0; then m_ptr=NULL.
ClearDecrement(h) ==
  /\ h \in attached /\ pc[h] = "idle"
  /\ nref' = nref - 1
  /\ Goto(h, IF nref = 1 THEN "free" ELSE "drop")
  /\ UNCHANGED <<ring, freed, attached, pushing, popped, ret>>

ClearFree(h) ==
  /\ pc[h] = "free"
  /\ freed' = TRUE
  /\ Goto(h, "drop")
  /\ UNCHANGED <<ring, nref, attached, pushing, popped, ret>>

ClearDrop(h) ==
  /\ pc[h] = "drop"
  /\ attached' = attached \ {h}
  /\ Goto(h, "idle")
  /\ UNCHANGED <<ring, nref, freed, pushing, popped, ret>>

Writer == (\E v \in Values : PushTest(v)) \/ PushStore \/ PushPublish \/ Return("writer")
Reader == PopTest \/ PopLoad \/ PopPublish \/ Return("reader")
Clear(h) == ClearDecrement(h) \/ ClearFree(h) \/ ClearDrop(h)

Next == Writer \/ Reader \/ \E h \in Handles : Copy(h) \/ Clear(h)

Spec == Init /\ [][Next]_vars

\* Two threads that keep calling push and popq; nothing makes them drop handles.
FairSpec == Spec /\ WF_vars(Writer) /\ WF_vars(Reader)

-----------------------------------------------------------------------------
(* Properties *)

\* The ranges of the impl's fields and of the two calls' locals.
TypeOK ==
  /\ rd_pos \in 0..Size-1 /\ wr_pos \in 0..Size-1
  /\ data \in [0..Size-1 -> Values]
  /\ nref \in 0..Cardinality(Handles) /\ freed \in BOOLEAN
  /\ attached \subseteq Handles
  /\ pc \in [Handles -> {"idle", "store", "load", "publish", "return", "free", "drop"}]
  /\ pushing \in Values \cup {Nil} /\ popped \in Values \cup {Nil}
  /\ DOMAIN ret = {"reader", "writer"}

\* The number of elements between the positions, and the elements.
Count == (wr_pos - rd_pos) % Size
Items == [i \in 1..Count |-> data[(rd_pos + i - 1) % Size]]

Fifo == INSTANCE BoundedFifo
          WITH items <- Items, Limit <- Size - 1,
               Threads <- {"reader", "writer"}, Batches <- {<<v>> : v \in Values}

\* push and popq take effect at one instant each, on a first-in first-out list of
\* at most size-1 elements; they answer false only when the list is full (empty).
ImplementsFifo == Fifo!Spec

\* The reader never copies the slot that the writer is storing into.
ReaderAndWriterApart ==
  pc["writer"] \in {"store", "publish"} /\ pc["reader"] \in {"load", "publish"}
    => wr_pos # rd_pos

\* The ring is freed by the last handle only, and once: nobody that is attached
\* and still calls push or popq finds it freed.
FreedByTheLast ==
  /\ freed => \A h \in attached : pc[h] = "drop"
  /\ \A h, g \in Handles : pc[h] = "free" /\ pc[g] = "free" => h = g
  /\ freed => \A h \in Handles : pc[h] # "free"

\* A reader that keeps calling takes what is in the ring, unless it lets go of it: nothing stays
\* there for good without a popq that succeeds (popq).
ReaderAdvances ==
  []<>(\/ Items = <<>> \/ "reader" \notin attached
       \/ pc["reader"] \in {"publish", "free", "drop"})
=============================================================================
