----------------------------- MODULE BoundedFifo -----------------------------
(***************************************************************************)
(* What a queue of the collection component promises its callers: a        *)
(* bounded first-in first-out list whose operations take effect at one     *)
(* instant.  LockFreeQueue and SRSWQueue are shown to implement it.        *)
(*                                                                         *)
(* ret[t] is what thread t's operation will answer, from the instant it    *)
(* takes effect until it returns: the side it is on and the batch that     *)
(* changed hands (<<>> when it was declined).                              *)
(***************************************************************************)
EXTENDS Integers, Sequences

CONSTANTS Threads,  \* the callers
          Values,   \* what is queued
          Limit,    \* how many elements fit
          Batches   \* the batches a caller may offer

VARIABLES items, ret

vars == <<items, ret>>

None == <<>>

Answer(t, side, batch) == ret[t] = None /\ ret' = [ret EXCEPT ![t] = <<side, batch>>]

Init == items = <<>> /\ ret = [t \in Threads |-> None]

Return(t) == ret' = [ret EXCEPT ![t] = None] /\ UNCHANGED items

\* Some nonempty prefix of the offered batch that fits goes to the rear.
Put(t, offer) ==
  \E n \in 1..Len(offer) :
    LET batch == SubSeq(offer, 1, n) IN
    /\ Len(items) + n <= Limit
    /\ items' = items \o batch
    /\ Answer(t, "put", batch)

\* One or more elements leave the front, in order.
Get(t) ==
  \E n \in 1..Len(items) :
    /\ items' = SubSeq(items, n + 1, Len(items))
    /\ Answer(t, "get", SubSeq(items, 1, n))

\* An offer is declined only at an instant when it does not fit.
DeclinePut(t, offer) ==
  /\ Len(items) + Len(offer) > Limit
  /\ Answer(t, "put", <<>>)
  /\ UNCHANGED items

\* A get is declined only at an instant when the queue is empty.
DeclineGet(t) ==
  /\ items = <<>>
  /\ Answer(t, "get", <<>>)
  /\ UNCHANGED items

Clear == items' = <<>> /\ UNCHANGED ret

Next == \/ \E t \in Threads, b \in Batches : Put(t, b) \/ DeclinePut(t, b)
        \/ \E t \in Threads : Get(t) \/ DeclineGet(t) \/ Return(t)
        \/ Clear

Spec == Init /\ [][Next]_vars
=============================================================================
