------------------------------ MODULE Allocator ------------------------------
(***************************************************************************)
(* What a memory pool promises: a block that is handed out has the size    *)
(* that was asked for and shares no byte with another block in use.        *)
(* MemPool is shown to implement it.                                       *)
(***************************************************************************)
EXTENDS Integers

CONSTANTS Threads, Addresses, Sizes

VARIABLE held   \* held[t]: what thread t has asked for and not given back


\* No byte of b is in use; intervals, so that no set of bytes is built.
Apart(b, c) == b.addr + b.size <= c.addr \/ c.addr + c.size <= b.addr
Fresh(b) == \A t \in Threads : \A c \in held[t] : Apart(b, c)

Init == held = [t \in Threads |-> {}]

Allocate(t, b) ==
  /\ Fresh(b)
  /\ held' = [held EXCEPT ![t] = @ \cup {b}]

Release(t, b) ==
  /\ b \in held[t]
  /\ held' = [held EXCEPT ![t] = @ \ {b}]

\* A block that grows where it is.
Grow(t, b, n) ==
  LET grown == [b EXCEPT !.size = n] IN
  /\ b \in held[t]
  /\ \A u \in Threads : \A d \in held[u] \ {b} : Apart(grown, d)
  /\ held' = [held EXCEPT ![t] = (@ \ {b}) \cup {grown}]

Next == \E t \in Threads :
          \/ \E a \in Addresses, n \in Sizes : Allocate(t, [addr |-> a, size |-> n])
          \/ \E b \in held[t] : Release(t, b) \/ \E n \in Sizes : Grow(t, b, n)

Spec == Init /\ [][Next]_held
=============================================================================
