---------------------------- MODULE RecursiveLock ----------------------------
(***************************************************************************)
(* What a recursive lock promises: one owner at a time, who may take it    *)
(* again and gives it up with the last of as many releases.                *)
(***************************************************************************)
EXTENDS Naturals

CONSTANTS Threads, Nobody

VARIABLES owner, depth

vars == <<owner, depth>>

Init == owner = Nobody /\ depth = 0

Acquire(t) ==
  /\ owner \in {Nobody, t}
  /\ owner' = t
  /\ depth' = depth + 1

Release(t) ==
  /\ owner = t
  /\ depth' = depth - 1
  /\ owner' = IF depth = 1 THEN Nobody ELSE t

Next == \E t \in Threads : Acquire(t) \/ Release(t)

Spec == Init /\ [][Next]_vars
=============================================================================
