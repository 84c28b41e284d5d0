--------------------------- MODULE MCThreadManager ---------------------------
(* Small instances of ThreadManager. *)
EXTENDS ThreadManager

CONSTANTS c1, c2,      \* clients
          t1, t2,      \* Threads
          i1, i2, i3   \* ThreadImpls

\* One client starts and pauses threads, another one stops them.
PauseStop == [c \in Clients |-> IF c = c1 THEN {"activate", "pause", "resume"} ELSE {"reqexit"}]
\* One client starts threads and waits for them, another one stops them.
StartStop == [c \in Clients |-> IF c = c1 THEN {"activate", "wait"}
                                ELSE {"reqexit", "main_reqexit"}]
\* One client starts threads, both take the manager down.
TakeDown == [c \in Clients |-> IF c = c1 THEN {"activate", "manager_wait"}
                               ELSE {"manager_close", "manager_wait"}]

Pauses == {PauseStop}
StartsOrTakesDown == {StartStop, TakeDown}
TakesDown == {TakeDown}

Symmetry == {[x \in Impls |-> CASE x = i1 -> p[1] [] x = i2 -> p[2] [] OTHER -> p[3]] :
               p \in {q \in [1..3 -> Impls] : \A j, k \in 1..3 : q[j] = q[k] => j = k}}
=============================================================================
