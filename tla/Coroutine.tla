------------------------------ MODULE Coroutine ------------------------------
(***************************************************************************)
(* Coroutine (src/vhwd/threading/coroutine.cpp).  Every thread has a main  *)
(* coroutine; spawn() makes others ready, and yield() leaves the running   *)
(* one for a paused one, which may have been paused by another thread.     *)
(*                                                                         *)
(* A yield takes the callee with a compare-exchange, swaps the stacks, and *)
(* lets the callee store the caller's new state: not before its stack is   *)
(* saved may another thread take the caller.  One step is one access to a  *)
(* coroutine's state or stack.                                             *)
(***************************************************************************)
EXTENDS Integers

CONSTANTS Threads,   \* each with its CoroutineMain
          Routines,  \* the other coroutines
          Spawner,   \* Spawner[c]: the threads that call spawn(c)
          Extras,    \* what a yield passes on
          Nil        \* the null pointer

Main(t) == <<"main", t>>
Mains == {Main(t) : t \in Threads}
Coroutines == Routines \cup Mains

\* What the constants are; the instances assume it.
CoroutineAssumption ==
  /\ Routines \cap Mains = {} /\ Nil \notin Coroutines /\ Nil \in Extras
  /\ Spawner \in [Routines -> SUBSET Threads]

VARIABLES m_nState, extra,        \* of each coroutine
          stack,                  \* what its saved stack continues with
          m_pThisRoutine, m_pLastRoutine, m_pVoidRoutine,  \* of each thread's main
          pc, on, callee,         \* each thread's place, the stack it is on, where it goes
          spawning,               \* the coroutine a thread spawns
          sent                    \* what the thread's last yield has passed on

state == <<m_nState, extra>>
comain == <<m_pThisRoutine, m_pLastRoutine, m_pVoidRoutine>>
vars == <<state, stack, comain, pc, on, callee, spawning, sent>>

Init ==
  /\ m_nState = [c \in Coroutines |-> IF c \in Mains THEN "RUNNING" ELSE "STOPPED"]
  /\ extra = [c \in Coroutines |-> Nil]
  /\ stack = [c \in Coroutines |-> IF c \in Mains THEN "running" ELSE "none"]
  /\ m_pThisRoutine = [t \in Threads |-> Main(t)]
  /\ m_pLastRoutine = [t \in Threads |-> Nil]
  /\ m_pVoidRoutine = [t \in Threads |-> Nil]
  /\ pc = [t \in Threads |-> "run"]
  /\ on = [t \in Threads |-> Main(t)]
  /\ callee = [t \in Threads |-> Nil]
  /\ spawning = [t \in Threads |-> Nil]
  /\ sent = [t \in Threads |-> Nil]

Goto(t, l) == pc' = [pc EXCEPT ![t] = l]

-----------------------------------------------------------------------------
(* spawn *)

\* the guard of ctx.init()
NeedsStack(t, c) == stack[c] = "none"

\* ctx.init(): nothing when the stack is there, otherwise a new one
SpawnInit(t, c) ==
  /\ pc[t] = "run" /\ t \in Spawner[c]
  /\ spawning' = [spawning EXCEPT ![t] = c]
  /\ Goto(t, IF NeedsStack(t, c) THEN "alloc" ELSE "spawn")
  /\ UNCHANGED <<state, stack, comain, on, callee, sent>>

\* page_alloc fails: spawn returns false
SpawnFails(t) ==
  /\ pc[t] = "alloc"
  /\ Goto(t, "run")
  /\ spawning' = [spawning EXCEPT ![t] = Nil]
  /\ UNCHANGED <<state, stack, comain, on, callee, sent>>

\* nsp=..., on which raw_coroutine_spawn will run
SpawnAlloc(t) ==
  /\ pc[t] = "alloc"
  /\ stack' = [stack EXCEPT ![spawning[t]] = "fresh"]
  /\ Goto(t, "spawn")
  /\ UNCHANGED <<state, comain, on, callee, spawning, sent>>

\* m_nState.compare_exchange(STATE_STOPPED,STATE_PAUSED)
SpawnCas(t) ==
  LET c == spawning[t] IN
  /\ pc[t] = "spawn"
  /\ m_nState' = [m_nState EXCEPT ![c] = IF @ = "STOPPED" THEN "PAUSED" ELSE @]
  /\ spawning' = [spawning EXCEPT ![t] = Nil]
  /\ Goto(t, "run")
  /\ UNCHANGED <<extra, stack, comain, on, callee, sent>>

-----------------------------------------------------------------------------
(* yield *)

PausesEarly(t, c) ==
  m_nState[c] = "PAUSED" /\ m_nState' = [m_nState EXCEPT ![c] = "RUNNING", ![on[t]] = "PAUSED"]

\* compare_exchange(STATE_PAUSED,STATE_RUNNING) succeeds.
Takes(t, c) == m_nState[c] = "PAUSED" /\ m_nState' = [m_nState EXCEPT ![c] = "RUNNING"]

\* Mutant: the extra data stays with the caller.
KeepExtra(t, c, x) == extra' = [extra EXCEPT ![on[t]] = x] /\ sent' = [sent EXCEPT ![t] = x]

\* m_pExtraParam.reset(x) of the callee
PassExtra(t, c, x) == extra' = [extra EXCEPT ![c] = x] /\ sent' = [sent EXCEPT ![t] = x]

\* _yield_phase1 of yield(c,x), and m_pExtraParam.reset(x); a yield to a coroutine
\* that is not paused returns false without an effect.
Yield(t, c, x) ==
  /\ pc[t] = "run"
  /\ c # on[t]
  /\ Takes(t, c)
  /\ PassExtra(t, c, x)
  /\ m_pLastRoutine' = [m_pLastRoutine EXCEPT ![t] = on[t]]
  /\ callee' = [callee EXCEPT ![t] = c]
  /\ Goto(t, "swap")
  /\ UNCHANGED <<stack, m_pThisRoutine, m_pVoidRoutine, on, spawning>>

\* yield(c,x), yield_main(x), yield_last(x)
Targets(t) == Routines \cup {Main(t)} \cup ({m_pLastRoutine[t]} \ {Nil})

\* raw_coroutine_spawn: svc() returns; on to the main coroutine of the thread that
\* it has ended on.
SvcReturns(t) ==
  /\ pc[t] = "run" /\ on[t] # Main(t)
  /\ Takes(t, Main(t))
  /\ m_pLastRoutine' = [m_pLastRoutine EXCEPT ![t] = Nil]
  /\ m_pVoidRoutine' = [m_pVoidRoutine EXCEPT ![t] = on[t]]
  /\ PassExtra(t, Main(t), Nil)
  /\ callee' = [callee EXCEPT ![t] = Main(t)]
  /\ Goto(t, "swap")
  /\ UNCHANGED <<stack, m_pThisRoutine, on, spawning>>

\* raw_coroutine_swap(&callee,&caller): the caller's stack is saved.
Swap(t) ==
  /\ pc[t] = "swap"
  /\ stack' = [stack EXCEPT ![on[t]] = IF m_pVoidRoutine[t] = on[t] THEN "ended" ELSE "yielded",
                            ![callee[t]] = "running"]
  /\ on' = [on EXCEPT ![t] = callee[t]]
  /\ callee' = [callee EXCEPT ![t] = Nil]
  /\ Goto(t, "phase2")
  /\ UNCHANGED <<state, comain, spawning, sent>>

\* m_pVoidRoutine=NULL;
VoidCleared(t) == [m_pVoidRoutine EXCEPT ![t] = Nil]

\* m_pThisRoutine=this
Enters(t) == [m_pThisRoutine EXCEPT ![t] = on[t]]

\* _yield_phase2: m_pThisRoutine, and the state of the one that was left
Phase2(t) ==
  /\ pc[t] = "phase2"
  /\ m_pThisRoutine' = Enters(t)
  /\ IF m_pLastRoutine[t] # Nil
     THEN /\ m_nState' = [m_nState EXCEPT ![m_pLastRoutine[t]] = "PAUSED"]
          /\ UNCHANGED m_pVoidRoutine
     ELSE IF m_pVoidRoutine[t] # Nil
     THEN /\ m_nState' = [m_nState EXCEPT ![m_pVoidRoutine[t]] = "STOPPED"]
          /\ m_pVoidRoutine' = VoidCleared(t)
     ELSE UNCHANGED <<m_nState, m_pVoidRoutine>>
  /\ Goto(t, "run")
  /\ UNCHANGED <<extra, stack, m_pLastRoutine, on, callee, spawning, sent>>

-----------------------------------------------------------------------------

Next == \E t \in Threads :
  \/ \E c \in Routines : SpawnInit(t, c)
  \/ SpawnFails(t) \/ SpawnAlloc(t) \/ SpawnCas(t)
  \/ \E c \in Targets(t), x \in Extras : Yield(t, c, x)
  \/ SvcReturns(t) \/ Swap(t) \/ Phase2(t)

Spec == Init /\ [][Next]_vars

-----------------------------------------------------------------------------
(* Properties *)

\* The values of the fields and of the threads' places.
TypeOK ==
  /\ m_nState \in [Coroutines -> {"STOPPED", "RUNNING", "PAUSED"}]
  /\ extra \in [Coroutines -> Extras]
  /\ stack \in [Coroutines -> {"none", "fresh", "running", "yielded", "ended"}]
  /\ m_pThisRoutine \in [Threads -> Coroutines]
  /\ m_pLastRoutine \in [Threads -> Coroutines \cup {Nil}]
  /\ m_pVoidRoutine \in [Threads -> Routines \cup {Nil}]
  /\ pc \in [Threads -> {"run", "alloc", "spawn", "swap", "phase2"}]
  /\ on \in [Threads -> Coroutines]
  /\ callee \in [Threads -> Coroutines \cup {Nil}]
  /\ spawning \in [Threads -> Routines \cup {Nil}]
  /\ sent \in [Threads -> Extras]

\* A stack is in use by one thread at a time, also while it is being left.
StackInUseOnce ==
  \A t, u \in Threads : t # u => /\ on[t] # on[u]
                                 /\ callee[t] # Nil => callee[t] \notin {on[u], callee[u]}

\* A thread swaps to a stack that has been saved: one that is fresh, or that has
\* yielded or ended, not one that somebody is still on.
SwapsToSavedStack ==
  \A t \in Threads : pc[t] = "swap" => stack[callee[t]] \in {"fresh", "yielded", "ended"}

\* The states say what the coroutines do ("STATE_RUNNING: spawned and running", "STATE_
\* PAUSED: spawned but not running", "STATE_STOPPED: not spawned"): between two
\* yields of its own a thread sees its coroutine running, and no other that is saved.
StatesAgree ==
  /\ \A t \in Threads : pc[t] \notin {"swap", "phase2"} =>
       m_nState[on[t]] = "RUNNING" /\ m_pThisRoutine[t] = on[t]
  /\ \A c \in Coroutines : m_nState[c] = "PAUSED" => stack[c] \in {"fresh", "yielded", "ended"}
  /\ \A c \in Coroutines : m_nState[c] = "STOPPED" => stack[c] \in {"none", "fresh", "ended"}
  /\ \A c \in Coroutines : m_nState[c] = "RUNNING" =>
       \E t \in Threads : c \in {on[t], callee[t], m_pLastRoutine[t], m_pVoidRoutine[t]}

\* The wassert()s of the two phases, and "yield main_coroutine failed, why???": a
\* coroutine whose svc() returns finds the main coroutine paused.
YieldAsserts ==
  \A t \in Threads :
    /\ pc[t] = "run" => m_nState[on[t]] = "RUNNING"
    /\ pc[t] = "phase2" => m_pLastRoutine[t] # Nil \/ m_pVoidRoutine[t] # Nil
    /\ pc[t] = "phase2" /\ m_pLastRoutine[t] # Nil => m_pVoidRoutine[t] = Nil
    /\ pc[t] = "run" /\ on[t] # Main(t) => m_nState[Main(t)] = "PAUSED"

\* A coroutine finds what the yield to it has passed ("get extra data that last
\* coroutine yileded with").
ExtraDelivered ==
  \A t \in Threads : pc[t] \in {"run", "phase2"} => extra[on[t]] = sent[t]

\* spawn() does not give a new stack to a coroutine that has one: what it has
\* yielded from is not lost.
StackKept ==
  [][\A c \in Coroutines : stack[c] # "none" => stack'[c] # "fresh" \/ stack[c] = "fresh"]_vars
=============================================================================
