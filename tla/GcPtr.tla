-------------------------------- MODULE GcPtr --------------------------------
(***************************************************************************)
(* gc_ptr and gc_state (inc/vhwd/memory/gc_ptr.h, src/vhwd/memory/         *)
(* gc_ptr.cpp): mark and sweep.  The roots are the gc_ptrs that are not    *)
(* members of an object, on the stack or in a container; they are linked   *)
(* when they are constructed.  A member of an object under construction is *)
(* known by its address (tCurrentObject) and not linked.                   *)
(*                                                                         *)
(* A collection runs under tRecursiveMutex and takes one step per root and *)
(* per object of its queue.  Assignments to pointers take no lock: another *)
(* thread may move a pointer past the collector.  An object's member is    *)
(* next[o]; its _gc_mark appends it, as the one of the test does.          *)
(***************************************************************************)
EXTENDS Integers, Sequences, SequencesExt, FiniteSets

CONSTANTS Threads, Objects,
          Handles,   \* Handles[t]: the gc_ptr variables of thread t
          MayFail,   \* appending to the mark queue may throw (no memory)
          Nested,    \* the constructor allocates the object its member points to, and another one
          Nil, None

GcAssumption == Nil \notin Objects /\ None \notin Threads

Roots == UNION {Handles[t] : t \in Threads}

VARIABLES list,     \* pLinkOfAllObject: the objects that are linked
          next,     \* next[o]: the member of object o
          ptr,      \* ptr[h]: m_ptr of root h
          links,    \* the linked roots, from tPtrLink_head
          tags,     \* _gc_tags; GC_TAG_INIT and GC_TAG_FLAG are not told apart
          mutex,    \* tRecursiveMutex: who holds it
          at,       \* where each thread is
          new,      \* new[t]: object under construction and the root it will be in
          pending,  \* the mark queue, pending_q1 before pending_q2
          todo,     \* the roots that the collection has not read yet
          moved     \* someone changed a pointer, or tags were stale, in the running collection

vars == <<list, next, ptr, links, tags, mutex, at, new, pending, todo, moved>>
heap == <<list, next, tags>>

Clear == [o \in Objects |-> "FLAG"]
NoNew == [obj |-> Nil, root |-> None]

Init ==
  /\ list = {}
  /\ next = [o \in Objects |-> Nil]
  /\ ptr = [h \in Roots |-> Nil]
  /\ links = <<>>
  /\ tags = Clear
  /\ mutex = None
  /\ at = [t \in Threads |-> "run"]
  /\ new = [t \in Threads |-> NoNew]
  /\ pending = <<>>
  /\ todo = <<>>
  /\ moved = FALSE

Go(t, l) == at' = [at EXCEPT ![t] = l]
Running(t) == at[t] = "run"
Unlocked(t) == mutex \in {None, t}
Collecting == \E t \in Threads : at[t] \in {"roots", "mark"}

\* A pointer changes; a running collection may have read it already or not.
Moves == moved' = (moved \/ Collecting)

-----------------------------------------------------------------------------
(* Clients *)

\* gc_ptr(): insert() under the mutex
Construct(t, h) ==
  /\ Running(t) /\ Unlocked(t) /\ h \in Handles[t] \ ToSet(links)
  /\ links' = <<h>> \o links
  /\ UNCHANGED <<heap, ptr, mutex, at, new, pending, todo, moved>>

\* ~gc_ptr(): erase() under the mutex
Destruct(t, h) ==
  /\ Running(t) /\ Unlocked(t) /\ h \in Handles[t] \cap ToSet(links)
  /\ \E i \in DOMAIN links : links[i] = h /\ links' = RemoveAt(links, i)
  /\ ptr' = [ptr EXCEPT ![h] = Nil]
  /\ UNCHANGED <<heap, mutex, at, new, pending, todo, moved>>

\* g = h, g = h->next, g.reset(NULL): no lock
Assign(t, g) ==
  /\ Running(t) /\ g \in Handles[t] \cap ToSet(links)
  /\ \E o \in {Nil} \cup {ptr[h] : h \in Handles[t]}
                    \cup {next[ptr[h]] : h \in {k \in Handles[t] : ptr[k] # Nil}} :
       ptr' = [ptr EXCEPT ![g] = o]
  /\ Moves
  /\ UNCHANGED <<heap, links, mutex, at, new, pending, todo>>

\* g->next = h, g->next = NULL: no lock
Store(t, g) ==
  /\ Running(t) /\ g \in Handles[t] /\ ptr[g] # Nil
  /\ \E o \in {Nil} \cup {ptr[h] : h \in Handles[t]} : next' = [next EXCEPT ![ptr[g]] = o]
  /\ Moves
  /\ UNCHANGED <<list, tags, ptr, links, mutex, at, new, pending, todo>>

\* gc_new: gc_state::lock(), then perhaps a collection (steping_delta), then the constructor with
\* tCurrentObject set
NewLock(t, h) ==
  /\ Running(t) /\ mutex = None /\ h \in Handles[t] \cap ToSet(links)
  /\ mutex' = t
  /\ \E o \in Objects \ list :
       new' = [new EXCEPT ![t] = [obj |-> o, root |-> h]]
  /\ Go(t, "new")
  /\ UNCHANGED <<heap, ptr, links, pending, todo, moved>>

\* gc_nolock begins; with force_marking_ all tags are reset first.
Begin(t, force, then) ==
  /\ tags' = IF force THEN Clear ELSE tags
  /\ pending' = <<>>
  /\ todo' = links
  /\ moved' = (\E o \in list : tags'[o] = "MARK")
  /\ Go(t, then)

\* gc_new collects before it constructs
NewCollect(t) ==
  /\ at[t] = "new"
  /\ Begin(t, FALSE, "roots")
  /\ UNCHANGED <<list, next, ptr, links, mutex, new>>

\* The constructor returns; the root is linked before tCurrentObject is restored, then the object.
\* (The constructor's own gc_ptr member is not a root.)
NewDone(t) ==
  LET o == new[t].obj IN
  /\ at[t] \in {"new", "built", "ctor2"}
  /\ at[t] = "new" => ~Nested
  /\ list' = list \cup {o}
  /\ tags' = [tags EXCEPT ![o] = "FLAG"]
  /\ next' = IF at[t] = "ctor2" THEN next ELSE [next EXCEPT ![o] = Nil]
  /\ ptr' = [ptr EXCEPT ![new[t].root] = o]
  /\ mutex' = None
  /\ new' = [new EXCEPT ![t] = NoNew]
  /\ Go(t, "run")
  /\ UNCHANGED <<links, pending, todo, moved>>

\* The constructor throws: the memory goes back and the mutex is released.
NewThrows(t) ==
  /\ at[t] \in {"new", "built", "ctor2"}
  /\ mutex' = None
  /\ next' = [next EXCEPT ![new[t].obj] = Nil]
  /\ new' = [new EXCEPT ![t] = NoNew]
  /\ Go(t, "run")
  /\ UNCHANGED <<list, tags, ptr, links, pending, todo, moved>>

\* The constructor's first gc_new, into the member
CtorNew(t) ==
  /\ Nested /\ at[t] \in {"new", "built"}
  /\ \E i \in Objects \ (list \cup {new[t].obj}) :
       /\ list' = list \cup {i}
       /\ tags' = [tags EXCEPT ![i] = "FLAG"]
       /\ next' = [next EXCEPT ![i] = Nil, ![new[t].obj] = i]
  /\ Go(t, "ctor2")
  /\ UNCHANGED <<ptr, links, mutex, new, pending, todo, moved>>

\* The constructor's second gc_new collects: the member is neither a root nor is its object linked.
CtorCollect(t) ==
  /\ at[t] = "ctor2"
  /\ Begin(t, FALSE, "roots")
  /\ UNCHANGED <<list, next, ptr, links, mutex, new>>

-----------------------------------------------------------------------------
(* Collection *)

\* gc(force): the mutex
Collect(t, force) ==
  /\ Running(t) /\ mutex = None
  /\ mutex' = t
  /\ Begin(t, force, "roots")
  /\ UNCHANGED <<list, next, ptr, links, new>>

\* append(): not NULL, not marked
Unmarked(o) == o # Nil /\ tags[o] # "MARK"

\* One root of the list is read: its object is marked, and its _gc_mark appends its member.
ScanRoot(t) ==
  LET o == ptr[Head(todo)] IN
  /\ at[t] = "roots" /\ todo # <<>>
  /\ todo' = Tail(todo)
  /\ IF o = Nil THEN UNCHANGED <<tags, pending>>
     ELSE LET c == next[o]
              seen == [tags EXCEPT ![o] = "MARK"]
              add == c # Nil /\ seen[c] # "MARK"
          IN  /\ tags' = IF add THEN [seen EXCEPT ![c] = "MARK"] ELSE seen
              /\ pending' = IF add THEN Append(pending, c) ELSE pending
  /\ UNCHANGED <<list, next, ptr, links, mutex, at, new, moved>>

ScanEnds(t) ==
  /\ at[t] = "roots" /\ todo = <<>>
  /\ Go(t, "mark")
  /\ UNCHANGED <<heap, ptr, links, mutex, new, pending, todo, moved>>

\* Mutant: the queue is one level deep.
MarkOneShallow(t) ==
  /\ at[t] = "mark" /\ pending # <<>>
  /\ pending' = Tail(pending)
  /\ UNCHANGED <<heap, ptr, links, mutex, at, new, todo, moved>>

\* (*it)->_gc_mark(pending_q2); the queues change places when the first one is done.
MarkOne(t) ==
  LET c == next[Head(pending)] IN
  /\ at[t] = "mark" /\ pending # <<>>
  /\ IF Unmarked(c)
     THEN tags' = [tags EXCEPT ![c] = "MARK"] /\ pending' = Append(Tail(pending), c)
     ELSE UNCHANGED tags /\ pending' = Tail(pending)
  /\ UNCHANGED <<list, next, ptr, links, mutex, at, new, todo, moved>>

\* What follows the collection: unlock(), or the rest of gc_new
Returns(t) ==
  IF new[t] = NoNew THEN Go(t, "run") /\ mutex' = None
  ELSE Go(t, IF next[new[t].obj] = Nil THEN "built" ELSE "ctor2") /\ UNCHANGED mutex

\* The sweep: what is not marked is destroyed, the tags of the others are reset.
Sweep(t) ==
  LET marked == {o \in list : tags[o] = "MARK"} IN
  /\ at[t] = "mark" /\ pending = <<>>
  /\ list' = marked
  /\ tags' = Clear
  /\ next' = [o \in Objects |-> IF o \in list \ marked THEN Nil ELSE next[o]]
  /\ Returns(t)
  /\ UNCHANGED <<ptr, links, new, pending, todo, moved>>

\* push_back throws in the loop of queues: caught, gc_nolock returns and leaves the marks.
MarkFails(t) ==
  /\ MayFail /\ at[t] = "mark" /\ pending # <<>> /\ Unmarked(next[Head(pending)])
  /\ tags' = [tags EXCEPT ![next[Head(pending)]] = "MARK"]
  /\ pending' = <<>>
  /\ Returns(t)
  /\ UNCHANGED <<list, next, ptr, links, new, todo, moved>>

\* push_back throws in the loop of roots: neither gc() nor gc_new unlocks.  When the collection is
\* that of a gc_new in a constructor, the outer gc_new catches: it unlocks its own lock only, and
\* gives its object back.
ScanFails(t) ==
  LET o == ptr[Head(todo)] IN
  /\ MayFail /\ at[t] = "roots" /\ todo # <<>> /\ o # Nil
  /\ next[o] \notin {Nil, o} /\ tags[next[o]] # "MARK"
  /\ tags' = [tags EXCEPT ![o] = "MARK", ![next[o]] = "MARK"]
  /\ next' = [p \in Objects |-> IF p = new[t].obj THEN Nil ELSE next[p]]
  /\ new' = [new EXCEPT ![t] = NoNew]
  /\ pending' = <<>> /\ todo' = <<>>
  /\ Go(t, "thrown")
  /\ UNCHANGED <<list, ptr, links, mutex, moved>>

Step(t) ==
  \/ \E h \in Handles[t] : \/ Construct(t, h) \/ Destruct(t, h) \/ Assign(t, h) \/ Store(t, h)
                           \/ NewLock(t, h)
  \/ NewCollect(t) \/ NewDone(t) \/ NewThrows(t) \/ CtorNew(t) \/ CtorCollect(t)
  \/ \E force \in BOOLEAN : Collect(t, force)
  \/ ScanRoot(t) \/ ScanEnds(t) \/ MarkOne(t) \/ Sweep(t) \/ MarkFails(t) \/ ScanFails(t)

\* A pointer to a destroyed object: what follows is undefined, and left out.
Dangling == \/ \E h \in Roots : ptr[h] \notin list \cup {Nil}
            \/ \E o \in list : next[o] \notin list \cup {Nil}

Next == ~Dangling /\ \E t \in Threads : Step(t)

Spec == Init /\ [][Next]_vars

-----------------------------------------------------------------------------
(* What should hold. *)

TypeOK ==
  /\ list \subseteq Objects
  /\ next \in [Objects -> Objects \cup {Nil}]
  /\ ptr \in [Roots -> Objects \cup {Nil}]
  /\ tags \in [Objects -> {"FLAG", "MARK"}]
  /\ mutex \in Threads \cup {None}

\* What a client can still get at: the least set with what the roots point to that is closed under
\* the objects' own pointers.
Closed(S) == \A o \in S : next[o] # Nil => next[o] \in S
Closure(S) == {o \in Objects : \A R \in SUBSET Objects : S \subseteq R /\ Closed(R) => o \in R}
Reachable == Closure({ptr[h] : h \in ToSet(links)} \ {Nil})

\* A collection that nobody disturbs, and that does not start from the marks of one that
\* failed, keeps the objects that can be reached from a root and destroys all others, cycles
\* included.  An object under construction is not reachable yet, nor is what its members point to.
Keeps == ~moved => \A t \in Threads : Sweep(t) => list' = Reachable
KeepsExactlyReachable == [][Keeps]_vars
=============================================================================
