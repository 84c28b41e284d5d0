------------------------ MODULE StacksAndHeap_proofs ------------------------
(***************************************************************************)
(* What MCSync checks beside Event, for all numbers of threads.            *)
(*                                                                         *)
(* gc_ptr: mark and sweep keeps exactly the objects that the roots reach,  *)
(* for all numbers of objects and roots, also when the client builds       *)
(* cycles, other threads link and unlink roots, allocate and move          *)
(* pointers, constructors collect, and the mark queue runs out of memory.  *)
(*                                                                         *)
(* Coroutine: no stack is used twice, a swap goes to a stack that was      *)
(* saved, the states and assertions of yield() hold, and what is passed    *)
(* arrives, for all numbers of coroutines that one thread each spawns.     *)
(***************************************************************************)
EXTENDS GcPtr, TLAPS, SequenceTheorems

CONSTANTS Routines, Spawner, Extras                    \* Coroutine
VARIABLES m_nState, extra, stack, m_pThisRoutine, m_pLastRoutine, m_pVoidRoutine,
          pc, on, callee, spawning, sent               \* Coroutine

Routine == INSTANCE Coroutine

-----------------------------------------------------------------------------
(* gc_ptr: the invariant *)

Places == {"run", "new", "built", "ctor2", "roots", "mark", "thrown"}

\* The variables the argument is about.
Types ==
  /\ TypeOK
  /\ links \in Seq(Roots) /\ todo \in Seq(Roots) /\ pending \in Seq(Objects)
  /\ at \in [Threads -> Places]

\* gc_new has chosen the object and the root that it will be in.
NewInv ==
  /\ new \in [Threads -> [obj : Objects \cup {Nil}, root : Roots \cup {None}]]
  /\ \A t \in Threads :
       /\ new[t] = NoNew \/ (new[t].obj \in Objects /\ new[t].root \in Roots)
       /\ at[t] \in {"new", "built", "ctor2"} => new[t] # NoNew

\* Whoever is in gc_new or in a collection has the mutex.
LockInv == \A t \in Threads : at[t] # "run" => mutex = t

Marked(o) == tags[o] = "MARK"

\* Only linked objects are marked.
MarksInv == \A o \in Objects : Marked(o) => o \in list

\* Only linked objects are in the mark queue.
QueueInv == ToSet(pending) \subseteq list

\* A root or an object whose pointer the collection need not follow.
Followed(o) == o = Nil \/ Marked(o)

\* What a collection that nobody disturbs has done: it has marked nothing but what can be reached,
\* and what it has not followed from a marked object or a root is still in its queue.
Progress(t) ==
  /\ \A o \in Objects : Marked(o) => o \in Reachable
  /\ \A o \in Objects : Marked(o) => Followed(next[o]) \/ o \in ToSet(pending)
  /\ \A o \in ToSet(pending) : Marked(o)
  /\ \A h \in ToSet(links) : Followed(ptr[h]) \/ h \in ToSet(todo)
  /\ ToSet(todo) \subseteq ToSet(links)
  /\ at[t] = "mark" => todo = <<>>

ScanInv == ~moved => \A t \in Threads : at[t] \in {"roots", "mark"} => Progress(t)

Inv == Types /\ NewInv /\ LockInv /\ MarksInv /\ QueueInv /\ ScanInv

-----------------------------------------------------------------------------
(* Lemmas about queues and about what can be reached *)

\* The elements of a queue after its first is taken.
LEMMA TailSet ==
  ASSUME NEW S, NEW s \in Seq(S), s # <<>>
  PROVE  /\ Head(s) \in S /\ Tail(s) \in Seq(S)
         /\ ToSet(s) = {Head(s)} \cup ToSet(Tail(s))
<1>1. Len(s) \in Nat \ {0} /\ DOMAIN s = 1..Len(s) /\ Head(s) = s[1]
  BY EmptySeq, LenProperties
<1>2. Tail(s) \in Seq(S) /\ Len(Tail(s)) = Len(s) - 1 /\ DOMAIN Tail(s) = 1..Len(s) - 1
      /\ \A i \in 1..Len(s) - 1 : Tail(s)[i] = s[i + 1]
  BY HeadTailProperties, LenProperties
<1>3. ASSUME NEW x \in ToSet(s) PROVE x \in {Head(s)} \cup ToSet(Tail(s))
  <2>1. PICK i \in 1..Len(s) : x = s[i]
    BY <1>1 DEF ToSet
  <2>2. CASE i = 1
    BY <2>1, <2>2, <1>1
  <2>3. CASE i # 1
    <3>1. i - 1 \in 1..Len(s) - 1 /\ x = Tail(s)[i - 1]
      BY <2>1, <2>3, <1>1, <1>2
    <3> QED
      BY <3>1, <1>2 DEF ToSet
  <2> QED
    BY <2>2, <2>3
<1>4. ASSUME NEW x \in ToSet(Tail(s)) PROVE x \in ToSet(s)
  <2>1. PICK i \in 1..Len(s) - 1 : x = s[i + 1]
    BY <1>2 DEF ToSet
  <2>2. i + 1 \in 1..Len(s)
    BY <1>1
  <2> QED
    BY <2>1, <2>2, <1>1 DEF ToSet
<1>5. Head(s) \in ToSet(s)
  BY <1>1 DEF ToSet
<1> QED
  BY <1>2, <1>3, <1>4, <1>5, HeadTailProperties

\* The elements of a queue after one is appended.
LEMMA AppendSet ==
  ASSUME NEW S, NEW s \in Seq(S), NEW e \in S
  PROVE  Append(s, e) \in Seq(S) /\ ToSet(Append(s, e)) = ToSet(s) \cup {e}
<1> DEFINE a == Append(s, e)
<1>1. /\ a \in Seq(S) /\ Len(s) \in Nat /\ DOMAIN s = 1..Len(s) /\ DOMAIN a = 1..Len(s) + 1
      /\ \A i \in 1..Len(s) : a[i] = s[i]
      /\ a[Len(s) + 1] = e
  BY AppendProperties, LenProperties
<1> HIDE DEF a
<1>2. ASSUME NEW x \in ToSet(a) PROVE x \in ToSet(s) \cup {e}
  <2>1. PICK i \in 1..Len(s) + 1 : x = a[i]
    BY <1>1 DEF ToSet
  <2>2. i \in 1..Len(s) \/ i = Len(s) + 1
    BY <1>1
  <2> QED
    BY <2>1, <2>2, <1>1 DEF ToSet
<1>3. ASSUME NEW x \in ToSet(s) PROVE x \in ToSet(a)
  <2>1. PICK i \in 1..Len(s) : x = s[i]
    BY <1>1 DEF ToSet
  <2>2. i \in DOMAIN a /\ a[i] = x
    BY <2>1, <1>1
  <2> QED
    BY <2>2 DEF ToSet
<1>4. e \in ToSet(a)
  <2>1. Len(s) + 1 \in DOMAIN a
    BY <1>1
  <2> QED
    BY <2>1, <1>1 DEF ToSet
<1>5. ToSet(a) = ToSet(s) \cup {e}
  BY <1>2, <1>3, <1>4
<1> QED
  BY <1>1, <1>5 DEF a

\* The elements of a queue are of its type, and an empty one has none.
LEMMA ElementsOf ==
  ASSUME NEW S
  PROVE  /\ ToSet(<<>>) = {}
         /\ \A s \in Seq(S) : ToSet(s) \subseteq S
BY DEF ToSet

\* What is pointed to from the set, and from what is reached, is reached.
LEMMA Reaches ==
  ASSUME next \in [Objects -> Objects \cup {Nil}], NEW S \in SUBSET Objects
  PROVE  /\ S \subseteq Closure(S)
         /\ \A o \in Closure(S) : next[o] = Nil \/ next[o] \in Closure(S)
<1>1. S \subseteq Closure(S)
  BY DEF Closure
<1>2. ASSUME NEW o \in Closure(S), next[o] # Nil PROVE next[o] \in Closure(S)
  <2>1. o \in Objects /\ next[o] \in Objects
    BY <1>2 DEF Closure
  <2>2. ASSUME NEW R \in SUBSET Objects, S \subseteq R, Closed(R) PROVE next[o] \in R
    <3>1. o \in R
      BY <2>2, <1>2 DEF Closure
    <3> QED
      BY <3>1, <2>2, <1>2 DEF Closed
  <2> QED
    BY <2>1, <2>2 DEF Closure
<1> QED
  BY <1>1, <1>2

\* A closed set with the beginning in it has all that is reached.
LEMMA ReachesNoMore ==
  ASSUME NEW S, NEW R \in SUBSET Objects, S \subseteq R, Closed(R)
  PROVE  Closure(S) \subseteq R
BY DEF Closure

\* The sweep destroys what is not reached, and nothing else.
LEMMA SweepIsExact == ASSUME GcAssumption PROVE Inv => Keeps
<1> SUFFICES ASSUME Inv, ~moved, NEW t \in Threads, Sweep(t) PROVE list' = Reachable
  BY DEF Keeps
<1> DEFINE marked == {o \in list : tags[o] = "MARK"}
           S == {ptr[h] : h \in ToSet(links)} \ {Nil}
<1>1. Progress(t) /\ todo = <<>> /\ pending = <<>>
  BY DEF Inv, ScanInv, Sweep, Progress
<1>2. ToSet(todo) = {} /\ ToSet(pending) = {}
  BY <1>1, ElementsOf
<1>3. marked \in SUBSET Objects
  BY DEF Inv, Types, TypeOK
<1>4. \A o \in Objects : Marked(o) <=> o \in marked
  BY DEF Inv, MarksInv, Marked
<1>5. marked \subseteq Reachable
  BY <1>1, <1>3, <1>4 DEF Progress
<1>6. Closed(marked)
  <2>1. \A o \in marked : next[o] \in Objects \cup {Nil}
    BY <1>3 DEF Inv, Types, TypeOK
  <2> QED
    BY <2>1, <1>1, <1>2, <1>3, <1>4, GcAssumption DEF Closed, Progress, Followed, GcAssumption
<1>7. S \subseteq marked
  <2>1. ToSet(links) \subseteq Roots
    BY ElementsOf DEF Inv, Types
  <2>2. \A h \in ToSet(links) : ptr[h] \in Objects \cup {Nil}
    BY <2>1 DEF Inv, Types, TypeOK
  <2> QED
    BY <2>2, <1>1, <1>2, <1>4 DEF Progress, Followed
<1>8. Reachable \subseteq marked
  <2> HIDE DEF marked
  <2>1. Closure(S) \subseteq marked
    BY <1>3, <1>6, <1>7, ReachesNoMore
  <2> QED
    BY <2>1 DEF Reachable
<1>9. list' = marked
  BY DEF Sweep
<1> QED
  BY <1>5, <1>8, <1>9

-----------------------------------------------------------------------------
(* The invariant begins and is kept: the types *)

LEMMA InvInit == ASSUME GcAssumption PROVE Init => Inv
<1> SUFFICES ASSUME Init PROVE Inv
  OBVIOUS
<1>1. Types
  BY DEF Init, Types, TypeOK, Places, Clear
<1>2. NewInv /\ LockInv /\ MarksInv /\ ScanInv
  BY DEF Init, NewInv, NoNew, LockInv, MarksInv, Marked, Clear, ScanInv
<1>3. QueueInv
  BY ElementsOf DEF Init, QueueInv
<1> QED
  BY <1>1, <1>2, <1>3 DEF Inv

\* The types, when the client moves a pointer or links a root.
LEMMA ClientTypes ==
  ASSUME GcAssumption, Inv, NEW t \in Threads, NEW h \in Handles[t],
         Construct(t, h) \/ Destruct(t, h) \/ Assign(t, h) \/ Store(t, h) \/ NewLock(t, h)
  PROVE  Types'
<1>a. Types /\ h \in Roots
  BY DEF Inv, Roots
<1>1. CASE Construct(t, h)
  <2>1. <<h>> \in Seq(Roots) /\ links \in Seq(Roots)
    BY <1>a DEF Types
  <2>2. links' \in Seq(Roots)
    BY <1>1, <2>1, ConcatProperties DEF Construct
  <2> QED
    BY <1>1, <1>a, <2>2 DEF Construct, Types, TypeOK, heap
<1>2. CASE Destruct(t, h)
  <2>1. PICK i \in DOMAIN links : links' = RemoveAt(links, i)
    BY <1>2 DEF Destruct
  <2>2. links \in Seq(Roots) /\ Len(links) \in Nat /\ DOMAIN links = 1..Len(links)
        /\ \A j \in 1..Len(links) : links[j] \in Roots
    BY <1>a, LenProperties DEF Types
  <2>3. /\ \A j \in 1..i-1 : links[j] \in Roots
        /\ \A j \in i+1..Len(links) : links[j] \in Roots
    BY <2>2
  <2>4. SubSeq(links, 1, i-1) \in Seq(Roots) /\ SubSeq(links, i+1, Len(links)) \in Seq(Roots)
    <3>1. i - 1 \in Int /\ i + 1 \in Int /\ Len(links) \in Int
      BY <2>2
    <3> QED
      BY <3>1, <2>3, SubSeqProperties
  <2>5. links' \in Seq(Roots)
    BY <2>1, <2>4, ConcatProperties DEF RemoveAt
  <2> QED
    BY <1>2, <1>a, <2>5 DEF Destruct, Types, TypeOK, heap
<1>3. CASE Assign(t, h)
  <2>1. \A g \in Handles[t] : g \in Roots
    BY DEF Roots
  <2>2. PICK o \in {Nil} \cup {ptr[g] : g \in Handles[t]}
                   \cup {next[ptr[g]] : g \in {k \in Handles[t] : ptr[k] # Nil}} :
          ptr' = [ptr EXCEPT ![h] = o]
    BY <1>3 DEF Assign
  <2>3. o \in Objects \cup {Nil}
    BY <2>1, <2>2, <1>a DEF Types, TypeOK
  <2> QED
    BY <1>3, <2>2, <2>3, <1>a DEF Assign, Types, TypeOK, heap
<1>4. CASE Store(t, h)
  <2>1. \A g \in Handles[t] : g \in Roots
    BY DEF Roots
  <2>2. PICK o \in {Nil} \cup {ptr[g] : g \in Handles[t]} : next' = [next EXCEPT ![ptr[h]] = o]
    BY <1>4 DEF Store
  <2>3. o \in Objects \cup {Nil}
    BY <2>1, <2>2, <1>a DEF Types, TypeOK
  <2> QED
    BY <1>4, <2>2, <2>3, <1>a DEF Store, Types, TypeOK
<1>5. CASE NewLock(t, h)
  BY <1>5, <1>a DEF NewLock, Types, TypeOK, heap, Go, Places
<1> QED
  BY <1>1, <1>2, <1>3, <1>4, <1>5

\* The types, in gc_new and when a collection begins.
LEMMA NewTypes ==
  ASSUME GcAssumption, Inv, NEW t \in Threads,
         \/ NewCollect(t) \/ NewDone(t) \/ NewThrows(t) \/ CtorNew(t) \/ CtorCollect(t)
         \/ \E force \in BOOLEAN : Collect(t, force)
  PROVE  Types'
<1>a. Types
  BY DEF Inv
<1>b. at[t] \in {"new", "built", "ctor2"} => new[t].obj \in Objects /\ new[t].root \in Roots
  BY DEF Inv, NewInv
<1>1. ASSUME NEW force \in BOOLEAN, NEW l \in Places, Begin(t, force, l),
             UNCHANGED <<list, next, ptr, links>>, mutex' \in Threads \cup {None}
      PROVE Types'
  BY <1>1, <1>a DEF Begin, Go, Types, TypeOK, Clear
<1>2. CASE NewCollect(t) \/ CtorCollect(t) \/ \E force \in BOOLEAN : Collect(t, force)
  BY <1>1, <1>2, <1>a DEF NewCollect, CtorCollect, Collect, Places, Types, TypeOK
<1>3. CASE NewDone(t)
  <2>1. new[t].obj \in Objects /\ new[t].root \in Roots
    BY <1>3, <1>b DEF NewDone
  <2>2. at' \in [Threads -> Places] /\ mutex' \in Threads \cup {None}
    BY <1>3, <1>a DEF NewDone, Go, Types, Places
  <2>3. list' \subseteq Objects /\ tags' \in [Objects -> {"FLAG", "MARK"}]
    BY <1>3, <1>a, <2>1 DEF NewDone, Types, TypeOK
  <2>4. next' \in [Objects -> Objects \cup {Nil}] /\ ptr' \in [Roots -> Objects \cup {Nil}]
    BY <1>3, <1>a, <2>1 DEF NewDone, Types, TypeOK
  <2> QED
    BY <1>3, <1>a, <2>2, <2>3, <2>4 DEF NewDone, Types, TypeOK
<1>4. CASE NewThrows(t)
  BY <1>4, <1>a DEF NewThrows, Go, Types, TypeOK, Places
<1>5. CASE CtorNew(t)
  <2>1. PICK i \in Objects \ (list \cup {new[t].obj}) :
          /\ list' = list \cup {i}
          /\ tags' = [tags EXCEPT ![i] = "FLAG"]
          /\ next' = [next EXCEPT ![i] = Nil, ![new[t].obj] = i]
    BY <1>5 DEF CtorNew
  <2>2. list' \subseteq Objects /\ tags' \in [Objects -> {"FLAG", "MARK"}]
        /\ next' \in [Objects -> Objects \cup {Nil}]
    BY <2>1, <1>a DEF Types, TypeOK
  <2>3. at' \in [Threads -> Places]
    BY <1>5, <1>a DEF CtorNew, Go, Types, Places
  <2> QED
    BY <1>5, <1>a, <2>2, <2>3 DEF CtorNew, Types, TypeOK
<1> QED
  BY <1>2, <1>3, <1>4, <1>5

\* Where the collecting thread goes on.
LEMMA ReturnsTo ==
  ASSUME Inv, NEW t \in Threads, Returns(t)
  PROVE  /\ at' \in [Threads -> Places] /\ mutex' \in Threads \cup {None}
         /\ at'[t] \in {"run", "built", "ctor2"}
         /\ at'[t] # "run" => new[t] # NoNew /\ mutex' = mutex
         /\ at'[t] = "run" => mutex' = None
         /\ \A u \in Threads : u # t => at'[u] = at[u]
BY DEF Inv, Types, TypeOK, Returns, Go, Places

\* What a step of the collection reads is an object or NULL, and linked.
LEMMA ScanReads ==
  ASSUME GcAssumption, Inv, ~Dangling
  PROVE  /\ todo # <<>> => /\ Head(todo) \in Roots /\ Tail(todo) \in Seq(Roots)
                           /\ ptr[Head(todo)] = Nil \/ ptr[Head(todo)] \in list
         /\ pending # <<>> => /\ Head(pending) \in Objects /\ Tail(pending) \in Seq(Objects)
                              /\ next[Head(pending)] \in Objects \cup {Nil}
         /\ \A o \in list : o \in Objects /\ (next[o] = Nil \/ next[o] \in list)
<1>1. Types
  BY DEF Inv
<1>2. todo # <<>> => Head(todo) \in Roots /\ Tail(todo) \in Seq(Roots)
  BY <1>1, HeadTailProperties DEF Types
<1>3. pending # <<>> => Head(pending) \in Objects /\ Tail(pending) \in Seq(Objects)
  BY <1>1, HeadTailProperties DEF Types
<1> QED
  BY <1>1, <1>2, <1>3 DEF Types, TypeOK, Dangling

\* The types, while a collection marks and sweeps.
LEMMA ScanTypes ==
  ASSUME GcAssumption, Inv, ~Dangling, NEW t \in Threads,
         ScanRoot(t) \/ ScanEnds(t) \/ MarkOne(t) \/ Sweep(t) \/ MarkFails(t) \/ ScanFails(t)
  PROVE  Types'
<1>a. Types
  BY DEF Inv
<1>1. CASE ScanRoot(t)
  <2> DEFINE o == ptr[Head(todo)]
  <2>1. Tail(todo) \in Seq(Roots) /\ (o = Nil \/ o \in list)
        /\ (o \in list => next[o] \in Objects \cup {Nil})
    BY <1>1, ScanReads, <1>a DEF ScanRoot, Types, TypeOK
  <2>2. tags' \in [Objects -> {"FLAG", "MARK"}]
    BY <1>1, <1>a DEF ScanRoot, Types, TypeOK
  <2>3. pending' \in Seq(Objects)
    <3>1. pending' = pending \/ (pending' = Append(pending, next[o]) /\ next[o] \in Objects)
      BY <1>1, <2>1 DEF ScanRoot
    <3> QED
      BY <3>1, <1>a, AppendProperties DEF Types
  <2> QED
    BY <1>1, <1>a, <2>1, <2>2, <2>3 DEF ScanRoot, Types, TypeOK
<1>2. CASE ScanEnds(t)
  BY <1>2, <1>a DEF ScanEnds, Go, Types, TypeOK, heap, Places
<1>3. CASE MarkOne(t)
  <2> DEFINE c == next[Head(pending)]
  <2>1. Tail(pending) \in Seq(Objects) /\ c \in Objects \cup {Nil}
    BY <1>3, ScanReads DEF MarkOne
  <2>2. tags' \in [Objects -> {"FLAG", "MARK"}]
    BY <1>3, <1>a DEF MarkOne, Types, TypeOK
  <2>3. pending' \in Seq(Objects)
    BY <1>3, <2>1 DEF MarkOne, Unmarked
  <2> QED
    BY <1>3, <1>a, <2>2, <2>3 DEF MarkOne, Types, TypeOK
<1>4. CASE Sweep(t)
  BY <1>4, <1>a, ReturnsTo DEF Sweep, Types, TypeOK, Clear
<1>5. CASE MarkFails(t)
  <2>1. tags' \in [Objects -> {"FLAG", "MARK"}]
    BY <1>5, <1>a DEF MarkFails, Types, TypeOK
  <2>2. pending' \in Seq(Objects)
    BY <1>5 DEF MarkFails
  <2>3. at' \in [Threads -> Places] /\ mutex' \in Threads \cup {None}
    BY <1>5, ReturnsTo DEF MarkFails
  <2>4. UNCHANGED <<list, next, ptr, links, new, todo, moved>>
    BY <1>5 DEF MarkFails
  <2> QED
    BY <1>a, <2>1, <2>2, <2>3, <2>4 DEF Types, TypeOK
<1>6. CASE ScanFails(t)
  BY <1>6, <1>a DEF ScanFails, Go, Types, TypeOK, Places
<1> QED
  BY <1>1, <1>2, <1>3, <1>4, <1>5, <1>6

-----------------------------------------------------------------------------
(* The mutex, the objects under construction and the marks *)

\* A collection keeps everyone else from the mutex.
LEMMA NobodyCollects ==
  ASSUME GcAssumption, Inv, NEW t \in Threads,
         mutex \in {None, t}, at[t] \notin {"roots", "mark"}
  PROVE  \A u \in Threads : at[u] \notin {"roots", "mark"}
BY DEF GcAssumption, Inv, LockInv

\* Every action of the client, of gc_new and of the collection keeps the mutex with the thread
\* that is in them, and what gc_new has chosen.
LEMMA LockKept ==
  ASSUME GcAssumption, Inv, NEW t \in Threads, Step(t)
  PROVE  LockInv' /\ NewInv'
<1>a. Types /\ NewInv /\ LockInv
  BY DEF Inv
<1>b. \A u \in Threads : at[u] # "run" => mutex = u
  BY <1>a DEF LockInv
<1>1. ASSUME NEW h \in Handles[t], Construct(t, h) \/ Destruct(t, h) \/ Assign(t, h) \/ Store(t, h)
      PROVE LockInv' /\ NewInv'
  <2>1. UNCHANGED <<mutex, at, new>>
    BY <1>1 DEF Construct, Destruct, Assign, Store
  <2> QED
    BY <2>1, <1>a DEF LockInv, NewInv
<1>2. ASSUME NEW h \in Handles[t], NewLock(t, h) PROVE LockInv' /\ NewInv'
  <2>1. mutex = None /\ mutex' = t /\ at' = [at EXCEPT ![t] = "new"]
    BY <1>2 DEF NewLock, Go
  <2>2. \A u \in Threads : at[u] = "run"
    BY <2>1, <1>b DEF GcAssumption
  <2>3. LockInv'
    BY <2>1, <2>2, <1>a DEF LockInv, Types
  <2>4. PICK o \in Objects : new' = [new EXCEPT ![t] = [obj |-> o, root |-> h]]
    BY <1>2 DEF NewLock
  <2>5. h \in Roots
    BY DEF Roots
  <2>6. NewInv'
    BY <2>1, <2>2, <2>4, <2>5, <1>a DEF NewInv, NoNew, GcAssumption, Types
  <2> QED
    BY <2>3, <2>6
<1>3. ASSUME \/ NewCollect(t) \/ CtorNew(t) \/ CtorCollect(t)
             \/ \E force \in BOOLEAN : Collect(t, force)
      PROVE LockInv' /\ NewInv'
  <2>1. PICK l \in {"roots", "ctor2"} : at' = [at EXCEPT ![t] = l]
    BY <1>3 DEF NewCollect, CtorNew, CtorCollect, Collect, Begin, Go
  <2>2. mutex' = t /\ new' = new
    BY <1>3, <1>b DEF NewCollect, CtorNew, CtorCollect, Collect
  <2>3. mutex \in {None, t} /\ (l = "ctor2" => at[t] \in {"new", "built"})
    BY <1>3, <1>b, <2>1, <1>a DEF NewCollect, CtorNew, CtorCollect, Collect, Begin, Go, Types
  <2>4. \A u \in Threads : u # t => at[u] = "run"
    BY <2>3, <1>b DEF GcAssumption
  <2>5. LockInv'
    BY <2>1, <2>2, <2>4, <1>a DEF LockInv, Types
  <2>6. NewInv'
    BY <2>1, <2>2, <2>3, <1>a DEF NewInv, Types
  <2> QED
    BY <2>5, <2>6
<1>4. CASE NewDone(t) \/ NewThrows(t)
  <2>1. at' = [at EXCEPT ![t] = "run"] /\ mutex' = None /\ new' = [new EXCEPT ![t] = NoNew]
    BY <1>4 DEF NewDone, NewThrows, Go
  <2>2. \A u \in Threads : u # t => at[u] = "run"
    BY <1>4, <1>b DEF NewDone, NewThrows
  <2>3. LockInv'
    BY <2>1, <2>2, <1>a DEF LockInv, Types
  <2>4. NewInv'
    BY <2>1, <2>2, <1>a DEF NewInv, NoNew, Types
  <2> QED
    BY <2>3, <2>4
<1>5. CASE ScanRoot(t) \/ ScanEnds(t) \/ MarkOne(t)
  <2>1. PICK l \in {"roots", "mark"} : at' = [at EXCEPT ![t] = l]
    <3>1. (ScanRoot(t) \/ MarkOne(t)) => at[t] \in {"roots", "mark"} /\ at' = [at EXCEPT ![t] = at[t]]
      BY <1>a DEF ScanRoot, MarkOne, Types
    <3> QED
      BY <1>5, <3>1 DEF ScanEnds, Go
  <2>2. mutex' = t /\ new' = new
    BY <1>5, <1>b DEF ScanRoot, MarkOne, ScanEnds
  <2>3. mutex = t
    BY <1>5, <1>b DEF ScanRoot, MarkOne, ScanEnds
  <2>4. LockInv'
    BY <2>1, <2>2, <2>3, <1>a, <1>b DEF LockInv, Types
  <2>5. NewInv'
    BY <2>1, <2>2, <1>a DEF NewInv, Types
  <2> QED
    BY <2>4, <2>5
<1>6. CASE Sweep(t) \/ MarkFails(t)
  <2>1. Returns(t) /\ new' = new /\ at[t] = "mark"
    BY <1>6 DEF Sweep, MarkFails
  <2>2. mutex = t
    BY <2>1, <1>b
  <2>3. \A u \in Threads : u # t => at[u] = "run" /\ at'[u] = "run"
    BY <2>1, <2>2, <1>b, ReturnsTo
  <2>4. LockInv'
    BY <2>1, <2>2, <2>3, ReturnsTo DEF LockInv
  <2>5. \A u \in Threads : at'[u] \in {"new", "built", "ctor2"} => new[u] # NoNew
    BY <2>1, <2>3, ReturnsTo
  <2>6. NewInv'
    BY <2>1, <2>5, <1>a DEF NewInv
  <2> QED
    BY <2>4, <2>6
<1>7. CASE ScanFails(t)
  <2>1. at' = [at EXCEPT ![t] = "thrown"] /\ mutex' = mutex /\ new' = [new EXCEPT ![t] = NoNew]
    BY <1>7 DEF ScanFails, Go
  <2>2. mutex = t
    BY <1>7, <1>b DEF ScanFails
  <2>3. LockInv'
    BY <2>1, <2>2, <1>a, <1>b DEF LockInv, Types
  <2>4. NewInv'
    BY <2>1, <1>a DEF NewInv, NoNew, Types
  <2> QED
    BY <2>3, <2>4
<1> QED
  BY <1>1, <1>2, <1>3, <1>4, <1>5, <1>6, <1>7 DEF Step

\* Only linked objects become marked, and marks are cleared before anything is unlinked.
LEMMA MarksKept ==
  ASSUME GcAssumption, Inv, ~Dangling, NEW t \in Threads, Step(t)
  PROVE  MarksInv'
<1>a. /\ tags \in [Objects -> {"FLAG", "MARK"}] /\ list \subseteq Objects
      /\ \A o \in Objects : tags[o] = "MARK" => o \in list
  BY DEF Inv, Types, TypeOK, MarksInv, Marked
<1>1. ASSUME NEW h \in Handles[t],
             Construct(t, h) \/ Destruct(t, h) \/ Assign(t, h) \/ Store(t, h) \/ NewLock(t, h)
      PROVE MarksInv'
  <2>1. UNCHANGED <<list, tags>>
    BY <1>1 DEF Construct, Destruct, Assign, Store, NewLock, heap
  <2> QED
    BY <2>1, <1>a DEF MarksInv, Marked
<1>2. ASSUME \/ NewCollect(t) \/ CtorCollect(t) \/ NewThrows(t)
             \/ \E force \in BOOLEAN : Collect(t, force)
      PROVE MarksInv'
  <2>1. list' = list /\ tags' \in {tags, Clear}
    BY <1>2 DEF NewCollect, CtorCollect, Collect, Begin, NewThrows
  <2> QED
    BY <2>1, <1>a DEF MarksInv, Marked, Clear
<1>3. CASE NewDone(t) \/ CtorNew(t)
  <2>1. PICK o \in Objects : tags' = [tags EXCEPT ![o] = "FLAG"] /\ list' = list \cup {o}
    BY <1>3 DEF NewDone, CtorNew, Inv, NewInv
  <2> QED
    BY <2>1, <1>a DEF MarksInv, Marked
<1>4. CASE ScanRoot(t)
  <2> DEFINE o == ptr[Head(todo)]
             c == next[o]
  <2>1. o = Nil \/ (o \in list /\ (c = Nil \/ c \in list))
    BY <1>4, ScanReads DEF ScanRoot
  <2>2. list' = list /\ \A x \in Objects : tags'[x] = "MARK" => tags[x] = "MARK"
                                                              \/ (o # Nil /\ x = o)
                                                              \/ (o # Nil /\ c # Nil /\ x = c)
    BY <1>4, <1>a DEF ScanRoot
  <2> QED
    BY <2>1, <2>2, <1>a DEF MarksInv, Marked
<1>5. CASE MarkOne(t) \/ MarkFails(t)
  <2> DEFINE c == next[Head(pending)]
  <2>1. Head(pending) \in ToSet(pending) /\ pending # <<>>
    BY <1>5, TailSet DEF MarkOne, MarkFails, Inv, Types
  <2>2. c = Nil \/ c \in list
    BY <2>1, ScanReads DEF Inv, QueueInv
  <2>3. list' = list /\ \A x \in Objects : tags'[x] = "MARK" => tags[x] = "MARK" \/ (x = c /\ c # Nil)
    BY <1>5, <1>a DEF MarkOne, MarkFails, Unmarked
  <2> QED
    BY <2>2, <2>3, <1>a DEF MarksInv, Marked
<1>6. CASE ScanEnds(t)
  BY <1>6, <1>a DEF ScanEnds, heap, MarksInv, Marked
<1>7. CASE Sweep(t)
  BY <1>7 DEF Sweep, Clear, MarksInv, Marked
<1>8. CASE ScanFails(t)
  <2> DEFINE o == ptr[Head(todo)]
             c == next[o]
  <2>1. o \in list /\ c \in list
    BY <1>8, ScanReads DEF ScanFails
  <2>2. list' = list /\ \A x \in Objects : tags'[x] = "MARK" => tags[x] = "MARK" \/ x \in {o, c}
    BY <1>8, <1>a DEF ScanFails
  <2> QED
    BY <2>1, <2>2, <1>a DEF MarksInv, Marked
<1> QED
  BY <1>1, <1>2, <1>3, <1>4, <1>5, <1>6, <1>7, <1>8 DEF Step

\* What the mark queue has stays linked, and so is what comes to it.
LEMMA QueueKept ==
  ASSUME GcAssumption, Inv, ~Dangling, NEW t \in Threads, Step(t)
  PROVE  QueueInv'
<1>a. ToSet(pending) \subseteq list /\ pending \in Seq(Objects) /\ list \subseteq Objects
  BY DEF Inv, QueueInv, Types, TypeOK
<1>b. list \subseteq list' /\ pending' \in {pending, <<>>} => QueueInv'
  BY <1>a, ElementsOf DEF QueueInv
<1>1. ASSUME NEW h \in Handles[t],
             Construct(t, h) \/ Destruct(t, h) \/ Assign(t, h) \/ Store(t, h) \/ NewLock(t, h)
      PROVE QueueInv'
  BY <1>1, <1>b DEF Construct, Destruct, Assign, Store, NewLock, heap
<1>2. ASSUME \/ NewCollect(t) \/ CtorCollect(t) \/ NewThrows(t) \/ NewDone(t) \/ CtorNew(t)
             \/ \E force \in BOOLEAN : Collect(t, force)
      PROVE QueueInv'
  BY <1>2, <1>b DEF NewCollect, CtorCollect, Collect, Begin, NewThrows, NewDone, CtorNew
<1>3. CASE ScanRoot(t)
  <2> DEFINE o == ptr[Head(todo)]
             c == next[o]
  <2>1. list' = list /\ (pending' = pending \/ (pending' = Append(pending, c) /\ c \in list))
    BY <1>3, ScanReads DEF ScanRoot
  <2>2. pending' = Append(pending, c) /\ c \in list => ToSet(pending') \subseteq list
    BY <1>a, AppendSet
  <2> QED
    BY <2>1, <2>2, <1>a DEF QueueInv
<1>4. CASE MarkOne(t)
  <2> DEFINE c == next[Head(pending)]
  <2>1. /\ Head(pending) \in list /\ Tail(pending) \in Seq(Objects)
        /\ ToSet(Tail(pending)) \subseteq list
    BY <1>4, <1>a, TailSet DEF MarkOne
  <2>2. c = Nil \/ c \in list
    BY <2>1, ScanReads
  <2>3. list' = list /\ (pending' = Tail(pending) \/ (pending' = Append(Tail(pending), c) /\ c \in list))
    BY <1>4, <2>2 DEF MarkOne, Unmarked
  <2>4. ASSUME NEW e \in list PROVE ToSet(Append(Tail(pending), e)) \subseteq list
    <3> DEFINE q == Tail(pending)
    <3>1. q \in Seq(Objects) /\ ToSet(q) \subseteq list /\ e \in Objects
      BY <2>1, <1>a
    <3> HIDE DEF q
    <3>2. ToSet(Append(q, e)) = ToSet(q) \cup {e}
      BY <3>1, AppendSet
    <3> QED
      BY <3>1, <3>2 DEF q
  <2> QED
    BY <2>1, <2>3, <2>4 DEF QueueInv
<1>5. CASE ScanEnds(t) \/ ScanFails(t) \/ MarkFails(t)
  BY <1>5, <1>b DEF ScanEnds, ScanFails, MarkFails, heap
<1>6. CASE Sweep(t)
  <2>1. pending' = <<>>
    BY <1>6 DEF Sweep
  <2> QED
    BY <2>1, ElementsOf DEF QueueInv
<1> QED
  BY <1>1, <1>2, <1>3, <1>4, <1>5, <1>6 DEF Step

-----------------------------------------------------------------------------
(* The progress of a collection *)

\* When nobody collects after a step there is nothing to show.
LEMMA NobodyScans ==
  ASSUME \A u \in Threads : at'[u] \notin {"roots", "mark"}
  PROVE  ScanInv'
BY DEF ScanInv

\* A collection that begins without marks has all roots before it.
LEMMA ScanBegins ==
  ASSUME GcAssumption, Inv, NEW t \in Threads, NEW force \in BOOLEAN, Begin(t, force, "roots"),
         mutex \in {None, t}, UNCHANGED <<list, links>>
  PROVE  ScanInv'
<1> SUFFICES ASSUME ~moved', NEW u \in Threads, at'[u] \in {"roots", "mark"} PROVE Progress(u)'
  BY DEF ScanInv
<1>a. list \subseteq Objects /\ MarksInv /\ LockInv /\ at \in [Threads -> Places]
  BY DEF Inv, Types, TypeOK
<1>1. \A o \in list : tags'[o] # "MARK"
  BY DEF Begin
<1>2. \A o \in Objects : tags'[o] # "MARK"
  <2>1. CASE force
    BY <2>1 DEF Begin, Clear
  <2>2. CASE ~force
    BY <2>2, <1>1, <1>a DEF Begin, MarksInv, Marked
  <2> QED
    BY <2>1, <2>2
<1>3. ToSet(pending') = {}
  BY ElementsOf DEF Begin
<1>4. todo' = links' /\ ToSet(todo') = ToSet(links')
  BY DEF Begin
<1>5. at'[u] # "mark"
  BY <1>a DEF Begin, Go, LockInv, GcAssumption
<1> QED
  BY <1>2, <1>3, <1>4, <1>5 DEF Progress, Marked, Followed

\* What can be reached depends on the pointers only.
LEMMA SameReach ==
  ASSUME UNCHANGED <<next, ptr, links>>
  PROVE  Reachable' = Reachable
BY DEF Reachable, Closure, Closed

\* What the roots point to can be reached, and what that points to.
LEMMA RootsReach ==
  ASSUME GcAssumption, Inv
  PROVE  /\ \A h \in ToSet(links) : ptr[h] = Nil \/ ptr[h] \in Reachable
         /\ \A o \in Reachable : o \in Objects /\ (next[o] = Nil \/ next[o] \in Reachable)
<1> DEFINE S == {ptr[h] : h \in ToSet(links)} \ {Nil}
<1>1. ToSet(links) \subseteq Roots /\ ptr \in [Roots -> Objects \cup {Nil}]
      /\ next \in [Objects -> Objects \cup {Nil}]
  BY ElementsOf DEF Inv, Types, TypeOK
<1>2. S \in SUBSET Objects
  BY <1>1
<1>3. \A h \in ToSet(links) : ptr[h] = Nil \/ ptr[h] \in S
  OBVIOUS
<1>4. Reachable = Closure(S)
  BY DEF Reachable
<1> HIDE DEF S
<1>5. S \subseteq Closure(S) /\ \A o \in Closure(S) : next[o] = Nil \/ next[o] \in Closure(S)
  BY <1>1, <1>2, Reaches
<1>6. \A o \in Closure(S) : o \in Objects
  BY DEF Closure
<1> QED
  BY <1>3, <1>4, <1>5, <1>6

\* The only thread whose progress is to be shown after a step of the collection is the one that
\* has made it.
LEMMA OnlyThisScans ==
  ASSUME GcAssumption, Inv, NEW t \in Threads, at[t] \in {"roots", "mark"},
         \A u \in Threads : u # t => at'[u] = at[u],
         ~moved' => ~moved,
         Progress(t) => Progress(t)'
  PROVE  ScanInv'
<1>1. \A u \in Threads : u # t => at[u] = "run"
  BY DEF Inv, LockInv
<1>2. ~moved => Progress(t)
  BY DEF Inv, ScanInv
<1> QED
  BY <1>1, <1>2 DEF ScanInv

\* A root is read: what it points to is marked and followed.
LEMMA ScanRootProgress ==
  ASSUME GcAssumption, Inv, ~Dangling, NEW t \in Threads, ScanRoot(t), Progress(t)
  PROVE  Progress(t)'
<1> DEFINE h == Head(todo)
           o == ptr[h]
           c == next[o]
<1>a. /\ tags \in [Objects -> {"FLAG", "MARK"}] /\ pending \in Seq(Objects)
      /\ list \subseteq Objects /\ next \in [Objects -> Objects \cup {Nil}]
      /\ todo \in Seq(Roots) /\ Nil \notin Objects
  BY DEF Inv, Types, TypeOK, GcAssumption
<1>1. todo # <<>> /\ todo' = Tail(todo) /\ UNCHANGED <<list, next, ptr, links, at>>
  BY DEF ScanRoot
<1>2. h \in ToSet(todo) /\ ToSet(todo) = {h} \cup ToSet(todo')
  BY <1>1, <1>a, TailSet
<1>3. Reachable' = Reachable
  BY <1>1, SameReach
<1>4. h \in ToSet(links) /\ ToSet(todo') \subseteq ToSet(links')
  BY <1>1, <1>2 DEF Progress
<1>5. (at[t] = "mark")' => FALSE
  BY <1>1 DEF ScanRoot
<1>6. CASE o = Nil
  <2>1. UNCHANGED <<tags, pending>>
    BY <1>6 DEF ScanRoot
  <2> QED
    BY <1>1, <1>2, <1>3, <1>4, <1>5, <1>6, <2>1 DEF Progress, Marked, Followed
<1>7. CASE o # Nil
  <2>1. o \in Objects /\ o \in Reachable /\ (c = Nil \/ (c \in Objects /\ c \in Reachable))
    BY <1>4, <1>7, RootsReach
  <2> DEFINE add == c # Nil /\ c # o /\ tags[c] # "MARK"
  <2>2. /\ add => /\ tags' = [tags EXCEPT ![o] = "MARK", ![c] = "MARK"]
                  /\ pending' = Append(pending, c)
        /\ ~add => tags' = [tags EXCEPT ![o] = "MARK"] /\ pending' = pending
    BY <1>7, <1>a, <2>1 DEF ScanRoot
  <2>3. \A x \in Objects : Marked(x)' <=> Marked(x) \/ x = o \/ (c # Nil /\ x = c)
    BY <2>1, <2>2, <1>a DEF Marked
  <2>4. ToSet(pending') = ToSet(pending) \cup (IF add THEN {c} ELSE {})
    <3> HIDE DEF c
    <3>1. c \in Objects => ToSet(Append(pending, c)) = ToSet(pending) \cup {c}
      BY <1>a, AppendSet
    <3> QED
      BY <2>1, <2>2, <3>1
  <2>5. ToSet(pending) \subseteq Objects
    BY <1>a, ElementsOf
  <2> HIDE DEF h, o, c
  <2>6. \A x \in Objects : Marked(x)' => x \in Reachable
    BY <2>1, <2>3 DEF Progress
  <2>7. \A x \in ToSet(pending') : Marked(x)'
    BY <2>1, <2>3, <2>4, <2>5 DEF Progress
  <2>8. \A x \in Objects \cup {Nil} : Followed(x) => Followed(x)'
    BY <2>3 DEF Followed
  <2>9. ASSUME NEW x \in Objects, Marked(x)'
        PROVE  Followed(next[x])' \/ x \in ToSet(pending')
    <3>1. CASE x = o
      BY <2>1, <2>3, <3>1, <1>1 DEF c, Followed
    <3>2. CASE Marked(x)
      <4>1. Followed(next[x]) \/ x \in ToSet(pending)
        BY <3>2 DEF Progress
      <4> QED
        BY <4>1, <2>4, <2>8, <1>1, <1>a DEF Followed
    <3>3. CASE ~Marked(x) /\ x # o
      BY <2>3, <2>4, <2>9, <3>3 DEF Marked
    <3> QED
      BY <3>1, <3>2, <3>3
  <2>10. ASSUME NEW g \in ToSet(links') PROVE Followed(ptr[g])' \/ g \in ToSet(todo')
    <3>1. CASE g = h
      BY <2>1, <2>3, <3>1, <1>1 DEF o, Followed
    <3>2. CASE g # h
      <4>1. Followed(ptr[g]) \/ g \in ToSet(todo)
        BY <2>10, <1>1 DEF Progress
      <4>2. ptr[g] \in Objects \cup {Nil}
        BY <2>10, <1>1, RootsReach
      <4> QED
        BY <3>2, <4>1, <4>2, <2>8, <1>1, <1>2 DEF Followed
    <3> QED
      BY <3>1, <3>2
  <2> QED
    BY <1>1, <1>3, <1>4, <1>5, <2>6, <2>7, <2>9, <2>10 DEF Progress
<1> QED
  BY <1>6, <1>7

\* An object of the queue is followed.
LEMMA MarkOneProgress ==
  ASSUME GcAssumption, Inv, ~Dangling, NEW t \in Threads, MarkOne(t), Progress(t)
  PROVE  Progress(t)'
<1> DEFINE p == Head(pending)
           c == next[p]
<1>a. /\ tags \in [Objects -> {"FLAG", "MARK"}] /\ pending \in Seq(Objects)
      /\ next \in [Objects -> Objects \cup {Nil}] /\ Nil \notin Objects
  BY DEF Inv, Types, TypeOK, GcAssumption
<1>1. pending # <<>> /\ UNCHANGED <<list, next, ptr, links, at, todo>>
  BY DEF MarkOne
<1>2. /\ p \in Objects /\ Tail(pending) \in Seq(Objects)
      /\ ToSet(pending) = {p} \cup ToSet(Tail(pending))
  BY <1>1, <1>a, TailSet
<1>3. Reachable' = Reachable
  BY <1>1, SameReach
<1>4. p \in Reachable /\ (c = Nil \/ (c \in Objects /\ c \in Reachable))
  <2>1. p \in Reachable
    BY <1>2 DEF Progress
  <2> QED
    BY <2>1, RootsReach
<1> DEFINE add == c # Nil /\ tags[c] # "MARK"
<1>5. /\ add => tags' = [tags EXCEPT ![c] = "MARK"] /\ pending' = Append(Tail(pending), c)
      /\ ~add => tags' = tags /\ pending' = Tail(pending)
  BY DEF MarkOne, Unmarked
<1>6. \A x \in Objects : Marked(x)' <=> Marked(x) \/ (c # Nil /\ x = c)
  BY <1>4, <1>5, <1>a DEF Marked
<1>7. ToSet(pending') = ToSet(Tail(pending)) \cup (IF add THEN {c} ELSE {})
  <2> DEFINE q == Tail(pending)
  <2> HIDE DEF c, q
  <2>1. q \in Seq(Objects)
    BY <1>2 DEF q
  <2>2. c \in Objects => ToSet(Append(q, c)) = ToSet(q) \cup {c}
    BY <2>1, AppendSet
  <2> QED
    BY <1>4, <1>5, <2>2 DEF q
<1>8. ToSet(pending) \subseteq Objects
  BY <1>a, ElementsOf
<1> HIDE DEF p, c
<1>9. \A x \in Objects : Marked(x)' => x \in Reachable
  BY <1>4, <1>6 DEF Progress
<1>10. \A x \in ToSet(pending') : Marked(x)'
  BY <1>2, <1>4, <1>6, <1>7, <1>8 DEF Progress
<1>11. \A x \in Objects \cup {Nil} : Followed(x) => Followed(x)'
  BY <1>6 DEF Followed
<1>12. ASSUME NEW x \in Objects, Marked(x)'
       PROVE  Followed(next[x])' \/ x \in ToSet(pending')
  <2>1. CASE x = p
    BY <1>4, <1>6, <2>1, <1>1 DEF c, Followed
  <2>2. CASE Marked(x) /\ x # p
    <3>1. Followed(next[x]) \/ x \in ToSet(pending)
      BY <2>2 DEF Progress
    <3> QED
      BY <2>2, <3>1, <1>1, <1>2, <1>7, <1>11, <1>a DEF Followed
  <2>3. CASE ~Marked(x)
    BY <1>6, <1>7, <1>12, <2>3 DEF Marked
  <2> QED
    BY <2>1, <2>2, <2>3
<1>13. ASSUME NEW g \in ToSet(links') PROVE Followed(ptr[g])' \/ g \in ToSet(todo')
  <2>1. Followed(ptr[g]) \/ g \in ToSet(todo)
    BY <1>13, <1>1 DEF Progress
  <2>2. ptr[g] \in Objects \cup {Nil}
    BY <1>13, <1>1, RootsReach
  <2> QED
    BY <2>1, <2>2, <1>1, <1>11 DEF Followed
<1>14. ToSet(todo') \subseteq ToSet(links') /\ ((at[t] = "mark")' => todo' = <<>>)
  BY <1>1 DEF Progress
<1> QED
  BY <1>1, <1>3, <1>9, <1>10, <1>12, <1>13, <1>14 DEF Progress

\* No step of the collection forgets a pointer that is still to be followed, and a step of
\* anybody else is seen in moved.
LEMMA ScanKept ==
  ASSUME GcAssumption, Inv, ~Dangling, NEW t \in Threads, Step(t)
  PROVE  ScanInv'
<1>a. at \in [Threads -> Places]
  BY DEF Inv, Types
<1>b. \A u \in Threads : at[u] # "run" => mutex = u
  BY DEF Inv, LockInv
<1>1. ASSUME NEW h \in Handles[t], Construct(t, h) \/ Destruct(t, h) \/ NewLock(t, h)
      PROVE ScanInv'
  <2>1. \A u \in Threads : at[u] \notin {"roots", "mark"}
    BY <1>1, NobodyCollects DEF Construct, Destruct, NewLock, Running, Unlocked
  <2>2. at' = at \/ at' = [at EXCEPT ![t] = "new"]
    BY <1>1 DEF Construct, Destruct, NewLock, Go
  <2> QED
    BY <2>1, <2>2, <1>a, NobodyScans
<1>2. ASSUME NEW h \in Handles[t], Assign(t, h) \/ Store(t, h) PROVE ScanInv'
  <2>1. at' = at /\ moved' = (moved \/ Collecting)
    BY <1>2 DEF Assign, Store, Moves
  <2> QED
    BY <2>1 DEF ScanInv, Collecting
<1>3. CASE \/ NewCollect(t) \/ CtorCollect(t) \/ \E force \in BOOLEAN : Collect(t, force)
  <2>1. PICK force \in BOOLEAN : Begin(t, force, "roots")
    BY <1>3 DEF NewCollect, CtorCollect, Collect
  <2>2. mutex \in {None, t} /\ UNCHANGED <<list, links>>
    BY <1>3, <1>b DEF NewCollect, CtorCollect, Collect
  <2> QED
    BY <2>1, <2>2, ScanBegins
<1>4. CASE NewDone(t) \/ NewThrows(t) \/ CtorNew(t)
  <2>1. at[t] \in {"new", "built", "ctor2"} /\ mutex = t
    BY <1>4, <1>b DEF NewDone, NewThrows, CtorNew
  <2>2. \A u \in Threads : at[u] \notin {"roots", "mark"}
    BY <2>1, NobodyCollects
  <2>3. PICK l \in {"run", "ctor2"} : at' = [at EXCEPT ![t] = l]
    BY <1>4 DEF NewDone, NewThrows, CtorNew, Go
  <2> QED
    BY <2>2, <2>3, <1>a, NobodyScans
<1>5. CASE ScanRoot(t)
  <2>1. at[t] \in {"roots", "mark"} /\ at' = at /\ moved' = moved
    BY <1>5 DEF ScanRoot
  <2> QED
    BY <1>5, <2>1, ScanRootProgress, OnlyThisScans
<1>6. CASE MarkOne(t)
  <2>1. at[t] \in {"roots", "mark"} /\ at' = at /\ moved' = moved
    BY <1>6 DEF MarkOne
  <2> QED
    BY <1>6, <2>1, MarkOneProgress, OnlyThisScans
<1>7. CASE ScanEnds(t)
  <2>1. /\ at[t] = "roots" /\ todo = <<>> /\ at' = [at EXCEPT ![t] = "mark"]
        /\ UNCHANGED <<list, next, tags, ptr, links, pending, todo, moved>>
    BY <1>7 DEF ScanEnds, Go, heap
  <2>2. Reachable' = Reachable
    BY <2>1, SameReach
  <2>3. Progress(t) => Progress(t)'
    BY <2>1, <2>2 DEF Progress, Marked, Followed
  <2> QED
    BY <2>1, <2>3, OnlyThisScans
<1>8. CASE Sweep(t) \/ MarkFails(t) \/ ScanFails(t)
  <2>1. mutex = t /\ (at'[t] \notin {"roots", "mark"}) /\ \A u \in Threads : u # t => at'[u] = at[u]
    BY <1>8, <1>a, <1>b, ReturnsTo DEF Sweep, MarkFails, ScanFails, Go
  <2>2. \A u \in Threads : at'[u] \notin {"roots", "mark"}
    BY <2>1, <1>b
  <2> QED
    BY <2>2, NobodyScans
<1> QED
  BY <1>1, <1>2, <1>3, <1>4, <1>5, <1>6, <1>7, <1>8 DEF Step

-----------------------------------------------------------------------------
(* The results *)

LEMMA InvNext == ASSUME GcAssumption PROVE Inv /\ [Next]_vars => Inv'
<1> SUFFICES ASSUME Inv, [Next]_vars PROVE Inv'
  OBVIOUS
<1>1. CASE UNCHANGED vars
  <2>1. Types' /\ NewInv' /\ LockInv' /\ MarksInv' /\ QueueInv'
    BY <1>1 DEF vars, Inv, Types, TypeOK, NewInv, LockInv, MarksInv, Marked, QueueInv
  <2>2. Reachable' = Reachable
    BY <1>1, SameReach DEF vars
  <2>3. ScanInv'
    BY <1>1, <2>2 DEF vars, Inv, ScanInv, Progress, Marked, Followed
  <2> QED
    BY <2>1, <2>3 DEF Inv
<1>2. ASSUME ~Dangling, NEW t \in Threads, Step(t) PROVE Inv'
  <2>1. Types'
    BY <1>2, ClientTypes, NewTypes, ScanTypes DEF Step
  <2> QED
    BY <1>2, <2>1, LockKept, MarksKept, QueueKept, ScanKept DEF Inv
<1> QED
  BY <1>1, <1>2 DEF Next

\* The fields keep their types.
THEOREM GcTypes == ASSUME GcAssumption PROVE Spec => []TypeOK
<1>1. Inv => TypeOK
  BY DEF Inv, Types
<1> QED
  BY <1>1, InvInit, InvNext, PTL DEF Spec

\* A collection that nobody disturbs keeps what the roots reach and destroys all else.
THEOREM CollectsExactly == ASSUME GcAssumption PROVE Spec => KeepsExactlyReachable
<1>1. Inv => Keeps
  BY SweepIsExact
<1> QED
  BY <1>1, InvInit, InvNext, PTL DEF Spec, KeepsExactlyReachable

-----------------------------------------------------------------------------
(* Coroutine: the invariant *)

\* spawn() tests the stack and sets it up without a lock: one thread calls it.
OneSpawnerEach ==
  \A c \in Routines : \A t, u \in Threads : t \in Spawner[c] /\ u \in Spawner[c] => t = u

RoutinesAssumed == Routine!CoroutineAssumption /\ OneSpawnerEach

Saved == {"fresh", "yielded", "ended"}

\* What a thread may get to, and the coroutine that it is leaving.
Reaching(t) == Routines \cup {Routine!Main(t)}
Left(t) == IF m_pLastRoutine[t] # Nil THEN m_pLastRoutine[t] ELSE m_pVoidRoutine[t]

\* The coroutines whose state RUNNING is a thread's doing.
Claimed(t, c) ==
  \/ c = on[t]
  \/ pc[t] = "swap" /\ c = callee[t]
  \/ pc[t] = "phase2" /\ c = Left(t)

\* Where a thread is, and what the stacks and states of its coroutines are there.
PlaceInv ==
  \A t \in Threads :
    /\ on[t] \in Reaching(t) /\ m_pLastRoutine[t] \in Reaching(t) \cup {Nil}
    /\ stack[on[t]] = "running" /\ m_nState[on[t]] = "RUNNING"
    /\ callee[t] # Nil <=> pc[t] = "swap"
    /\ pc[t] \notin {"swap", "phase2"} => m_pVoidRoutine[t] = Nil /\ m_pThisRoutine[t] = on[t]
    /\ m_pLastRoutine[t] # Nil => m_pVoidRoutine[t] = Nil
    /\ pc[t] = "swap" => /\ callee[t] \in Reaching(t) /\ callee[t] # on[t] /\ Left(t) = on[t]
                         /\ m_nState[callee[t]] = "RUNNING" /\ stack[callee[t]] \in Saved
    /\ pc[t] = "phase2" => /\ Left(t) # Nil /\ Left(t) # on[t] /\ m_nState[Left(t)] = "RUNNING"
                           /\ stack[Left(t)] = IF m_pLastRoutine[t] # Nil THEN "yielded" ELSE "ended"

\* A coroutine is claimed by one thread, and RUNNING only if it is claimed.
ClaimInv ==
  /\ \A t, u \in Threads : \A c \in Routine!Coroutines : Claimed(t, c) /\ Claimed(u, c) => t = u
  /\ \A c \in Routine!Coroutines : m_nState[c] = "RUNNING" => \E t \in Threads : Claimed(t, c)

\* The other states, and the stacks they stand for.
StoppedInv ==
  /\ \A c \in Routine!Coroutines : m_nState[c] = "PAUSED" => stack[c] \in Saved
  /\ \A c \in Routine!Coroutines : m_nState[c] = "STOPPED" => stack[c] \in {"none", "fresh", "ended"}
  /\ \A t \in Threads : m_nState[Routine!Main(t)] # "STOPPED"

\* spawn() on its way.
SpawnInv ==
  \A t \in Threads : pc[t] \in {"alloc", "spawn"} =>
    /\ spawning[t] \in Routines /\ t \in Spawner[spawning[t]]
    /\ pc[t] = "alloc" <=> stack[spawning[t]] = "none"

RoutineInv == Routine!TypeOK /\ PlaceInv /\ ClaimInv /\ StoppedInv /\ SpawnInv

\* The names of the coroutines are different.
LEMMA RoutineNames ==
  ASSUME RoutinesAssumed
  PROVE  /\ \A t \in Threads : /\ Routine!Main(t) \in Routine!Coroutines
                               /\ Routine!Main(t) \notin Routines
         /\ \A t, u \in Threads : Routine!Main(t) = Routine!Main(u) => t = u
         /\ \A t \in Threads : Reaching(t) \subseteq Routine!Coroutines
         /\ Nil \notin Routine!Coroutines /\ Routines \subseteq Routine!Coroutines /\ Nil \in Extras
  BY DEF RoutinesAssumed, Routine!CoroutineAssumption, Routine!Coroutines, Routine!Mains,
       Routine!Main, Reaching

\* Each thread begins on its main coroutine.
LEMMA RoutineInit == ASSUME RoutinesAssumed PROVE Routine!Init => RoutineInv
<1> SUFFICES ASSUME Routine!Init PROVE RoutineInv
  OBVIOUS
<1>1. \A c \in Routine!Coroutines \ Routine!Mains : c \in Routines
  BY DEF Routine!Coroutines
<1>2. \A t \in Threads : Routine!Main(t) \in Routine!Mains
  BY DEF Routine!Mains
<1>3. Routine!TypeOK
  BY RoutineNames, <1>1, <1>2 DEF Routine!Init, Routine!TypeOK
<1>4. PlaceInv
  BY RoutineNames, <1>2 DEF Routine!Init, PlaceInv, Reaching
<1>5. ClaimInv
  BY RoutineNames, <1>2 DEF Routine!Init, ClaimInv, Claimed, Routine!Mains
<1>6. StoppedInv /\ SpawnInv
  BY RoutineNames, <1>2 DEF Routine!Init, StoppedInv, SpawnInv, Saved
<1> QED
  BY <1>3, <1>4, <1>5, <1>6 DEF RoutineInv

\* A coroutine that is not RUNNING is nobody's.
LEMMA Unclaimed ==
  ASSUME RoutinesAssumed, RoutineInv, NEW c \in Routine!Coroutines, NEW t \in Threads, Claimed(t, c)
  PROVE  m_nState[c] = "RUNNING" /\ stack[c] # "none" /\ c \in Reaching(t)
  BY RoutineNames DEF RoutineInv, Routine!TypeOK, PlaceInv, Claimed, Left, Saved, Reaching

\* spawn() changes the stack and the state of a coroutine that is nobody's.
LEMMA SpawnKeeps ==
  ASSUME RoutinesAssumed, RoutineInv, NEW t \in Threads,
         \/ (\E c \in Routines : Routine!SpawnInit(t, c)) \/ Routine!SpawnFails(t)
         \/ Routine!SpawnAlloc(t) \/ Routine!SpawnCas(t)
  PROVE  RoutineInv'
<1>1. /\ UNCHANGED <<Routine!comain, on, callee, extra, sent>>
      /\ pc[t] \in {"run", "alloc", "spawn"} /\ pc'[t] \in {"run", "alloc", "spawn"}
      /\ \A u \in Threads \ {t} : pc'[u] = pc[u] /\ spawning'[u] = spawning[u]
  BY DEF Routine!SpawnInit, Routine!SpawnFails, Routine!SpawnAlloc, Routine!SpawnCas,
       Routine!Goto, Routine!state, RoutineInv, Routine!TypeOK
<1>2. \A u \in Threads, c \in Routine!Coroutines : Claimed(u, c)' <=> Claimed(u, c)
  BY <1>1 DEF Claimed, Left, Routine!comain
<1>3. Routine!TypeOK'
  BY RoutineNames DEF Routine!SpawnInit, Routine!SpawnFails, Routine!SpawnAlloc, Routine!SpawnCas,
       Routine!Goto, Routine!state, Routine!comain, RoutineInv, Routine!TypeOK, SpawnInv
<1>4. \A c \in Routine!Coroutines :
      /\ stack[c] # "none" => stack'[c] = stack[c]
      /\ stack[c] = "none" => stack'[c] \in {"none", "fresh"}
      /\ m_nState[c] # "STOPPED" => m_nState'[c] = m_nState[c]
      /\ m_nState'[c] \in {m_nState[c], "PAUSED"}
      /\ m_nState'[c] # m_nState[c] => stack[c] # "none"
  BY RoutineNames DEF Routine!SpawnInit, Routine!SpawnFails, Routine!SpawnAlloc, Routine!SpawnCas,
       Routine!Goto, Routine!state, RoutineInv, Routine!TypeOK, SpawnInv
<1>5. PlaceInv'
  BY <1>1, <1>4, RoutineNames DEF Routine!comain, RoutineInv, Routine!TypeOK, PlaceInv, Left,
       Saved, Reaching
<1>6. ClaimInv'
  BY <1>2, <1>4 DEF RoutineInv, ClaimInv
<1>7. StoppedInv'
  BY <1>4, RoutineNames DEF RoutineInv, Routine!TypeOK, StoppedInv, Saved
<1>8. SpawnInv'
  <2> SUFFICES ASSUME NEW u \in Threads, pc'[u] \in {"alloc", "spawn"}
               PROVE /\ spawning'[u] \in Routines /\ u \in Spawner[spawning'[u]]
                     /\ pc'[u] = "alloc" <=> stack'[spawning'[u]] = "none"
    BY DEF SpawnInv
  <2>1. CASE u = t
    BY <2>1, RoutineNames DEF Routine!SpawnInit, Routine!SpawnFails, Routine!SpawnAlloc,
         Routine!SpawnCas, Routine!Goto, Routine!NeedsStack, RoutineInv, Routine!TypeOK, SpawnInv
  <2>2. CASE u # t
    <3>1. stack'[spawning[u]] = stack[spawning[u]]
      BY <1>1, <2>2, RoutineNames DEF Routine!SpawnInit, Routine!SpawnFails, Routine!SpawnAlloc,
           Routine!SpawnCas, RoutineInv, Routine!TypeOK, SpawnInv,
                               RoutinesAssumed, OneSpawnerEach
    <3> QED
      BY <1>1, <2>2, <3>1 DEF RoutineInv, SpawnInv
  <2> QED
    BY <2>1, <2>2
<1> QED
  BY <1>3, <1>5, <1>6, <1>7, <1>8 DEF RoutineInv

\* A yield and a return of svc() claim a paused coroutine.
LEMMA YieldKeeps ==
  ASSUME RoutinesAssumed, RoutineInv, NEW t \in Threads,
         (\E c \in Routine!Targets(t), x \in Extras : Routine!Yield(t, c, x)) \/ Routine!SvcReturns(t)
  PROVE  RoutineInv'
<1>1. PICK c \in Reaching(t) :
        /\ pc[t] = "run" /\ m_nState[c] = "PAUSED" /\ c # on[t] /\ c # Nil
        /\ pc' = [pc EXCEPT ![t] = "swap"] /\ callee' = [callee EXCEPT ![t] = c]
        /\ m_nState' = [m_nState EXCEPT ![c] = "RUNNING"]
        /\ \/ m_pLastRoutine' = [m_pLastRoutine EXCEPT ![t] = on[t]] /\ UNCHANGED m_pVoidRoutine
           \/ /\ m_pLastRoutine' = [m_pLastRoutine EXCEPT ![t] = Nil] /\ on[t] # Routine!Main(t)
              /\ m_pVoidRoutine' = [m_pVoidRoutine EXCEPT ![t] = on[t]]
        /\ UNCHANGED <<stack, m_pThisRoutine, on, spawning>>
  <2>1. CASE Routine!SvcReturns(t)
    BY <2>1, RoutineNames DEF Routine!SvcReturns, Routine!Takes, Routine!Goto, Reaching,
         RoutineInv, PlaceInv
  <2>2. ASSUME NEW c \in Routine!Targets(t), NEW x \in Extras, Routine!Yield(t, c, x)
        PROVE  c \in Reaching(t) /\ c # Nil
    BY <2>2, RoutineNames DEF Routine!Targets, Reaching, RoutineInv, PlaceInv
  <2> QED
    BY <2>1, <2>2 DEF Routine!Yield, Routine!Takes, Routine!Goto
<1>2. c \in Routine!Coroutines /\ on[t] \in Routine!Coroutines /\ on[t] \in Reaching(t)
  BY <1>1, RoutineNames DEF RoutineInv, PlaceInv
<1>3. Routine!TypeOK'
  <2>1. extra' \in [Routine!Coroutines -> Extras] /\ sent' \in [Threads -> Extras]
    BY <1>2, RoutineNames DEF Routine!Yield, Routine!SvcReturns, Routine!PassExtra, RoutineInv,
         Routine!TypeOK
  <2> QED
    BY <1>1, <1>2, <2>1, RoutineNames DEF RoutineInv, Routine!TypeOK, Reaching
<1>4. \A u \in Threads : ~Claimed(u, c)
  BY <1>1, <1>2, Unclaimed
<1>5. \A u \in Threads, d \in Routine!Coroutines : Claimed(u, d)' <=> Claimed(u, d) \/ (u = t /\ d = c)
  BY <1>1, <1>2 DEF Claimed, Left, RoutineInv, Routine!TypeOK
<1>6. PlaceInv'
  <2> SUFFICES ASSUME NEW u \in Threads
               PROVE  PlaceInv!(u)'
    BY DEF PlaceInv
  <2>1. CASE u = t
    BY <1>1, <1>2, <2>1, RoutineNames DEF PlaceInv, StoppedInv, Left, RoutineInv, Routine!TypeOK,
         Reaching
  <2>2. CASE u # t
    BY <1>1, <1>2, <2>2, RoutineNames DEF PlaceInv, Left, RoutineInv, Routine!TypeOK, Reaching
  <2> QED
    BY <2>1, <2>2
<1>7. ClaimInv'
  BY <1>1, <1>2, <1>4, <1>5 DEF RoutineInv, ClaimInv, Routine!TypeOK
<1>8. StoppedInv' /\ SpawnInv'
  BY <1>1, <1>2, RoutineNames DEF RoutineInv, Routine!TypeOK, StoppedInv, SpawnInv
<1> QED
  BY <1>3, <1>6, <1>7, <1>8 DEF RoutineInv

\* A swap saves the stack that it leaves, and claims nothing new.
LEMMA SwapKeeps ==
  ASSUME RoutinesAssumed, RoutineInv, NEW t \in Threads, Routine!Swap(t)
  PROVE  RoutineInv'
<1> DEFINE from == on[t]
           to == callee[t]
<1>1. /\ pc[t] = "swap" /\ from # to /\ Left(t) = from /\ to # Nil
      /\ from \in Routine!Coroutines /\ to \in Routine!Coroutines /\ to \in Reaching(t)
      /\ m_nState[from] = "RUNNING" /\ m_nState[to] = "RUNNING"
  BY RoutineNames DEF Routine!Swap, RoutineInv, PlaceInv
<1>2. /\ on' = [on EXCEPT ![t] = to] /\ callee' = [callee EXCEPT ![t] = Nil]
      /\ pc' = [pc EXCEPT ![t] = "phase2"]
      /\ UNCHANGED <<m_nState, extra, m_pThisRoutine, m_pLastRoutine, m_pVoidRoutine, spawning, sent>>
      /\ stack' = [stack EXCEPT ![from] = IF m_pVoidRoutine[t] = from THEN "ended" ELSE "yielded",
                                ![to] = "running"]
  BY DEF Routine!Swap, Routine!Goto, Routine!state, Routine!comain
<1>3. stack'[to] = "running" /\ stack'[from] = IF m_pLastRoutine[t] # Nil THEN "yielded" ELSE "ended"
  BY <1>1, <1>2, RoutineNames DEF RoutineInv, Routine!TypeOK, PlaceInv, Left
<1>4. \A c \in Routine!Coroutines \ {from, to} : stack'[c] = stack[c]
  BY <1>1, <1>2 DEF RoutineInv, Routine!TypeOK
<1>5. Routine!TypeOK'
  BY <1>1, <1>2 DEF RoutineInv, Routine!TypeOK
<1>6. \A u \in Threads, d \in Routine!Coroutines : Claimed(u, d)' <=> Claimed(u, d)
  BY <1>1, <1>2 DEF Claimed, Left, RoutineInv, Routine!TypeOK
<1>7. Claimed(t, from) /\ Claimed(t, to)
  BY <1>1 DEF Claimed
<1>8. PlaceInv'
  <2> SUFFICES ASSUME NEW u \in Threads
               PROVE  PlaceInv!(u)'
    BY DEF PlaceInv
  <2>1. CASE u = t
    <3>1. Left(t)' = from
      BY <1>1, <1>2 DEF Left
    <3>2. on'[t] = to /\ pc'[t] = "phase2" /\ callee'[t] = Nil
      BY <1>2 DEF RoutineInv, Routine!TypeOK
    <3> QED
      BY <1>1, <1>2, <1>3, <2>1, <3>1, <3>2, RoutineNames DEF PlaceInv, RoutineInv
  <2>2. CASE u # t
    <3>1. \A d \in Routine!Coroutines : Claimed(u, d) => d \notin {from, to}
      BY <1>1, <1>7, <2>2 DEF RoutineInv, ClaimInv
    <3>2. \A d \in Routine!Coroutines : Claimed(u, d) => stack'[d] = stack[d]
      BY <1>4, <3>1
    <3>3. /\ on'[u] = on[u] /\ callee'[u] = callee[u] /\ pc'[u] = pc[u] /\ Left(u)' = Left(u)
          /\ m_pLastRoutine'[u] = m_pLastRoutine[u] /\ m_pVoidRoutine'[u] = m_pVoidRoutine[u]
          /\ m_pThisRoutine'[u] = m_pThisRoutine[u] /\ m_nState' = m_nState
      BY <1>2, <2>2 DEF RoutineInv, Routine!TypeOK, Left
    <3>4. on[u] \in Routine!Coroutines /\ stack'[on[u]] = stack[on[u]]
      BY <3>2 DEF Claimed, RoutineInv, Routine!TypeOK
    <3>5. pc[u] = "swap" => stack'[callee[u]] = stack[callee[u]]
      BY <3>2, RoutineNames DEF Claimed, RoutineInv, PlaceInv
    <3>6. pc[u] = "phase2" => stack'[Left(u)] = stack[Left(u)]
      BY <3>2, RoutineNames DEF Claimed, Left, RoutineInv, Routine!TypeOK, PlaceInv
    <3> QED
      BY <3>3, <3>4, <3>5, <3>6 DEF PlaceInv, RoutineInv
  <2> QED
    BY <2>1, <2>2
<1>9. ClaimInv'
  BY <1>2, <1>6 DEF RoutineInv, ClaimInv
<1>10. StoppedInv'
  BY <1>1, <1>2, <1>4 DEF RoutineInv, StoppedInv
<1>11. SpawnInv'
  <2>1. stack[from] # "none" /\ stack[to] # "none" /\ stack'[from] # "none" /\ stack'[to] # "none"
    BY <1>1, <1>3, <1>7, Unclaimed
  <2>2. \A c \in Routine!Coroutines : stack'[c] = "none" <=> stack[c] = "none"
    BY <1>4, <2>1
  <2> QED
    BY <1>1, <1>2, <2>2, RoutineNames DEF RoutineInv, Routine!TypeOK, SpawnInv
<1> QED
  BY <1>5, <1>8, <1>9, <1>10, <1>11 DEF RoutineInv

\* The second phase gives up the coroutine that was left.
LEMMA Phase2Keeps ==
  ASSUME RoutinesAssumed, RoutineInv, NEW t \in Threads, Routine!Phase2(t)
  PROVE  RoutineInv'
<1> DEFINE c == Left(t)
           s == IF m_pLastRoutine[t] # Nil THEN "PAUSED" ELSE "STOPPED"
<1>1. /\ pc[t] = "phase2" /\ c # Nil /\ c # on[t] /\ m_nState[c] = "RUNNING" /\ c \in Routine!Coroutines
      /\ stack[c] = IF m_pLastRoutine[t] # Nil THEN "yielded" ELSE "ended"
      /\ m_pLastRoutine[t] = Nil => c \in Routines
  BY RoutineNames DEF Routine!Phase2, RoutineInv, PlaceInv, Left, Routine!TypeOK
<1>2. /\ m_nState' = [m_nState EXCEPT ![c] = s] /\ pc' = [pc EXCEPT ![t] = "run"]
      /\ m_pThisRoutine' = [m_pThisRoutine EXCEPT ![t] = on[t]]
      /\ UNCHANGED <<extra, stack, m_pLastRoutine, on, callee, spawning, sent>>
  BY <1>1 DEF Routine!Phase2, Routine!Goto, Routine!Enters, Left
<1>3. m_pVoidRoutine'[t] = Nil /\ m_pVoidRoutine' \in [Threads -> Routines \cup {Nil}]
      /\ \A u \in Threads \ {t} : m_pVoidRoutine'[u] = m_pVoidRoutine[u]
  BY <1>1 DEF Routine!Phase2, Routine!VoidCleared, Left, RoutineInv, Routine!TypeOK, PlaceInv
<1>4. Routine!TypeOK'
  BY <1>1, <1>2, <1>3 DEF RoutineInv, Routine!TypeOK
<1>5. Claimed(t, c)
  BY <1>1 DEF Claimed
<1>6. \A u \in Threads, d \in Routine!Coroutines : Claimed(u, d)' <=> Claimed(u, d) /\ d # c
  <2> SUFFICES ASSUME NEW u \in Threads, NEW d \in Routine!Coroutines
               PROVE  Claimed(u, d)' <=> Claimed(u, d) /\ d # c
    OBVIOUS
  <2>1. CASE u = t
    BY <1>1, <1>2, <2>1 DEF Claimed, RoutineInv, Routine!TypeOK
  <2>2. CASE u # t
    <3>1. ~Claimed(u, c)
      BY <1>1, <1>5, <2>2 DEF RoutineInv, ClaimInv
    <3>2. Claimed(u, d)' <=> Claimed(u, d)
      BY <1>2, <1>3, <2>2 DEF Claimed, Left, RoutineInv, Routine!TypeOK
    <3> QED
      BY <3>1, <3>2
  <2> QED
    BY <2>1, <2>2
<1>7. \A d \in Routine!Coroutines : d # c => m_nState'[d] = m_nState[d]
  BY <1>2 DEF RoutineInv, Routine!TypeOK
<1>8. m_nState'[c] = s
  BY <1>1, <1>2 DEF RoutineInv, Routine!TypeOK
<1>9. PlaceInv'
  <2> SUFFICES ASSUME NEW u \in Threads
               PROVE  PlaceInv!(u)'
    BY DEF PlaceInv
  <2>1. CASE u = t
    <3>1. m_nState'[on[t]] = m_nState[on[t]]
      BY <1>1, <1>7 DEF RoutineInv, Routine!TypeOK
    <3> QED
      BY <1>1, <1>2, <1>3, <2>1, <3>1 DEF PlaceInv, RoutineInv, Routine!TypeOK
  <2>2. CASE u # t
    <3>1. \A d \in Routine!Coroutines : Claimed(u, d) => m_nState'[d] = m_nState[d]
      BY <1>1, <1>5, <1>7, <2>2 DEF RoutineInv, ClaimInv
    <3>2. /\ on'[u] = on[u] /\ callee'[u] = callee[u] /\ pc'[u] = pc[u] /\ Left(u)' = Left(u)
          /\ m_pLastRoutine'[u] = m_pLastRoutine[u] /\ m_pVoidRoutine'[u] = m_pVoidRoutine[u]
          /\ m_pThisRoutine'[u] = m_pThisRoutine[u] /\ stack' = stack
      BY <1>2, <1>3, <2>2 DEF RoutineInv, Routine!TypeOK, Left
    <3>3. m_nState'[on[u]] = m_nState[on[u]]
      BY <3>1 DEF Claimed, RoutineInv, Routine!TypeOK
    <3>4. pc[u] = "swap" => m_nState'[callee[u]] = m_nState[callee[u]]
      BY <3>1, RoutineNames DEF Claimed, RoutineInv, PlaceInv
    <3>5. pc[u] = "phase2" => m_nState'[Left(u)] = m_nState[Left(u)]
      BY <3>1, RoutineNames DEF Claimed, Left, RoutineInv, Routine!TypeOK, PlaceInv
    <3> QED
      BY <3>2, <3>3, <3>4, <3>5 DEF PlaceInv, RoutineInv
  <2> QED
    BY <2>1, <2>2
<1>10. ClaimInv'
  BY <1>6, <1>7, <1>8 DEF RoutineInv, ClaimInv
<1>11. StoppedInv'
  BY <1>1, <1>2, <1>7, <1>8, RoutineNames DEF RoutineInv, StoppedInv, Saved
<1>12. SpawnInv'
  BY <1>1, <1>2 DEF RoutineInv, Routine!TypeOK, SpawnInv
<1> QED
  BY <1>4, <1>9, <1>10, <1>11, <1>12 DEF RoutineInv

\* A step is a step of one thread.
LEMMA StepOfThread ==
  ASSUME Routine!Next
  PROVE  \E t \in Threads :
           \/ (\E c \in Routines : Routine!SpawnInit(t, c)) \/ Routine!SpawnFails(t)
           \/ Routine!SpawnAlloc(t) \/ Routine!SpawnCas(t)
           \/ (\E c \in Routine!Targets(t), x \in Extras : Routine!Yield(t, c, x)) \/ Routine!SvcReturns(t)
           \/ Routine!Swap(t) \/ Routine!Phase2(t)
  BY DEF Routine!Next

\* Every step keeps the invariant.
LEMMA RoutineNext ==
  ASSUME RoutinesAssumed
  PROVE  RoutineInv /\ [Routine!Next]_(Routine!vars) => RoutineInv'
<1> SUFFICES ASSUME RoutineInv, [Routine!Next]_(Routine!vars) PROVE RoutineInv'
  OBVIOUS
<1>1. CASE UNCHANGED Routine!vars
  BY <1>1 DEF Routine!vars, Routine!state, Routine!comain, RoutineInv, Routine!TypeOK, PlaceInv,
       ClaimInv, Claimed, Left, StoppedInv, SpawnInv
<1>2. CASE Routine!Next
  BY <1>2, StepOfThread, SpawnKeeps, YieldKeeps, SwapKeeps, Phase2Keeps
<1> QED
  BY <1>1, <1>2

-----------------------------------------------------------------------------
(* What is passed along *)

\* What a thread's last yield has passed is with the coroutine it goes to, or is on.
ExtraInv ==
  \A t \in Threads : IF pc[t] = "swap" THEN extra[callee[t]] = sent[t] ELSE extra[on[t]] = sent[t]

\* A yield gives the extra data to a coroutine that is nobody's.
LEMMA ExtraNext ==
  ASSUME RoutinesAssumed
  PROVE  RoutineInv /\ ExtraInv /\ [Routine!Next]_(Routine!vars) => ExtraInv'
<1> SUFFICES ASSUME RoutineInv, ExtraInv, [Routine!Next]_(Routine!vars) PROVE ExtraInv'
  OBVIOUS
<1>1. CASE UNCHANGED Routine!vars
  BY <1>1 DEF Routine!vars, Routine!state, Routine!comain, ExtraInv
<1>2. ASSUME NEW t \in Threads, NEW c, NEW x,
             \/ c \in Routine!Targets(t) /\ Routine!Yield(t, c, x)
             \/ Routine!SvcReturns(t) /\ c = Routine!Main(t) /\ x = Nil
      PROVE  ExtraInv'
  <2>1. /\ m_nState[c] = "PAUSED" /\ c \in Routine!Coroutines /\ pc' = [pc EXCEPT ![t] = "swap"]
        /\ callee' = [callee EXCEPT ![t] = c] /\ UNCHANGED on
        /\ extra' = [extra EXCEPT ![c] = x] /\ sent' = [sent EXCEPT ![t] = x]
    <3>1. c \in Routine!Coroutines
      BY <1>2, RoutineNames DEF Routine!Targets, RoutineInv, Routine!TypeOK
    <3> QED
      BY <1>2, <3>1 DEF Routine!Yield, Routine!SvcReturns, Routine!Takes, Routine!PassExtra,
           Routine!Goto
  <2>2. \A u \in Threads : on[u] # c /\ (pc[u] = "swap" => callee[u] # c)
    BY <2>1 DEF RoutineInv, PlaceInv
  <2> QED
    BY <2>1, <2>2, RoutineNames DEF RoutineInv, Routine!TypeOK, PlaceInv, ExtraInv
<1>3. ASSUME NEW t \in Threads,
             \/ (\E c \in Routines : Routine!SpawnInit(t, c)) \/ Routine!SpawnFails(t)
             \/ Routine!SpawnAlloc(t) \/ Routine!SpawnCas(t)
      PROVE  ExtraInv'
  BY <1>3 DEF Routine!SpawnInit, Routine!SpawnFails, Routine!SpawnAlloc, Routine!SpawnCas,
       Routine!Goto, Routine!state, RoutineInv, Routine!TypeOK, ExtraInv
<1>4. ASSUME NEW t \in Threads, Routine!Swap(t) \/ Routine!Phase2(t)
      PROVE  ExtraInv'
  BY <1>4 DEF Routine!Swap, Routine!Phase2, Routine!Goto, Routine!state, RoutineInv,
       Routine!TypeOK, ExtraInv
<1>5. CASE Routine!Next
  <2>1. ASSUME NEW t \in Threads, NEW c \in Routine!Targets(t), NEW x \in Extras, Routine!Yield(t, c, x)
        PROVE  ExtraInv'
    BY <1>2, <2>1
  <2>2. CASE \E t \in Threads : Routine!SvcReturns(t)
    BY <1>2, <2>2
  <2> QED
    BY <1>3, <1>4, <1>5, <2>1, <2>2, StepOfThread
<1> QED
  BY <1>1, <1>5

\* A step sets up a stack only where there is none.
LEMMA StackNext ==
  ASSUME RoutinesAssumed, RoutineInv, [Routine!Next]_(Routine!vars),
         NEW c \in Routine!Coroutines, stack[c] # "none"
  PROVE  stack'[c] # "fresh" \/ stack[c] = "fresh"
<1>1. ASSUME NEW t \in Threads, Routine!SpawnAlloc(t) PROVE stack'[c] = stack[c]
  <2>1. stack[spawning[t]] = "none" /\ spawning[t] \in Routines
    BY <1>1 DEF Routine!SpawnAlloc, RoutineInv, SpawnInv
  <2> QED
    BY <1>1, <2>1 DEF Routine!SpawnAlloc, RoutineInv, Routine!TypeOK
<1>2. \A t \in Threads : Routine!Swap(t) => stack'[c] \in {stack[c], "ended", "yielded", "running"}
  BY DEF Routine!Swap, RoutineInv, Routine!TypeOK
<1>3. CASE UNCHANGED stack
  BY <1>3
<1>4. CASE \E t \in Threads : Routine!SpawnAlloc(t) \/ Routine!Swap(t)
  BY <1>1, <1>2, <1>4
<1> QED
  BY <1>3, <1>4 DEF Routine!Next, Routine!vars, Routine!SpawnInit, Routine!SpawnFails,
       Routine!SpawnCas, Routine!Yield, Routine!SvcReturns, Routine!Phase2

-----------------------------------------------------------------------------
(* Theorems *)

\* The invariant holds of every behaviour.
LEMMA RoutinesHold == ASSUME RoutinesAssumed PROVE Routine!Spec => [](RoutineInv /\ ExtraInv)
<1>1. Routine!Init => RoutineInv /\ ExtraInv
  BY RoutineInit, RoutineNames DEF Routine!Init, ExtraInv, Routine!Main
<1>2. RoutineInv /\ ExtraInv /\ [Routine!Next]_(Routine!vars) => RoutineInv' /\ ExtraInv'
  BY RoutineNext, ExtraNext
<1> QED
  BY <1>1, <1>2, PTL DEF Routine!Spec

\* The fields and places of every coroutine and thread have their types.
THEOREM CoroutineTypes == ASSUME RoutinesAssumed PROVE Routine!Spec => []Routine!TypeOK
<1>1. RoutineInv => Routine!TypeOK
  BY DEF RoutineInv
<1> QED
  BY <1>1, RoutinesHold, PTL

\* No two threads are on, or on the way to, one stack (the compare-exchange of
\* _yield_phase1 and the release in _yield_phase2).
THEOREM StacksInUseOnce == ASSUME RoutinesAssumed PROVE Routine!Spec => []Routine!StackInUseOnce
<1>1. RoutineInv => Routine!StackInUseOnce
  <2> SUFFICES ASSUME RoutineInv, NEW t \in Threads, NEW u \in Threads, t # u
               PROVE /\ on[t] # on[u]
                     /\ callee[t] # Nil => callee[t] \notin {on[u], callee[u]}
    BY DEF Routine!StackInUseOnce
  <2>1. /\ on[t] \in Routine!Coroutines /\ on[u] \in Routine!Coroutines
        /\ callee[t] \in Routine!Coroutines \cup {Nil}
    BY DEF RoutineInv, Routine!TypeOK
  <2>2. \A c \in Routine!Coroutines : ~(Claimed(t, c) /\ Claimed(u, c))
    BY DEF RoutineInv, ClaimInv
  <2>3. \A v \in Threads : Claimed(v, on[v]) /\ (callee[v] # Nil => Claimed(v, callee[v]))
    BY DEF Claimed, RoutineInv, PlaceInv
  <2> QED
    BY <2>1, <2>2, <2>3
<1> QED
  BY <1>1, RoutinesHold, PTL

\* raw_coroutine_swap goes to a stack that _yield_phase2 of its last user has released.
THEOREM SavedBeforeSwap == ASSUME RoutinesAssumed PROVE Routine!Spec => []Routine!SwapsToSavedStack
<1>1. RoutineInv => Routine!SwapsToSavedStack
  BY DEF RoutineInv, PlaceInv, Routine!SwapsToSavedStack, Saved
<1> QED
  BY <1>1, RoutinesHold, PTL

\* m_nState says what a coroutine does.
THEOREM StatesOfCoroutines == ASSUME RoutinesAssumed PROVE Routine!Spec => []Routine!StatesAgree
<1>1. ASSUME RoutineInv PROVE Routine!StatesAgree
  <2>1. \A c \in Routine!Coroutines : m_nState[c] = "RUNNING" =>
          \E t \in Threads : c \in {on[t], callee[t], m_pLastRoutine[t], m_pVoidRoutine[t]}
    BY <1>1 DEF RoutineInv, ClaimInv, Claimed, Left
  <2> QED
    BY <1>1, <2>1 DEF Routine!StatesAgree, RoutineInv, PlaceInv, StoppedInv, Saved
<1> QED
  BY <1>1, RoutinesHold, PTL

\* The assertions of the two phases hold, and the main coroutine is there to return to.
THEOREM AssertsOfYield == ASSUME RoutinesAssumed PROVE Routine!Spec => []Routine!YieldAsserts
<1>1. ASSUME RoutineInv, NEW t \in Threads, pc[t] = "run", on[t] # Routine!Main(t)
      PROVE  m_nState[Routine!Main(t)] = "PAUSED"
  <2>1. \A u \in Threads : ~Claimed(u, Routine!Main(t))
    <3> SUFFICES ASSUME NEW u \in Threads, Claimed(u, Routine!Main(t)) PROVE FALSE
      OBVIOUS
    <3>1. Routine!Main(t) \in Reaching(u)
      BY RoutineNames, Unclaimed, <1>1
    <3>2. u = t
      BY <3>1, RoutineNames DEF Reaching
    <3> QED
      BY <1>1, <3>2 DEF Claimed
  <2>2. m_nState[Routine!Main(t)] # "RUNNING"
    BY <1>1, <2>1, RoutineNames DEF RoutineInv, ClaimInv
  <2> QED
    BY <1>1, <2>2, RoutineNames DEF RoutineInv, Routine!TypeOK, StoppedInv
<1>2. ASSUME RoutineInv PROVE Routine!YieldAsserts
  BY <1>1, <1>2 DEF Routine!YieldAsserts, RoutineInv, PlaceInv, Left
<1> QED
  BY <1>2, RoutinesHold, PTL

\* get_extra_data() of the coroutine that goes on is what the yield to it has passed.
THEOREM ExtraArrives == ASSUME RoutinesAssumed PROVE Routine!Spec => []Routine!ExtraDelivered
<1>1. ExtraInv => Routine!ExtraDelivered
  BY DEF ExtraInv, Routine!ExtraDelivered
<1> QED
  BY <1>1, RoutinesHold, PTL

\* A second spawn() leaves a stack that is in use as it is.
THEOREM StacksKept == ASSUME RoutinesAssumed PROVE Routine!Spec => Routine!StackKept
<1>1. RoutineInv /\ [Routine!Next]_(Routine!vars) =>
        [\A c \in Routine!Coroutines : stack[c] # "none" => stack'[c] # "fresh" \/ stack[c] = "fresh"]_(Routine!vars)
  <2> SUFFICES ASSUME RoutineInv, [Routine!Next]_(Routine!vars),
                      NEW c \in Routine!Coroutines, stack[c] # "none"
               PROVE  stack'[c] # "fresh" \/ stack[c] = "fresh"
    OBVIOUS
  <2> QED
    BY StackNext
<1> QED
  BY <1>1, RoutinesHold, PTL DEF Routine!Spec, Routine!StackKept
=============================================================================
