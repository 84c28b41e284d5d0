------------------------------ MODULE Pointers ------------------------------
(***************************************************************************)
(* Counted references: DataPtrT<T> to an ObjectData, which may hold such a *)
(* pointer itself (inc/vhwd/basic/pointer_detail.h, object.h), ObjectGroup *)
(* (object_data.cpp), and KO_Handle to a handle of the system (platform.h).*)
(*                                                                         *)
(* Every thread has its pointers, a group and a KO_Handle.  It reads what  *)
(* another thread has while that one is kept from changing it, and the     *)
(* pointers of objects by itself: the locks of a program without races.    *)
(* Counting up, counting down and storing a pointer are steps of their     *)
(* own.                                                                    *)
(*                                                                         *)
(* Left out are p = p->next by operator=, which reads p->next after the    *)
(* object p points to is gone, and KO_Handle::reset of a handle that is    *)
(* open, which takes the answer of DecUseCount the wrong way round.        *)
(***************************************************************************)
EXTENDS Integers, Sequences, SequencesExt, FiniteSets

CONSTANTS Threads,
          Slots,            \* of each thread: the names of its pointers
          Datas, Kernels,   \* the objects and the handles of the system there ever are
          Before,           \* sets of them that may have come and gone before
          Null, MaxGroup

VARIABLES counts,  \* m_refcount, m_nUseCount
          made, gone,
          ptr,     \* of a thread and a slot, of a thread and "ko", and of an object and "link"
          group,
          todo,    \* what is left of the thread's call
          reads    \* the thread whose pointers the call reads, or Null: those of objects

vars == <<counts, made, gone, ptr, group, todo, reads>>

Objects == Datas \cup Kernels
Pointers == (UNION {{t} \X (Slots[t] \cup {"ko"}) : t \in Threads}) \cup (Datas \X {"link"})

\* Threads, objects, handles and Null are different things, and "ko" is not one of the pointers.
PointersAssumption ==
  /\ Datas \cap Kernels = {} /\ Threads \cap Objects = {} /\ Null \notin Objects \cup Threads
  /\ Before \subseteq SUBSET Objects
  /\ \A t \in Threads : "ko" \notin Slots[t]

Inc(o) == IF o = Null THEN <<>> ELSE <<[op |-> "inc", o |-> o]>>
Dec(o) == IF o = Null THEN <<>> ELSE <<[op |-> "dec", o |-> o]>>
Store(p, o) == <<[op |-> "store", p |-> p, o |-> o]>>

\* Mutant: the old object is let go of before the new one is counted.
ReplacedDropsFirst(p, o) == Dec(ptr[p]) \o Inc(o) \o Store(p, o)

\* po_data::equal, po_data::reset, ObjectData::locked_reset
Replaced(p, o) == Inc(o) \o Dec(ptr[p]) \o Store(p, o)

\* KO_Handle::operator=: close() comes first.
Reopened(p, o) == Dec(ptr[p]) \o Store(p, o) \o Inc(o)

Idle(t) == todo[t] = <<>>
\* The thread may begin: nobody reads what it has.
Free(t) == Idle(t) /\ \A u \in Threads \ {t} : ~(reads[u] = t /\ ~Idle(u))

Calls(t, u, steps) ==
  /\ todo' = [todo EXCEPT ![t] = steps] /\ reads' = [reads EXCEPT ![t] = u]
  /\ UNCHANGED <<counts, made, gone, ptr, group>>

-----------------------------------------------------------------------------
Init ==
  /\ counts = [o \in Objects |-> 0] /\ gone \in Before /\ made = gone
  /\ ptr = [p \in Pointers |-> Null] /\ group = [t \in Threads |-> <<>>]
  /\ todo = [t \in Threads |-> <<>>] /\ reads = [t \in Threads |-> t]

\* p = new T: BasePtrT(T*), reset(T*)
create(t, i, o) ==
  /\ Free(t) /\ o \notin made /\ made' = made \cup {o}
  /\ todo' = [todo EXCEPT ![t] = Replaced(<<t, i>>, o)] /\ reads' = [reads EXCEPT ![t] = t]
  /\ UNCHANGED <<counts, gone, ptr, group>>

\* p = q, q being a pointer of this thread or of another one
equal(t, i, u, j) ==
  /\ Free(t) /\ Idle(u) /\ ptr[<<t, i>>] # ptr[<<u, j>>]
  /\ Calls(t, u, Replaced(<<t, i>>, ptr[<<u, j>>]))

\* reset(Null), ~BasePtrT
drop(t, i) == Free(t) /\ ptr[<<t, i>>] # Null /\ Calls(t, t, Replaced(<<t, i>>, Null))

\* swap
swap(t, i, j) ==
  /\ Free(t) /\ ptr' = [ptr EXCEPT ![<<t, i>>] = ptr[<<t, j>>], ![<<t, j>>] = ptr[<<t, i>>]]
  /\ UNCHANGED <<counts, made, gone, group, todo, reads>>

Linking == \E t \in Threads : ~Idle(t) /\ reads[t] = Null

\* The pointers of an object: q->next = p; p = q->next, q being another pointer; and
\* p.reset(p->next.get()).
link(t, i, j) ==
  LET o == ptr[<<t, j>>]
  IN  /\ Free(t) /\ ~Linking /\ o # Null /\ ptr[<<o, "link">>] # ptr[<<t, i>>]
      /\ Calls(t, Null, Replaced(<<o, "link">>, ptr[<<t, i>>]))
follow(t, i, j) ==
  LET o == ptr[<<t, j>>]
  IN  /\ Free(t) /\ ~Linking /\ o # Null /\ ptr[<<o, "link">>] # ptr[<<t, i>>]
      /\ Calls(t, Null, Replaced(<<t, i>>, ptr[<<o, "link">>]))

\* ObjectGroup::append counts up after it has put the object in.
append(t, i) ==
  /\ Free(t) /\ ptr[<<t, i>>] # Null /\ Len(group[t]) < MaxGroup
  /\ group' = [group EXCEPT ![t] = Append(@, ptr[<<t, i>>])]
  /\ todo' = [todo EXCEPT ![t] = Inc(ptr[<<t, i>>])] /\ reads' = [reads EXCEPT ![t] = t]
  /\ UNCHANGED <<counts, made, gone, ptr>>

\* The last one takes the place of the first one that is the object.
remove(t, i) ==
  \E n \in DOMAIN group[t] :
     /\ Free(t) /\ group[t][n] = ptr[<<t, i>>] /\ \A m \in 1..n - 1 : group[t][m] # ptr[<<t, i>>]
     /\ group' = [group EXCEPT ![t] = Front([@ EXCEPT ![n] = Last(group[t])])]
     /\ todo' = [todo EXCEPT ![t] = Dec(ptr[<<t, i>>])] /\ reads' = [reads EXCEPT ![t] = t]
     /\ UNCHANGED <<counts, made, gone, ptr>>

Become(t, s) == <<[op |-> "become", s |-> s]>>
Incs(s) == [n \in DOMAIN s |-> [op |-> "inc", o |-> s[n]]]
Decs(s) == [n \in DOMAIN s |-> [op |-> "dec", o |-> s[n]]]

clear(t) == Free(t) /\ group[t] # <<>> /\ Calls(t, t, Decs(group[t]) \o Become(t, <<>>))

\* operator=: the copy is swapped with it, and then cleared.
assign(t, u) ==
  /\ Free(t) /\ Idle(u) /\ t # u
  /\ Calls(t, u, Incs(group[u]) \o Become(t, group[u]) \o Decs(group[t]))

\* File::Open and the like: reset(v) of a closed KO_Handle
open(t, o) ==
  /\ Free(t) /\ o \notin made /\ ptr[<<t, "ko">>] = Null /\ made' = made \cup {o}
  /\ todo' = [todo EXCEPT ![t] = Inc(o) \o Store(<<t, "ko">>, o)] /\ reads' = [reads EXCEPT ![t] = t]
  /\ UNCHANGED <<counts, gone, ptr, group>>

share(t, u) ==
  /\ Free(t) /\ Idle(u) /\ ptr[<<t, "ko">>] # ptr[<<u, "ko">>]
  /\ Calls(t, u, Reopened(<<t, "ko">>, ptr[<<u, "ko">>]))

close(t) ==
  /\ Free(t) /\ ptr[<<t, "ko">>] # Null
  /\ Calls(t, t, Dec(ptr[<<t, "ko">>]) \o Store(<<t, "ko">>, Null))

-----------------------------------------------------------------------------
(* The steps of a call *)

Doing(t, op) == ~Idle(t) /\ Head(todo[t]).op = op
Rest(t, first) ==
  LET left == first \o Tail(todo[t])
  IN todo' = [todo EXCEPT ![t] = left] /\ reads' = [reads EXCEPT ![t] = IF left = <<>> THEN t ELSE @]

IncRef(t) ==
  /\ Doing(t, "inc") /\ counts' = [counts EXCEPT ![Head(todo[t]).o] = @ + 1] /\ Rest(t, <<>>)
  /\ UNCHANGED <<made, gone, ptr, group>>

\* DecRef: the last one deletes the object, whose destructor lets go of its pointer.
\* DecUseCount: the last one deletes the counter, and the system's handle is destroyed.
DecRef(t) ==
  LET o == Head(todo[t]).o
      last == counts[o] = 1
  IN /\ Doing(t, "dec") /\ counts' = [counts EXCEPT ![o] = @ - 1]
     /\ gone' = IF last THEN gone \cup {o} ELSE gone
     /\ Rest(t, IF last /\ o \in Datas THEN Dec(ptr[<<o, "link">>]) ELSE <<>>)
     /\ UNCHANGED <<made, ptr, group>>

SetPtr(t) ==
  /\ Doing(t, "store") /\ ptr' = [ptr EXCEPT ![Head(todo[t]).p] = Head(todo[t]).o] /\ Rest(t, <<>>)
  /\ UNCHANGED <<counts, made, gone, group>>

SetGroup(t) ==
  /\ Doing(t, "become") /\ group' = [group EXCEPT ![t] = Head(todo[t]).s] /\ Rest(t, <<>>)
  /\ UNCHANGED <<counts, made, gone, ptr>>

Next == \E t \in Threads :
  \/ \E i \in Slots[t], o \in Datas : create(t, i, o)
  \/ \E i \in Slots[t], u \in Threads : \E j \in Slots[u] : equal(t, i, u, j)
  \/ \E i \in Slots[t] : drop(t, i) \/ append(t, i) \/ remove(t, i)
  \/ \E i, j \in Slots[t] : swap(t, i, j) \/ link(t, i, j) \/ follow(t, i, j)
  \/ clear(t)
  \/ \E u \in Threads : assign(t, u) \/ share(t, u)
  \/ \E o \in Kernels : open(t, o)
  \/ close(t)
  \/ IncRef(t) \/ DecRef(t) \/ SetPtr(t) \/ SetGroup(t)

Spec == Init /\ [][Next]_vars

-----------------------------------------------------------------------------
(* Properties. *)

Live(p) == p[1] \in Threads \/ p[1] \in made \ gone
Places == UNION {{t} \X DOMAIN group[t] : t \in Threads}
Holders(o) ==
  Cardinality({p \in Pointers : Live(p) /\ ptr[p] = o})
    + Cardinality({q \in Places : group[q[1]][q[2]] = o})

\* An object and a handle of the system are there as long as somebody holds them, and no
\* longer: no call counts on one that is gone, and when the calls have returned, each one that
\* is there is counted as often as it is held, and one that nobody holds is gone (DecRef,
\* po_data, ObjectGroup, KO_Handle).
ThereWhileHeld ==
  /\ \A t \in Threads : ~Idle(t) /\ Head(todo[t]).op \in {"inc", "dec"} => Head(todo[t]).o \notin gone
  /\ (\A t \in Threads : Idle(t)) =>
       \A o \in made : IF o \in gone THEN Holders(o) = 0 ELSE counts[o] = Holders(o) /\ counts[o] > 0
=============================================================================
