------------------------- MODULE ThreadManager_proofs -------------------------
(***************************************************************************)
(* ThreadManager for any number of Threads, ThreadImpls and clients: what  *)
(* it counts, and, while nobody takes it down, that its free list is the   *)
(* idle ThreadImpls and m_nAlive the ThreadImpls with the Thread as job.   *)
(***************************************************************************)
EXTENDS ThreadManager, TLAPS, FiniteSetTheorems, WellFoundedInduction

Most == Cardinality(Impls)

\* ThreadImpls that have started, that are between the two halves of their job, and
\* that have the Thread t as their job.
At(L) == {i \in Impls : pc[i] \in L}
Started == At(Labels \ {"none", "enter"})
Working == At({"prelude", "run", "done", "put"})
Having(t) == {i \in Impls : thrd_ptr[i] = t}

\* The free list is q[0], ..., q[n-1]: the idle ThreadImpls, linked both ways.
ListIs(n, q) ==
  /\ q \in [0..n-1 -> Impls]
  /\ \A j, k \in 0..n-1 : q[j] = q[k] => j = k
  /\ \A i \in Impls : i \in Idle <=> \E k \in 0..n-1 : q[k] = i
  /\ m_pThreads_free = IF n = 0 THEN Nil ELSE q[0]
  /\ \A k \in 0..n-1 : pNext[q[k]] = IF k = n-1 THEN Nil ELSE q[k+1]
  /\ \A k \in 0..n-1 : pPrev[q[k]] = IF k = 0 THEN Nil ELSE q[k-1]

\* A ThreadImpl that is at a job has one.
JobInv == \A i \in Impls : pc[i] \in {"prelude", "run", "done"} => thrd_ptr[i] # Nil

\* Whatever happens to the list, the numbers of threads and jobs are right, and m_nAlive
\* is not too small.
CountInv ==
  /\ m_nThreadNum = leaving + Cardinality(Started)
  /\ m_nThreadJob = Cardinality(Working)
  /\ \A t \in Thrds : m_nAlive[t] >= Cardinality(Having(t))

\* pause() has loaded the state of a Thread.
PauseInv == \A c \in Clients : cpc[c] = "pausing" => on[c] \in Thrds /\ old[c] \subseteq {"PAUSED", "CANCEL"}

\* While the manager stays, nobody is deleted, and who is not at a job has none.
StayInv == ManagerStays =>
  /\ ~disabled
  /\ \A c \in Clients : cpc[c] \notin {"disabling", "draining"}
  /\ \A i \in Impls : /\ pc[i] # "delete"
                      /\ pc[i] = "enter" => thrd_ptr[i] # Nil
                      /\ pc[i] \in {"none", "put"} => thrd_ptr[i] = Nil

ListInv == ManagerStays => \E n \in Nat : \E q : ListIs(n, q)

Inv == TypeOK /\ JobInv /\ CountInv /\ PauseInv /\ StayInv /\ AliveCounts /\ ListInv

-----------------------------------------------------------------------------
(* The k-th ThreadImpl of the list *)

\* A set of natural numbers that is not empty has a least one.
LEMMA Least ==
  ASSUME NEW T \in SUBSET Nat, T # {}
  PROVE  \E x \in T : \A y \in T : x <= y
<1>1. PICK x \in T : \A y \in T : ~(<<y, x>> \in OpToRel(<, Nat))
  BY NatLessThanWellFounded, WFMin
<1>2. \A y \in T : ~(y < x)
  BY <1>1 DEF OpToRel
<1>3. x \in Nat /\ \A y \in T : y \in Nat
  OBVIOUS
<1> QED
  BY <1>2, <1>3

\* What FreeAt is: the ThreadImpls that are met on the way from h along nx.
Chain(S, h, nx, m) ==
  {g \in [0..m -> S] :
     \A k \in 0..m : g[k] = IF k = 0 THEN h ELSE IF g[k-1] = Nil THEN Nil ELSE nx[g[k-1]]}

LEMMA ChainExists ==
  ASSUME NEW S, Nil \in S, NEW h \in S, NEW nx, \A x \in S \ {Nil} : nx[x] \in S, NEW m \in Nat
  PROVE  Chain(S, h, nx, m) # {}
<1> DEFINE Bad == {k \in Nat : Chain(S, h, nx, k) = {}}
<1> SUFFICES ASSUME m \in Bad PROVE FALSE
  OBVIOUS
<1>1. PICK least \in Bad : \A y \in Bad : least <= y
  BY Least
<1>2. CASE least = 0
  <2>1. [k \in 0..0 |-> h] \in Chain(S, h, nx, 0)
    BY DEF Chain
  <2> QED
    BY <1>1, <1>2, <2>1
<1>3. CASE least # 0
  <2>1. least - 1 \in Nat /\ least - 1 \notin Bad
    BY <1>1, <1>3
  <2>2. PICK g : g \in Chain(S, h, nx, least - 1)
    BY <2>1
  <2> DEFINE next(x) == IF x = Nil THEN Nil ELSE nx[x]
  <2> DEFINE f == [k \in 0..least |-> IF k = least THEN next(g[least - 1]) ELSE g[k]]
  <2>3. /\ g \in [0..least-1 -> S]
        /\ \A k \in 0..least-1 :
             g[k] = IF k = 0 THEN h ELSE IF g[k-1] = Nil THEN Nil ELSE nx[g[k-1]]
    BY <2>2 DEF Chain
  <2>4. f \in [0..least -> S]
    <3>1. g[least - 1] \in S
      BY <1>1, <1>3, <2>3
    <3> QED
      BY <1>1, <2>3, <3>1
  <2>5. ASSUME NEW k \in 0..least
        PROVE  f[k] = IF k = 0 THEN h ELSE IF f[k-1] = Nil THEN Nil ELSE nx[f[k-1]]
    <3>1. CASE k = least
      BY <1>1, <1>3, <3>1
    <3>2. CASE k # least
      <4>1. k \in 0..least-1 /\ f[k] = g[k]
        BY <1>1, <3>2
      <4>2. k # 0 => f[k-1] = g[k-1]
        BY <1>1, <3>2
      <4> QED
        BY <2>3, <4>1, <4>2
    <3> QED
      BY <3>1, <3>2
  <2>6. f \in Chain(S, h, nx, least)
    BY <2>4, <2>5 DEF Chain
  <2> QED
    BY <1>1, <2>6
<1> QED
  BY <1>2, <1>3

LEMMA FreeAtIs ==
  ASSUME TypeOK
  PROVE  /\ FreeAt \in [0..Most -> Impls \cup {Nil}]
         /\ FreeAt[0] = m_pThreads_free
         /\ \A k \in 1..Most : FreeAt[k] = IF FreeAt[k-1] = Nil THEN Nil ELSE pNext[FreeAt[k-1]]
<1>1. Most \in Nat
  BY ManagerAssumption, FS_CardinalityType DEF Most
<1> DEFINE S == Impls \cup {Nil}
<1>2. Chain(S, m_pThreads_free, pNext, Most) # {}
  BY <1>1, ChainExists DEF TypeOK
<1>3. PICK g : g \in Chain(S, m_pThreads_free, pNext, Most)
  BY <1>2
<1>4. g = [k \in 0..Most |-> IF k = 0 THEN m_pThreads_free
                             ELSE IF g[k-1] = Nil THEN Nil ELSE pNext[g[k-1]]]
  BY <1>3 DEF Chain
<1>5. FreeAt = [k \in 0..Most |-> IF k = 0 THEN m_pThreads_free
                             ELSE IF FreeAt[k-1] = Nil THEN Nil ELSE pNext[FreeAt[k-1]]]
  BY <1>4 DEF FreeAt, Most
<1>6. \A k \in 0..Most : FreeAt[k] = g[k]
  <2> DEFINE Bad == {k \in 0..Most : FreeAt[k] # g[k]}
  <2> SUFFICES ASSUME Bad # {} PROVE FALSE
    OBVIOUS
  <2>1. PICK k \in Bad : \A y \in Bad : k <= y
    <3>1. Bad \in SUBSET Nat
      OBVIOUS
    <3> HIDE DEF Bad
    <3> QED
      BY <3>1, Least
  <2>2. k # 0 => k-1 \in 0..Most /\ k-1 \notin Bad
    BY <1>1, <2>1
  <2>3. k # 0 => FreeAt[k-1] = g[k-1]
    BY <2>2
  <2>4. g[k] = IF k = 0 THEN m_pThreads_free ELSE IF g[k-1] = Nil THEN Nil ELSE pNext[g[k-1]]
    BY <1>3, <2>1 DEF Chain
  <2> HIDE DEF Bad
  <2>5. k \in 0..Most
    BY <2>1 DEF Bad
  <2>6. FreeAt[k] = IF k = 0 THEN m_pThreads_free
                    ELSE IF FreeAt[k-1] = Nil THEN Nil ELSE pNext[FreeAt[k-1]]
    BY <1>5, <2>5
  <2> QED
    BY <2>1, <2>3, <2>4, <2>6 DEF Bad
<1>7. FreeAt = g
  BY <1>4, <1>5, <1>6
<1>8. /\ g \in [0..Most -> S]
      /\ \A k \in 0..Most : g[k] = IF k = 0 THEN m_pThreads_free
                                   ELSE IF g[k-1] = Nil THEN Nil ELSE pNext[g[k-1]]
  BY <1>3 DEF Chain
<1> QED
  BY <1>1, <1>7, <1>8

\* The list is as long as there are idle ThreadImpls,
LEMMA ListLength ==
  ASSUME NEW n \in Nat, NEW q, ListIs(n, q)
  PROVE  Cardinality(Idle) = n /\ n <= Most
<1>1. q \in Bijection(0..n-1, Idle)
  <2>1. q \in [0..n-1 -> Idle] /\ \A i \in Idle : \E k \in 0..n-1 : q[k] = i
    BY DEF ListIs, Idle
  <2> QED
    BY <2>1 DEF ListIs, Bijection, Injection, Surjection, IsInjective
<1>2. IsFiniteSet(0..n-1) /\ Cardinality(0..n-1) = n
  BY FS_Interval
<1>3. Cardinality(Idle) = n
  BY <1>1, <1>2, FS_Bijection DEF ExistsBijection
<1>4. Idle \in SUBSET Impls /\ IsFiniteSet(Impls)
  BY ManagerAssumption DEF Idle
<1>5. Cardinality(Idle) <= Most
  BY <1>4, FS_Subset DEF Most
<1> QED
  BY <1>3, <1>5

\* and FreeAt follows it.
LEMMA FreeAtList ==
  ASSUME TypeOK, NEW n \in Nat, NEW q, ListIs(n, q)
  PROVE  \A k \in 0..Most : FreeAt[k] = IF k < n THEN q[k] ELSE Nil
<1>1. Most \in Nat
  BY ManagerAssumption, FS_CardinalityType DEF Most
<1> DEFINE Bad == {k \in 0..Most : FreeAt[k] # IF k < n THEN q[k] ELSE Nil}
<1> SUFFICES ASSUME Bad # {} PROVE FALSE
  OBVIOUS
<1>2. PICK k \in Bad : \A y \in Bad : k <= y
  <2>1. Bad \in SUBSET Nat
    OBVIOUS
  <2> HIDE DEF Bad
  <2> QED
    BY <2>1, Least
<1>3. CASE k = 0
  BY <1>2, <1>3, FreeAtIs DEF ListIs
<1>4. CASE k # 0
  <2>1. k-1 \in 0..Most /\ k \in 1..Most /\ k-1 \notin Bad
    BY <1>1, <1>2, <1>4
  <2>2. FreeAt[k] = IF FreeAt[k-1] = Nil THEN Nil ELSE pNext[FreeAt[k-1]]
    BY <2>1, FreeAtIs
  <2>3. FreeAt[k-1] = IF k-1 < n THEN q[k-1] ELSE Nil
    BY <2>1
  <2>4. CASE k-1 < n
    <3>1. k-1 \in 0..n-1 /\ q[k-1] \in Impls /\ q[k-1] # Nil
      BY <2>1, <2>4, ManagerAssumption DEF ListIs
    <3>2. FreeAt[k] = IF k-1 = n-1 THEN Nil ELSE q[(k-1)+1]
      BY <2>2, <2>3, <2>4, <3>1 DEF ListIs
    <3>3. FreeAt[k] = IF k < n THEN q[k] ELSE Nil
      BY <2>1, <2>4, <3>2
    <3> QED
      BY <1>2, <3>3
  <2>5. CASE ~(k-1 < n)
    BY <1>2, <2>1, <2>2, <2>3, <2>5
  <2> QED
    BY <2>4, <2>5
<1> QED
  BY <1>3, <1>4

LEMMA BooksFollow == Inv => BooksAgree
<1> SUFFICES ASSUME Inv PROVE BooksAgree
  OBVIOUS
<1>1. ASSUME ManagerStays
      PROVE  LET n == Cardinality(Idle) IN
             /\ {FreeAt[k] : k \in 0..n-1} = Idle
             /\ FreeAt[n] = Nil
             /\ \A k \in 0..n-1 : pPrev[FreeAt[k]] = IF k = 0 THEN Nil ELSE FreeAt[k-1]
  <2>1. PICK n \in Nat : \E q : ListIs(n, q)
    BY <1>1 DEF Inv, ListInv
  <2>2. PICK q : ListIs(n, q)
    BY <2>1
  <2>3. Cardinality(Idle) = n /\ n <= Most
    BY <2>2, ListLength
  <2>4. Most \in Nat
    BY ManagerAssumption, FS_CardinalityType DEF Most
  <2>5. \A k \in 0..n : FreeAt[k] = IF k < n THEN q[k] ELSE Nil
    BY <2>2, <2>3, <2>4, FreeAtList DEF Inv
  <2>6. \A k \in 0..n-1 : FreeAt[k] = q[k]
    BY <2>5
  <2>7. {FreeAt[k] : k \in 0..n-1} = Idle
    BY <2>2, <2>6 DEF ListIs, Idle
  <2>8. FreeAt[n] = Nil
    BY <2>5
  <2>9. \A k \in 0..n-1 : pPrev[FreeAt[k]] = IF k = 0 THEN Nil ELSE FreeAt[k-1]
    BY <2>2, <2>6 DEF ListIs
  <2> QED
    BY <2>3, <2>7, <2>8, <2>9
<1> QED
  BY <1>1 DEF Inv, BooksAgree, FreeListIsIdle

-----------------------------------------------------------------------------
(* Counting *)

LEMMA AtFinite == \A L : IsFiniteSet(At(L)) /\ Cardinality(At(L)) \in Nat
<1> SUFFICES ASSUME NEW L PROVE IsFiniteSet(At(L)) /\ Cardinality(At(L)) \in Nat
  OBVIOUS
<1>1. At(L) \in SUBSET Impls /\ IsFiniteSet(Impls)
  BY ManagerAssumption DEF At
<1> QED
  BY <1>1, FS_Subset, FS_CardinalityType

LEMMA HavingFinite == \A t : IsFiniteSet(Having(t)) /\ Cardinality(Having(t)) \in Nat
<1> SUFFICES ASSUME NEW t PROVE IsFiniteSet(Having(t)) /\ Cardinality(Having(t)) \in Nat
  OBVIOUS
<1>1. Having(t) \in SUBSET Impls /\ IsFiniteSet(Impls)
  BY ManagerAssumption DEF Having
<1> QED
  BY <1>1, FS_Subset, FS_CardinalityType

\* A ThreadImpl that goes elsewhere.
LEMMA MoveOne ==
  ASSUME NEW i \in Impls, NEW l, pc \in [Impls -> Labels], Goto(i, l), NEW L
  PROVE  Cardinality(At(L)') = Cardinality(At(L)) + (IF l \in L THEN 1 ELSE 0)
                                                  - (IF pc[i] \in L THEN 1 ELSE 0)
<1>1. IsFiniteSet(At(L)) /\ Cardinality(At(L)) \in Nat
  BY AtFinite
<1>2. At(L)' = IF l \in L THEN At(L) \cup {i} ELSE At(L) \ {i}
  BY DEF At, Goto
<1>3. i \in At(L) <=> pc[i] \in L
  BY DEF At
<1>4. CASE l \in L
  BY <1>1, <1>2, <1>3, <1>4, FS_AddElement
<1>5. CASE l \notin L
  <2>1. Cardinality(At(L) \ {i}) = IF i \in At(L) THEN Cardinality(At(L)) - 1 ELSE Cardinality(At(L))
    BY <1>1, FS_RemoveElement
  <2> QED
    BY <1>1, <1>2, <1>3, <1>5, <2>1
<1> QED
  BY <1>4, <1>5

LEMMA MoveCounts ==
  ASSUME NEW i \in Impls, NEW o, NEW l \in Labels, pc \in [Impls -> Labels], pc[i] = o, Goto(i, l)
  PROVE  /\ pc' \in [Impls -> Labels]
         /\ Cardinality(Started') = Cardinality(Started) + (IF l \notin {"none", "enter"} THEN 1 ELSE 0)
                                                         - (IF o \notin {"none", "enter"} THEN 1 ELSE 0)
         /\ Cardinality(Working') =
              Cardinality(Working) + (IF l \in {"prelude", "run", "done", "put"} THEN 1 ELSE 0)
                                   - (IF o \in {"prelude", "run", "done", "put"} THEN 1 ELSE 0)
<1>1. pc' \in [Impls -> Labels] /\ o \in Labels
  BY DEF Goto
<1>2. Cardinality(Started') = Cardinality(Started) + (IF l \in Labels \ {"none", "enter"} THEN 1 ELSE 0)
                                - (IF pc[i] \in Labels \ {"none", "enter"} THEN 1 ELSE 0)
  BY MoveOne DEF Started
<1>3. Cardinality(Working') = Cardinality(Working)
         + (IF l \in {"prelude", "run", "done", "put"} THEN 1 ELSE 0)
         - (IF pc[i] \in {"prelude", "run", "done", "put"} THEN 1 ELSE 0)
  BY MoveOne DEF Working
<1> QED
  BY <1>1, <1>2, <1>3

\* ThreadImpls that begin, and those that are woken, are in neither number.
LEMMA WakeCounts ==
  ASSUME NEW new \in SUBSET At({"none"}), pc \in [Impls -> Labels],
         pc' = [i \in Impls |-> IF i \in new THEN "enter" ELSE NotifyAttached[i]]
  PROVE  pc' \in [Impls -> Labels] /\ Started' = Started /\ Working' = Working
BY DEF At, NotifyAttached, Labels, Started, Working

\* A ThreadImpl that loses its job.
LEMMA LoseJob ==
  ASSUME NEW i \in Impls, thrd_ptr' = [thrd_ptr EXCEPT ![i] = Nil],
         thrd_ptr \in [Impls -> Thrds \cup {Nil}], NEW t \in Thrds
  PROVE  Cardinality(Having(t)') = Cardinality(Having(t)) - (IF thrd_ptr[i] = t THEN 1 ELSE 0)
<1>1. Having(t)' = Having(t) \ {i}
  BY ManagerAssumption DEF Having
<1>2. i \in Having(t) <=> thrd_ptr[i] = t
  BY DEF Having
<1>3. IsFiniteSet(Having(t)) /\ Cardinality(Having(t)) \in Nat
  BY HavingFinite
<1>4. Cardinality(Having(t) \ {i}) = IF i \in Having(t) THEN Cardinality(Having(t)) - 1 ELSE Cardinality(Having(t))
  BY <1>3, FS_RemoveElement
<1> QED
  BY <1>1, <1>2, <1>3, <1>4

\* n ThreadImpls that get the job t; those that had none are added to the others.
LEMMA GetJobs ==
  ASSUME NEW F \in SUBSET Impls, NEW n \in Nat, Cardinality(F) = n, NEW t \in Thrds,
         thrd_ptr' = [i \in Impls |-> IF i \in F THEN t ELSE thrd_ptr[i]]
  PROVE  /\ Cardinality(Having(t)') <= Cardinality(Having(t)) + n
         /\ (\A i \in F : thrd_ptr[i] = Nil) => Cardinality(Having(t)') = Cardinality(Having(t)) + n
         /\ \A u \in Thrds \ {t} : Cardinality(Having(u)') <= Cardinality(Having(u))
         /\ (\A i \in F : thrd_ptr[i] = Nil)
            => \A u \in Thrds \ {t} : Cardinality(Having(u)') = Cardinality(Having(u))
<1>1. IsFiniteSet(F)
  BY ManagerAssumption, FS_Subset
<1>2. /\ IsFiniteSet(Having(t)) /\ Cardinality(Having(t)) \in Nat
      /\ IsFiniteSet(Having(t) \cap F) /\ Cardinality(Having(t) \cap F) \in Nat
  <2>1. IsFiniteSet(Having(t)) /\ Having(t) \cap F \in SUBSET Having(t)
    BY HavingFinite
  <2>2. IsFiniteSet(Having(t) \cap F)
    BY <2>1, FS_Subset
  <2> QED
    BY <2>1, <2>2, FS_CardinalityType
<1>3. Having(t)' = Having(t) \cup F
  BY DEF Having
<1>4. Cardinality(Having(t) \cup F) = Cardinality(Having(t)) + n - Cardinality(Having(t) \cap F)
  BY <1>1, <1>2, FS_Union
<1>5. Cardinality(Having(t)') <= Cardinality(Having(t)) + n
  BY <1>2, <1>3, <1>4
<1>6. ASSUME \A i \in F : thrd_ptr[i] = Nil
      PROVE  Cardinality(Having(t)') = Cardinality(Having(t)) + n
  <2>1. Having(t) \cap F = {}
    BY <1>6, ManagerAssumption DEF Having
  <2>2. Cardinality(Having(t) \cap F) = 0
    BY <2>1, FS_EmptySet
  <2> QED
    BY <1>2, <1>3, <1>4, <2>2
<1>7. ASSUME NEW u \in Thrds \ {t}
      PROVE  Cardinality(Having(u)') <= Cardinality(Having(u))
  <2>1. Having(u)' \in SUBSET Having(u) /\ IsFiniteSet(Having(u))
    BY <1>7, HavingFinite DEF Having
  <2> QED
    BY <2>1, FS_Subset
<1>8. ASSUME \A i \in F : thrd_ptr[i] = Nil, NEW u \in Thrds \ {t}
      PROVE  Cardinality(Having(u)') = Cardinality(Having(u))
  <2>1. Having(u)' = Having(u)
    BY <1>8, ManagerAssumption DEF Having
  <2> QED
    BY <2>1
<1> QED
  BY <1>5, <1>6, <1>7, <1>8

-----------------------------------------------------------------------------
(* The beginning *)

LEMMA InvInit == Init => Inv
<1> SUFFICES ASSUME Init PROVE Inv
  OBVIOUS
<1>1. \A L : "none" \notin L => At(L) = {}
  BY DEF Init, At
<1>2. Started = {} /\ Working = {} /\ \A t \in Thrds : Having(t) = {}
  BY <1>1, ManagerAssumption DEF Started, Working, Init, Having
<1>3. Cardinality({}) = 0
  BY FS_EmptySet
<1>4. TypeOK
  BY DEF Init, TypeOK, Labels
<1>5. JobInv /\ PauseInv /\ StayInv
  BY DEF Init, JobInv, PauseInv, StayInv
<1>6. CountInv /\ AliveCounts
  BY <1>2, <1>3 DEF Init, CountInv, AliveCounts, Having
<1>7. ListIs(0, [k \in {} |-> Nil])
  BY DEF Init, ListIs, Idle
<1>8. ListInv
  BY <1>7 DEF ListInv
<1> QED
  BY <1>4, <1>5, <1>6, <1>8 DEF Inv

-----------------------------------------------------------------------------
(* The steps of a ThreadImpl *)

Steps(i) == ImplStep(i) \/ SvcWakesByItself(i)

LEMMA StepsKeepPlaces ==
  ASSUME Inv, NEW i \in Impls, Steps(i)
  PROVE  JobInv' /\ PauseInv' /\ StayInv'
<1> USE DEF Inv, TypeOK, JobInv, PauseInv, StayInv, ManagerStays, Goto, Delete,
        client, freelist, thread, manager
<1>1. CASE SvcEnter(i)
  BY <1>1 DEF SvcEnter
<1>2. CASE SvcTake(i)
  BY <1>2 DEF SvcTake
<1>3. CASE SvcPark(i) \/ SvcWakesByItself(i)
  BY <1>3 DEF SvcPark, SvcWakesByItself
<1>4. CASE SvcUnlink(i)
  BY <1>4 DEF SvcUnlink
<1>5. CASE SvcPrelude(i) \/ SvcReturns(i)
  BY <1>5 DEF SvcPrelude, SvcReturns
<1>6. CASE JobDone(i)
  <2>1. cpc' \in {cpc, NotifyEmpty(thrd_ptr[i])} /\ UNCHANGED <<on, old, ops, disabled>>
    BY <1>6 DEF JobDone
  <2>2. \A c \in Clients : cpc'[c] = cpc[c] \/ (cpc[c] = "waiting" /\ cpc'[c] = "recheck")
    BY <2>1 DEF NotifyEmpty
  <2>3. PauseInv'
    BY <2>1, <2>2
  <2>4. /\ pc[i] = "done" /\ pc' = [pc EXCEPT ![i] = "put"]
        /\ thrd_ptr' = [thrd_ptr EXCEPT ![i] = Nil]
    BY <1>6 DEF JobDone
  <2>5. JobInv'
    BY <2>4
  <2>6. StayInv'
    BY <2>1, <2>2, <2>4
  <2> QED
    BY <2>3, <2>5, <2>6
<1>7. CASE PutThread(i)
  BY <1>7 DEF PutThread
<1>8. CASE SvcDelete(i)
  BY <1>8 DEF SvcDelete
<1> QED
  BY <1>1, <1>2, <1>3, <1>4, <1>5, <1>6, <1>7, <1>8 DEF Steps, ImplStep

\* The numbers do not depend on the lists.
LEMMA StepsKeepCounts ==
  ASSUME Inv, NEW i \in Impls, Steps(i)
  PROVE  TypeOK' /\ CountInv' /\ AliveCounts'
<1>0. /\ Cardinality(Started) \in Nat /\ Cardinality(Working) \in Nat
      /\ \A t : Cardinality(Having(t)) \in Nat
  BY AtFinite, HavingFinite DEF Started, Working
<1>1. ASSUME NEW l \in Labels, Goto(i, l), UNCHANGED <<thrd_ptr, m_nAlive, ops>>,
             m_nThreadNum' = m_nThreadNum + (leaving' - leaving)
                               + (IF l \notin {"none", "enter"} THEN 1 ELSE 0)
                               - (IF pc[i] \notin {"none", "enter"} THEN 1 ELSE 0),
             m_nThreadJob' = m_nThreadJob + (IF l \in {"prelude", "run", "done", "put"} THEN 1 ELSE 0)
                               - (IF pc[i] \in {"prelude", "run", "done", "put"} THEN 1 ELSE 0),
             leaving' \in Nat
      PROVE  /\ CountInv' /\ AliveCounts' /\ pc' \in [Impls -> Labels]
             /\ m_nThreadNum' \in Nat /\ m_nThreadJob' \in Nat
  <2>1. /\ pc' \in [Impls -> Labels]
        /\ Cardinality(Started') = Cardinality(Started) + (IF l \notin {"none", "enter"} THEN 1 ELSE 0)
                                     - (IF pc[i] \notin {"none", "enter"} THEN 1 ELSE 0)
        /\ Cardinality(Working') =
             Cardinality(Working) + (IF l \in {"prelude", "run", "done", "put"} THEN 1 ELSE 0)
                                  - (IF pc[i] \in {"prelude", "run", "done", "put"} THEN 1 ELSE 0)
    BY <1>1, MoveCounts DEF Inv, TypeOK
  <2>2. \A t \in Thrds : Having(t)' = Having(t)
    <3>1. thrd_ptr' = thrd_ptr
      BY <1>1
    <3> QED
      BY <3>1 DEF Having
  <2>3. /\ m_nThreadNum' = leaving' + Cardinality(Started')
        /\ m_nThreadJob' = Cardinality(Working')
    BY <1>0, <1>1, <2>1 DEF Inv, TypeOK, CountInv
  <2>4. Cardinality(Started') \in Nat /\ Cardinality(Working') \in Nat
    <3>1. IsFiniteSet(Started') /\ IsFiniteSet(Working')
      <4>1. Started' \in SUBSET Impls /\ Working' \in SUBSET Impls
        BY DEF Started, Working, At
      <4> QED
        BY <4>1, ManagerAssumption, FS_Subset
    <3> QED
      BY <3>1, FS_CardinalityType
  <2>5. CountInv'
    BY <1>1, <2>2, <2>3 DEF Inv, CountInv
  <2>6. AliveCounts'
    BY <1>1, <2>2 DEF Inv, AliveCounts, ManagerStays, Having
  <2> QED
    BY <1>1, <2>1, <2>3, <2>4, <2>5, <2>6
<1> USE DEF Inv, TypeOK
<1>2. CASE SvcEnter(i)
  <2>1. CASE disabled
    <3>1. /\ pc[i] = "enter" /\ Goto(i, "none")
          /\ thrd_ptr' = [thrd_ptr EXCEPT ![i] = Nil] /\ thrd_rank' = [thrd_rank EXCEPT ![i] = -1]
          /\ UNCHANGED <<manager, freelist, thread, client>>
      BY <1>2, <2>1 DEF SvcEnter, Delete, manager
    <3>2. /\ pc' \in [Impls -> Labels] /\ Cardinality(Started') = Cardinality(Started)
          /\ Cardinality(Working') = Cardinality(Working)
      BY <1>0, <3>1, MoveCounts DEF Labels
    <3>3. ASSUME NEW t \in Thrds PROVE m_nAlive'[t] >= Cardinality(Having(t)')
      <4>1. Cardinality(Having(t)') = Cardinality(Having(t)) - (IF thrd_ptr[i] = t THEN 1 ELSE 0)
        BY <3>1, LoseJob
      <4>2. m_nAlive' = m_nAlive
        BY <3>1 DEF thread
      <4> QED
        BY <1>0, <4>1, <4>2 DEF CountInv
    <3>4. CountInv'
      BY <1>0, <3>1, <3>2, <3>3 DEF CountInv, manager, thread
    <3>5. AliveCounts'
      BY <2>1, <3>1 DEF AliveCounts, StayInv, ManagerStays, client
    <3> QED
      BY <3>1, <3>2, <3>4, <3>5 DEF manager, freelist, thread, client
  <2>2. CASE ~disabled
    <3>1. /\ pc[i] = "enter" /\ Goto(i, "loop") /\ m_nThreadNum' = m_nThreadNum + 1
          /\ UNCHANGED <<disabled, m_nThreadJob, leaving, freelist, thrd_ptr, thrd_rank, thread, client>>
      BY <1>2, <2>2 DEF SvcEnter
    <3> QED
      BY <1>1, <3>1 DEF Labels, freelist, thread, client
  <2> QED
    BY <2>1, <2>2
<1>3. CASE SvcTake(i)
  <2>1. /\ pc[i] = "loop" /\ Goto(i, "prelude") /\ m_nThreadJob' = m_nThreadJob + 1
        /\ UNCHANGED <<disabled, m_nThreadNum, leaving, freelist, thrd_ptr, thrd_rank, thread, client>>
    BY <1>3 DEF SvcTake
  <2> QED
    BY <1>1, <2>1 DEF Labels, freelist, thread, client
<1>4. CASE SvcPark(i) \/ SvcWakesByItself(i) \/ SvcPrelude(i) \/ SvcReturns(i)
  <2>1. \E l \in {"loop", "parked", "run", "done"} :
          /\ Goto(i, l)
          /\ pc[i] \in {"loop", "parked", "prelude", "run"}
          /\ l \in {"run", "done"} <=> pc[i] \in {"prelude", "run"}
          /\ UNCHANGED <<manager, freelist, thrd_ptr, thrd_rank, thread, client>>
    BY <1>4 DEF SvcPark, SvcWakesByItself, SvcPrelude, SvcReturns
  <2> QED
    BY <1>1, <2>1 DEF Labels, manager, freelist, thread, client
<1>5. CASE SvcUnlink(i)
  <2>1. /\ pc[i] = "loop" /\ Goto(i, "delete")
        /\ pNext' = [k \in Impls |-> IF k = pPrev[i] THEN pNext[i] ELSE pNext[k]]
        /\ pPrev' = [k \in Impls |-> IF k = pNext[i] THEN pPrev[i] ELSE pPrev[k]]
        /\ UNCHANGED <<manager, m_pThreads_free, thrd_ptr, thrd_rank, thread, client>>
    BY <1>5 DEF SvcUnlink
  <2>2. pNext' \in [Impls -> Impls \cup {Nil}] /\ pPrev' \in [Impls -> Impls \cup {Nil}]
    BY <2>1
  <2> QED
    BY <1>1, <2>1, <2>2 DEF Labels, manager, thread, client
<1>6. CASE JobDone(i)
  <2> DEFINE t == thrd_ptr[i]
  <2>1. t \in Thrds /\ pc[i] = "done"
    BY <1>6 DEF JobDone, JobInv
  <2>2. /\ Goto(i, "put") /\ thrd_ptr' = [thrd_ptr EXCEPT ![i] = Nil]
        /\ m_nAlive' = [m_nAlive EXCEPT ![t] = @ - 1]
        /\ m_nState' = [m_nState EXCEPT ![t] = StateAfterLeaving(t)]
        /\ cpc' \in {cpc, NotifyEmpty(t)}
        /\ UNCHANGED <<manager, freelist, thrd_rank, m_bReqExit, on, old, ops>>
    BY <1>6 DEF JobDone
  <2> HIDE DEF t
  <2>3. /\ pc' \in [Impls -> Labels] /\ Cardinality(Started') = Cardinality(Started)
        /\ Cardinality(Working') = Cardinality(Working)
    BY <1>0, <2>1, <2>2, MoveCounts DEF Labels
  <2>4. \A u \in Thrds : Cardinality(Having(u)') = Cardinality(Having(u)) - (IF u = t THEN 1 ELSE 0)
    BY <2>2, LoseJob DEF t
  <2>5. m_nAlive[t] >= 1
    <3>1. Cardinality(Having(t)) # 0
      <4>1. i \in Having(t)
        BY <2>1 DEF Having, t
      <4> QED
        BY <4>1, HavingFinite, FS_EmptySet
    <3> QED
      BY <1>0, <2>1, <3>1 DEF CountInv
  <2>6. \A u \in Thrds : m_nAlive'[u] = m_nAlive[u] - (IF u = t THEN 1 ELSE 0)
    BY <2>1, <2>2
  <2>7. m_nAlive' \in [Thrds -> Nat]
    BY <2>1, <2>2, <2>5
  <2>8. CountInv'
    BY <1>0, <2>2, <2>3, <2>4, <2>6 DEF CountInv, manager
  <2>9. AliveCounts'
    <3>1. ManagerStays' = ManagerStays
      BY <2>2 DEF ManagerStays
    <3> QED
      BY <1>0, <2>4, <2>6, <3>1 DEF AliveCounts, Having
  <2>10. /\ m_nState' \in [Thrds -> SUBSET {"PAUSED", "CANCEL"}]
         /\ thrd_ptr' \in [Impls -> Thrds \cup {Nil}]
         /\ cpc' \in [Clients -> {"idle", "waiting", "recheck", "pausing", "disabling", "draining"}]
    BY <2>1, <2>2 DEF StateAfterLeaving, NotifyEmpty
  <2>11. UNCHANGED <<disabled, m_bReqExit, m_nThreadNum, m_nThreadJob, leaving, m_pThreads_free,
                     pNext, pPrev, thrd_rank, on, old>>
    BY <2>2 DEF manager, freelist
  <2> QED
    BY <2>3, <2>7, <2>8, <2>9, <2>10, <2>11
<1>7. CASE PutThread(i)
  <2>1. \E l \in {"delete", "loop"} : Goto(i, l)
    BY <1>7 DEF PutThread
  <2>2. /\ pc[i] = "put" /\ m_nThreadJob' = m_nThreadJob - 1
        /\ UNCHANGED <<disabled, m_nThreadNum, leaving, thrd_ptr, thrd_rank, thread, client>>
        /\ UNCHANGED freelist \/ PutFree(i)
    BY <1>7 DEF PutThread
  <2>3. /\ m_pThreads_free' \in Impls \cup {Nil}
        /\ pNext' \in [Impls -> Impls \cup {Nil}] /\ pPrev' \in [Impls -> Impls \cup {Nil}]
    BY <2>2 DEF PutFree, freelist
  <2> QED
    BY <1>1, <2>1, <2>2, <2>3 DEF Labels, thread, client
<1>8. CASE SvcDelete(i)
  <2>1. /\ pc[i] = "delete" /\ Goto(i, "none") /\ leaving' = leaving + 1
        /\ thrd_ptr' = [thrd_ptr EXCEPT ![i] = Nil] /\ thrd_rank' = [thrd_rank EXCEPT ![i] = -1]
        /\ UNCHANGED <<disabled, m_nThreadNum, m_nThreadJob, freelist, thread, client>>
    BY <1>8 DEF SvcDelete, Delete
  <2>2. /\ pc' \in [Impls -> Labels] /\ Cardinality(Started') = Cardinality(Started) - 1
        /\ Cardinality(Working') = Cardinality(Working)
    BY <1>0, <2>1, MoveCounts DEF Labels
  <2>3. ASSUME NEW t \in Thrds PROVE m_nAlive'[t] >= Cardinality(Having(t)')
    <3>1. Cardinality(Having(t)') = Cardinality(Having(t)) - (IF thrd_ptr[i] = t THEN 1 ELSE 0)
      BY <2>1, LoseJob
    <3>2. m_nAlive' = m_nAlive
      BY <2>1 DEF thread
    <3> QED
      BY <1>0, <3>1, <3>2 DEF CountInv
  <2>5. CountInv'
    BY <1>0, <2>1, <2>2, <2>3 DEF CountInv, thread
  <2>6. AliveCounts'
    BY <2>1 DEF AliveCounts, StayInv, ManagerStays, client
  <2>7. /\ thrd_ptr' \in [Impls -> Thrds \cup {Nil}] /\ thrd_rank' \in [Impls -> Nat \cup {-1}]
        /\ leaving' \in Nat
    BY <2>1
  <2>8. UNCHANGED <<disabled, m_nThreadNum, m_nThreadJob, m_pThreads_free, pNext, pPrev, m_nState,
                    m_nAlive, m_bReqExit, cpc, on, old>>
    BY <2>1 DEF freelist, thread, client
  <2> QED
    BY <2>2, <2>5, <2>6, <2>7, <2>8
<1> QED
  BY <1>2, <1>3, <1>4, <1>5, <1>6, <1>7, <1>8 DEF Steps, ImplStep

\* The free list gets the ThreadImpl that has put its job away.
LEMMA StepsKeepList ==
  ASSUME Inv, NEW i \in Impls, Steps(i)
  PROVE  ListInv'
<1> SUFFICES ASSUME ManagerStays' PROVE \E n \in Nat : \E q : ListIs(n, q)'
  BY DEF ListInv
<1>1. UNCHANGED ops
  BY DEF Steps, ImplStep, SvcEnter, SvcTake, SvcPark, SvcUnlink, SvcPrelude, SvcReturns, JobDone,
     PutThread, SvcDelete, SvcWakesByItself, client
<1>2. ManagerStays
  BY <1>1 DEF ManagerStays
<1>3. PICK n \in Nat : \E q : ListIs(n, q)
  BY <1>2 DEF Inv, ListInv
<1>4. PICK q : ListIs(n, q)
  BY <1>3
<1>5. /\ ~disabled /\ pc[i] # "delete"
      /\ pc[i] = "enter" => thrd_ptr[i] # Nil
      /\ pc[i] \in {"prelude", "run", "done"} => thrd_ptr[i] # Nil
      /\ pc[i] \in {"none", "put"} => thrd_ptr[i] = Nil
  BY <1>2 DEF Inv, StayInv, JobInv
<1>6. pc \in [Impls -> Labels] /\ thrd_ptr \in [Impls -> Thrds \cup {Nil}]
  BY DEF Inv, TypeOK
<1>7. CASE PutThread(i)
  <2>1. /\ pc[i] = "put" /\ Goto(i, "loop") /\ PutFree(i) /\ UNCHANGED thrd_ptr
    BY <1>5, <1>7 DEF PutThread
  <2>2. i \notin Idle
    BY <2>1 DEF Idle
  <2>3. \A j \in Impls : j \in Idle' <=> j = i \/ j \in Idle
    BY <1>5, <1>6, <2>1 DEF Idle, Goto
  <2> DEFINE r == [k \in 0..n |-> IF k = 0 THEN i ELSE q[k-1]]
  <2>4. q \in [0..n-1 -> Impls] /\ \A k \in 1..n : k-1 \in 0..n-1 /\ r[k] = q[k-1] /\ r[k] \in Idle
    BY <1>4 DEF ListIs
  <2>5. r \in [0..n -> Impls] /\ r[0] = i
    BY <2>4
  <2>5a. \A k \in 0..n : k # 0 => /\ k-1 \in 0..n-1 /\ r[k] = q[k-1]
                                   /\ r[k] \in Idle /\ r[k] # i /\ r[k] \in Impls
    <3>1. \A k \in 0..n : k # 0 => k \in 1..n
      OBVIOUS
    <3>2. \A k \in 1..n : r[k] # i /\ r[k] \in Impls
      BY <2>2, <2>4 DEF Idle
    <3> HIDE DEF r
    <3> QED
      BY <2>4, <3>1, <3>2
  <2>6. \A j, k \in 0..n : r[j] = r[k] => j = k
    <3> SUFFICES ASSUME NEW j \in 0..n, NEW k \in 0..n, r[j] = r[k] PROVE j = k
      OBVIOUS
    <3> HIDE DEF r
    <3>1. CASE j = 0 \/ k = 0
      BY <2>5, <2>5a, <3>1
    <3>2. CASE j # 0 /\ k # 0
      <4>1. j-1 \in 0..n-1 /\ k-1 \in 0..n-1 /\ q[j-1] = q[k-1]
        BY <2>5a, <3>2
      <4>2. j-1 = k-1
        BY <1>4, <4>1 DEF ListIs
      <4> QED
        BY <4>2
    <3> QED
      BY <3>1, <3>2
  <2>7. \A j \in Impls : j \in Idle' <=> \E k \in 0..n : r[k] = j
    <3> SUFFICES ASSUME NEW j \in Impls PROVE j \in Idle' <=> \E k \in 0..n : r[k] = j
      OBVIOUS
    <3>1. ASSUME j \in Idle PROVE \E k \in 0..n : r[k] = j
      <4>1. PICK k \in 0..n-1 : q[k] = j
        BY <1>4, <3>1 DEF ListIs
      <4>2. k+1 \in 0..n /\ r[k+1] = j
        BY <4>1
      <4> QED
        BY <4>2
    <3>2. ASSUME NEW k \in 0..n, r[k] = j PROVE j = i \/ j \in Idle
      <4> HIDE DEF r
      <4> QED
        BY <2>5, <2>5a, <3>2
    <3> HIDE DEF r
    <3>3. 0 \in 0..n
      OBVIOUS
    <3> QED
      BY <2>3, <2>5, <3>1, <3>2, <3>3
  <2>8. /\ m_pThreads_free' = i
        /\ pNext' = [pNext EXCEPT ![i] = m_pThreads_free]
        /\ pPrev' = [k \in Impls |-> IF k = i THEN Nil ELSE IF k = m_pThreads_free THEN i ELSE pPrev[k]]
        /\ pNext \in [Impls -> Impls \cup {Nil}]
    BY <2>1 DEF PutFree, Inv, TypeOK
  <2>9. ASSUME NEW k \in 0..n
        PROVE  /\ pNext'[r[k]] = IF k = n THEN Nil ELSE r[k+1]
               /\ pPrev'[r[k]] = IF k = 0 THEN Nil ELSE r[k-1]
    <3>1. CASE k = 0
      <4>1. r[k] = i
        BY <3>1
      <4>2. m_pThreads_free = IF k = n THEN Nil ELSE r[k+1]
        BY <1>4, <3>1 DEF ListIs
      <4> QED
        BY <2>8, <3>1, <4>1, <4>2
    <3>2. CASE k # 0
      <4>1. k-1 \in 0..n-1 /\ r[k] = q[k-1] /\ r[k] # i /\ r[k] \in Impls
        BY <2>5a, <3>2
      <4>2. pNext'[r[k]] = IF k-1 = n-1 THEN Nil ELSE q[(k-1)+1]
        BY <1>4, <2>8, <4>1 DEF ListIs
      <4>3. pNext'[r[k]] = IF k = n THEN Nil ELSE r[k+1]
        BY <3>2, <4>1, <4>2
      <4>4. pPrev[r[k]] = IF k-1 = 0 THEN Nil ELSE q[(k-1)-1]
        BY <1>4, <4>1 DEF ListIs
      <4>5. r[k] = m_pThreads_free <=> k = 1
        <5>1. n # 0 /\ 0 \in 0..n-1 /\ m_pThreads_free = q[0]
          BY <1>4, <4>1 DEF ListIs
        <5>2. q[k-1] = q[0] <=> k-1 = 0
          BY <1>4, <4>1, <5>1 DEF ListIs
        <5> QED
          BY <4>1, <5>1, <5>2
      <4>6. CASE k = 1
        <5>1. r[k-1] = i
          BY <4>6
        <5> QED
          BY <2>8, <4>1, <4>3, <4>5, <4>6, <5>1
      <4>7. CASE k # 1
        <5>1. k-1 \in 1..n /\ r[k-1] = q[(k-1)-1]
          BY <3>2, <4>7
        <5>2. pPrev'[r[k]] = pPrev[r[k]]
          BY <2>8, <4>1, <4>5, <4>7
        <5> QED
          BY <3>2, <4>3, <4>4, <4>7, <5>1, <5>2
      <4> QED
        BY <4>6, <4>7
    <3> QED
      BY <3>1, <3>2
  <2> HIDE DEF r
  <2>10. ListIs(n+1, r)'
    <3>1. (n+1)-1 = n /\ n+1 # 0
      OBVIOUS
    <3>2. 0..((n+1)-1) = 0..n
      BY <3>1
    <3> QED
      BY <2>5, <2>6, <2>7, <2>8, <2>9, <3>1, <3>2 DEF ListIs
  <2> QED
    BY <2>10
<1>8. CASE ~PutThread(i)
  <2>1. UNCHANGED freelist
    BY <1>5, <1>8 DEF Steps, ImplStep, SvcEnter, SvcTake, SvcPark, SvcUnlink, SvcPrelude, SvcReturns,
       JobDone, SvcDelete, SvcWakesByItself
  <2>2. Idle' = Idle
    BY <1>5, <1>6, <1>8 DEF Steps, ImplStep, SvcEnter, SvcTake, SvcPark, SvcUnlink, SvcPrelude,
       SvcReturns, JobDone, SvcDelete, SvcWakesByItself, Idle, Goto, Delete
  <2>3. ListIs(n, q)'
    BY <1>4, <2>1, <2>2 DEF ListIs, freelist
  <2> QED
    BY <2>3
<1> QED
  BY <1>7, <1>8

-----------------------------------------------------------------------------
(* activate() *)

\* What it does: n different ThreadImpls, some of them created, have a new job.
LEMMA ActivateEffect ==
  ASSUME Inv, NEW c \in Clients, NEW t \in Thrds, NEW n \in Sizes, Activate(c, t, n)
  PROVE  \E f \in GetThreads(n) :
           LET F == {i \in Impls : \E k \in 0..n-1 : f[k] = i} IN
           /\ Cardinality(F) = n /\ n \in Nat /\ n <= Most
           /\ Created(f) \in SUBSET (At({"none"}) \cap F)
           /\ thrd_ptr' = [i \in Impls |-> IF i \in F THEN t ELSE thrd_ptr[i]]
           /\ pc' = [i \in Impls |-> IF i \in Created(f) THEN "enter" ELSE NotifyAttached[i]]
           /\ thrd_rank' \in [Impls -> Nat \cup {-1}]
           /\ m_nAlive' = [m_nAlive EXCEPT ![t] = @ + n]
           /\ m_pThreads_free' = FreeAt[n]
           /\ pPrev' = [i \in Impls |-> IF i = FreeAt[n] THEN Nil ELSE pPrev[i]]
           /\ pNext' = [i \in Impls |-> IF i \in Created(f) THEN Nil ELSE pNext[i]]
           /\ UNCHANGED <<manager, m_nState, m_bReqExit, client>>
<1>1. n \in Nat /\ n <= Most /\ Most \in Nat
  BY ManagerAssumption, FS_CardinalityType DEF Activate, Most
<1>2. PICK f \in GetThreads(n) :
        /\ TakeFree(n)
        /\ pNext' = [i \in Impls |-> IF i \in Created(f) THEN Nil ELSE pNext[i]]
        /\ thrd_ptr' = [i \in Impls |-> IF \E k \in 0..n-1 : f[k] = i THEN t ELSE thrd_ptr[i]]
        /\ thrd_rank' = [i \in Impls |-> IF \E k \in 0..n-1 : f[k] = i
                                         THEN CHOOSE k \in 0..n-1 : f[k] = i ELSE thrd_rank[i]]
        /\ pc' = [i \in Impls |-> IF i \in Created(f) THEN "enter" ELSE NotifyAttached[i]]
  BY DEF Activate
<1> DEFINE F == {i \in Impls : \E k \in 0..n-1 : f[k] = i}
<1>3. /\ f \in [0..n-1 -> Impls] /\ \A j, k \in 0..n-1 : f[j] = f[k] => j = k
      /\ \A k \in 0..n-1 : IF FreeAt[k] # Nil THEN f[k] = FreeAt[k] ELSE pc[f[k]] = "none"
  BY DEF GetThreads
<1>4. Cardinality(F) = n
  <2>1. f \in Bijection(0..n-1, F)
    BY <1>3 DEF Bijection, Injection, Surjection, IsInjective
  <2>2. IsFiniteSet(0..n-1) /\ Cardinality(0..n-1) = n
    BY <1>1, FS_Interval
  <2> QED
    BY <2>1, <2>2, FS_Bijection DEF ExistsBijection
<1>5. Created(f) \in SUBSET (At({"none"}) \cap F)
  BY <1>3 DEF Created, At
<1>6. thrd_rank' \in [Impls -> Nat \cup {-1}]
  <2>1. thrd_rank \in [Impls -> Nat \cup {-1}]
    BY DEF Inv, TypeOK
  <2>2. ASSUME NEW i \in Impls, \E k \in 0..n-1 : f[k] = i
        PROVE  (CHOOSE k \in 0..n-1 : f[k] = i) \in Nat
    BY <1>1, <2>2
  <2> QED
    BY <1>2, <2>1, <2>2
<1>7. thrd_ptr' = [i \in Impls |-> IF i \in F THEN t ELSE thrd_ptr[i]]
  BY <1>2
<1>8. /\ m_pThreads_free' = FreeAt[n]
      /\ pPrev' = [i \in Impls |-> IF i = FreeAt[n] THEN Nil ELSE pPrev[i]]
  BY <1>2 DEF TakeFree
<1>9. m_nAlive' = [m_nAlive EXCEPT ![t] = @ + n]
  BY DEF Activate
<1>10. UNCHANGED <<manager, m_nState, m_bReqExit, client>>
  BY DEF Activate
<1> QED
  BY <1>1, <1>2, <1>4, <1>5, <1>6, <1>7, <1>8, <1>9, <1>10

LEMMA ActivateKeeps ==
  ASSUME Inv, NEW c \in Clients, NEW t \in Thrds, NEW n \in Sizes, Activate(c, t, n)
  PROVE  Inv'
<1>1. PICK f \in GetThreads(n) :
        LET F == {i \in Impls : \E k \in 0..n-1 : f[k] = i} IN
        /\ Cardinality(F) = n /\ n \in Nat /\ n <= Most
        /\ Created(f) \in SUBSET (At({"none"}) \cap F)
        /\ thrd_ptr' = [i \in Impls |-> IF i \in F THEN t ELSE thrd_ptr[i]]
        /\ pc' = [i \in Impls |-> IF i \in Created(f) THEN "enter" ELSE NotifyAttached[i]]
        /\ thrd_rank' \in [Impls -> Nat \cup {-1}]
        /\ m_nAlive' = [m_nAlive EXCEPT ![t] = @ + n]
        /\ m_pThreads_free' = FreeAt[n]
        /\ pPrev' = [i \in Impls |-> IF i = FreeAt[n] THEN Nil ELSE pPrev[i]]
        /\ pNext' = [i \in Impls |-> IF i \in Created(f) THEN Nil ELSE pNext[i]]
        /\ UNCHANGED <<manager, m_nState, m_bReqExit, client>>
  BY ActivateEffect
<1> DEFINE F == {i \in Impls : \E k \in 0..n-1 : f[k] = i}
           New == Created(f)
<1>2. /\ F \in SUBSET Impls /\ Cardinality(F) = n /\ n \in Nat
      /\ New \in SUBSET At({"none"}) /\ New \in SUBSET F
      /\ thrd_ptr' = [i \in Impls |-> IF i \in F THEN t ELSE thrd_ptr[i]]
      /\ pc' = [i \in Impls |-> IF i \in New THEN "enter" ELSE NotifyAttached[i]]
  BY <1>1
<1>3. \A i \in Impls : i \in F <=> \E k \in 0..n-1 : f[k] = i
  OBVIOUS
<1>4. /\ m_nAlive' = [m_nAlive EXCEPT ![t] = @ + n] /\ thrd_rank' \in [Impls -> Nat \cup {-1}]
      /\ m_pThreads_free' = FreeAt[n]
      /\ pPrev' = [i \in Impls |-> IF i = FreeAt[n] THEN Nil ELSE pPrev[i]]
      /\ pNext' = [i \in Impls |-> IF i \in New THEN Nil ELSE pNext[i]]
      /\ UNCHANGED <<manager, m_nState, m_bReqExit, client>> /\ n <= Most
  BY <1>1
<1>5. /\ f \in [0..n-1 -> Impls] /\ \A j, k \in 0..n-1 : f[j] = f[k] => j = k
      /\ \A k \in 0..n-1 : IF FreeAt[k] # Nil THEN f[k] = FreeAt[k] ELSE pc[f[k]] = "none"
      /\ New = {f[k] : k \in {k \in 0..n-1 : FreeAt[k] = Nil}}
  BY DEF GetThreads, Created
<1> HIDE DEF F, New
<1>6. pc' \in [Impls -> Labels] /\ Started' = Started /\ Working' = Working
  BY <1>2, WakeCounts DEF Inv, TypeOK
<1>7. /\ Cardinality(Having(t)') <= Cardinality(Having(t)) + n
      /\ (\A i \in F : thrd_ptr[i] = Nil) => Cardinality(Having(t)') = Cardinality(Having(t)) + n
      /\ \A u \in Thrds \ {t} : Cardinality(Having(u)') <= Cardinality(Having(u))
      /\ (\A i \in F : thrd_ptr[i] = Nil)
         => \A u \in Thrds \ {t} : Cardinality(Having(u)') = Cardinality(Having(u))
  BY <1>2, GetJobs
<1>8. TypeOK'
  <2>1. n \in 0..Most /\ FreeAt[n] \in Impls \cup {Nil}
    <3>1. Most \in Nat
      BY ManagerAssumption, FS_CardinalityType DEF Most
    <3>2. FreeAt \in [0..Most -> Impls \cup {Nil}]
      BY FreeAtIs DEF Inv
    <3> QED
      BY <1>2, <1>4, <3>1, <3>2
  <2>2. m_nAlive' \in [Thrds -> Nat]
    BY <1>2, <1>4 DEF Inv, TypeOK
  <2>3. /\ m_pThreads_free' \in Impls \cup {Nil}
        /\ pNext' \in [Impls -> Impls \cup {Nil}] /\ pPrev' \in [Impls -> Impls \cup {Nil}]
    BY <1>4, <2>1 DEF Inv, TypeOK
  <2>4. thrd_ptr' \in [Impls -> Thrds \cup {Nil}]
    BY <1>2 DEF Inv, TypeOK
  <2> QED
    BY <1>4, <1>6, <2>2, <2>3, <2>4 DEF Inv, TypeOK, manager, client
<1>9. JobInv' /\ PauseInv'
  <2>1. \A i \in Impls : pc'[i] \in {"prelude", "run", "done"} => pc'[i] = pc[i]
    BY <1>2 DEF NotifyAttached
  <2>2. t # Nil /\ t \in Thrds
    BY ManagerAssumption
  <2>3. JobInv'
    BY <1>2, <2>1, <2>2 DEF Inv, JobInv
  <2>4. PauseInv'
    BY <1>4 DEF Inv, PauseInv, client
  <2> QED
    BY <2>3, <2>4
<1>10. CountInv'
  <2>1. \A u \in Thrds : m_nAlive'[u] = m_nAlive[u] + (IF u = t THEN n ELSE 0)
    BY <1>4 DEF Inv, TypeOK
  <2>2. ASSUME NEW u \in Thrds PROVE m_nAlive'[u] >= Cardinality(Having(u)')
    <3>1. Cardinality(Having(u)') <= Cardinality(Having(u)) + (IF u = t THEN n ELSE 0)
      <4>1. Cardinality(Having(u)) \in Nat
        BY HavingFinite
      <4>2. Cardinality(Having(u)') \in Nat
        <5>1. Having(u)' \in SUBSET Impls
          BY DEF Having
        <5> QED
          BY <5>1, ManagerAssumption, FS_Subset, FS_CardinalityType
      <4> QED
        BY <1>7, <4>1, <4>2
    <3>2. m_nAlive[u] >= Cardinality(Having(u)) /\ m_nAlive[u] \in Nat
      BY DEF Inv, CountInv, TypeOK
    <3>3. Cardinality(Having(u)) \in Nat /\ Cardinality(Having(u)') \in Nat
      <4>1. Having(u)' \in SUBSET Impls
        BY DEF Having
      <4> QED
        BY <4>1, HavingFinite, ManagerAssumption, FS_Subset, FS_CardinalityType
    <3> QED
      BY <1>2, <2>1, <3>1, <3>2, <3>3
  <2> QED
    BY <1>4, <1>6, <2>2 DEF Inv, CountInv, manager
<1>11. ManagerStays' <=> ManagerStays
  BY <1>4 DEF ManagerStays, client
\* From here on the manager stays: the jobs go to ThreadImpls that had none.
<1>12. ASSUME ManagerStays
       PROVE  \E m \in Nat : \E q :
                /\ ListIs(m, q)
                /\ \A k \in 0..n : FreeAt[k] = IF k < m THEN q[k] ELSE Nil
                /\ \A k \in 0..n-1 : IF k < m THEN f[k] = q[k] ELSE pc[f[k]] = "none" /\ f[k] \in New
                /\ \A k \in 0..n-1 : k < m => f[k] \notin New
                /\ \A i \in F : i \in Idle \/ pc[i] = "none"
  <2>1. PICK m \in Nat : \E q : ListIs(m, q)
    BY <1>12 DEF Inv, ListInv
  <2>2. PICK q : ListIs(m, q)
    BY <2>1
  <2>3. \A k \in 0..n : FreeAt[k] = IF k < m THEN q[k] ELSE Nil
    <3>1. Most \in Nat
      BY ManagerAssumption, FS_CardinalityType DEF Most
    <3> QED
      BY <1>2, <1>4, <2>2, <3>1, FreeAtList DEF Inv
  <2>4. \A k \in 0..n-1 : k < m => /\ k \in 0..m-1 /\ q[k] \in Impls /\ q[k] \in Idle
                                   /\ q[k] # Nil /\ FreeAt[k] = q[k]
    BY <1>2, <2>2, <2>3, ManagerAssumption DEF ListIs
  <2>5. \A k \in 0..n-1 : ~(k < m) => FreeAt[k] = Nil
    BY <1>2, <2>3
  <2>6. \A k \in 0..n-1 : IF k < m THEN f[k] = q[k] ELSE pc[f[k]] = "none" /\ f[k] \in New
    BY <1>5, <2>4, <2>5
  <2>7. \A k \in 0..n-1 : k < m => f[k] \notin New
    BY <1>5, <2>4
  <2>8. \A i \in F : i \in Idle \/ pc[i] = "none"
    BY <1>2, <1>3, <2>4, <2>6
  <2> QED
    BY <2>2, <2>3, <2>6, <2>7, <2>8
<1>13. ASSUME ManagerStays PROVE \A i \in F : thrd_ptr[i] = Nil
  BY <1>2, <1>12, <1>13 DEF Idle, Inv, StayInv
<1>14. AliveCounts'
  <2> SUFFICES ASSUME ManagerStays, NEW u \in Thrds
               PROVE  m_nAlive'[u] = Cardinality(Having(u)')
    BY <1>11 DEF AliveCounts, Having
  <2>1. m_nAlive'[u] = m_nAlive[u] + (IF u = t THEN n ELSE 0)
    BY <1>4 DEF Inv, TypeOK
  <2>2. m_nAlive[u] = Cardinality(Having(u))
    BY DEF Inv, AliveCounts, Having
  <2>3. Cardinality(Having(u)') = Cardinality(Having(u)) + (IF u = t THEN n ELSE 0)
    <3>1. Cardinality(Having(u)) \in Nat
      BY HavingFinite
    <3> QED
      BY <1>7, <1>13, <3>1
  <2> QED
    BY <2>1, <2>2, <2>3
<1>15. StayInv'
  <2> SUFFICES ASSUME ManagerStays
               PROVE  /\ ~disabled'
                      /\ \A x \in Clients : cpc'[x] \notin {"disabling", "draining"}
                      /\ \A i \in Impls : /\ pc'[i] # "delete"
                                          /\ pc'[i] = "enter" => thrd_ptr'[i] # Nil
                                          /\ pc'[i] \in {"none", "put"} => thrd_ptr'[i] = Nil
    BY <1>11 DEF StayInv
  <2>1. ~disabled' /\ \A x \in Clients : cpc'[x] \notin {"disabling", "draining"}
    BY <1>4 DEF Inv, StayInv, manager, client
  <2>2. ASSUME NEW i \in Impls
        PROVE  /\ pc'[i] # "delete"
               /\ pc'[i] = "enter" => thrd_ptr'[i] # Nil
               /\ pc'[i] \in {"none", "put"} => thrd_ptr'[i] = Nil
    <3>1. CASE i \in New
      BY <1>2, <3>1, ManagerAssumption
    <3>2. CASE i \notin New
      <4>1. pc'[i] = IF pc[i] = "parked" THEN "loop" ELSE pc[i]
        BY <1>2, <3>2 DEF NotifyAttached
      <4>2. /\ pc[i] # "delete"
            /\ pc[i] = "enter" => thrd_ptr[i] # Nil
            /\ pc[i] \in {"none", "put"} => thrd_ptr[i] = Nil
        BY DEF Inv, StayInv
      <4>3. i \in F => i \in Idle
        <5> SUFFICES ASSUME i \in F PROVE i \in Idle
          OBVIOUS
        <5>1. PICK m \in Nat : \E q :
                /\ \A k \in 0..n-1 : ~(k < m) => f[k] \in New
                /\ \A k \in 0..n-1 : k < m => f[k] = q[k]
                /\ ListIs(m, q)
          BY <1>12
        <5>2. PICK k \in 0..n-1 : f[k] = i
          BY <1>3
        <5>3. k < m
          BY <3>2, <5>1, <5>2
        <5>4. k \in 0..m-1
          BY <1>2, <5>3
        <5> QED
          BY <5>1, <5>2, <5>3, <5>4 DEF ListIs
      <4>4. i \in F => pc[i] \in {"loop", "parked"}
        BY <4>3 DEF Idle
      <4>5. t # Nil
        BY ManagerAssumption
      <4>6. i \in F => pc'[i] = "loop"
        BY <4>1, <4>4
      <4>7. thrd_ptr'[i] = IF i \in F THEN t ELSE thrd_ptr[i]
        BY <1>2
      <4> QED
        BY <4>1, <4>2, <4>5, <4>6, <4>7
    <3> QED
      BY <3>1, <3>2
  <2> QED
    BY <2>1, <2>2
<1>16. ListInv'
  <2> SUFFICES ASSUME ManagerStays PROVE \E m \in Nat : \E q : ListIs(m, q)'
    BY <1>11 DEF ListInv
  <2>1. PICK m \in Nat : \E q :
          /\ ListIs(m, q)
          /\ \A k \in 0..n : FreeAt[k] = IF k < m THEN q[k] ELSE Nil
          /\ \A k \in 0..n-1 : IF k < m THEN f[k] = q[k] ELSE pc[f[k]] = "none" /\ f[k] \in New
          /\ \A k \in 0..n-1 : k < m => f[k] \notin New
          /\ \A i \in F : i \in Idle \/ pc[i] = "none"
    BY <1>12
  <2>2. PICK q :
          /\ ListIs(m, q)
          /\ \A k \in 0..n : FreeAt[k] = IF k < m THEN q[k] ELSE Nil
          /\ \A k \in 0..n-1 : IF k < m THEN f[k] = q[k] ELSE pc[f[k]] = "none" /\ f[k] \in New
          /\ \A k \in 0..n-1 : k < m => f[k] \notin New
          /\ \A i \in F : i \in Idle \/ pc[i] = "none"
    BY <2>1
  \* The idle ones that are not taken stay idle.
  <2>3. ASSUME NEW i \in Impls PROVE i \in Idle' <=> i \in Idle /\ i \notin F
    <3>1. t # Nil
      BY ManagerAssumption
    <3>2. CASE i \in F
      <4>1. thrd_ptr'[i] = t
        BY <1>2, <3>2
      <4> QED
        BY <3>1, <3>2, <4>1 DEF Idle
    <3>3. CASE i \notin F
      <4>1. thrd_ptr'[i] = thrd_ptr[i] /\ i \notin New
        BY <1>2, <3>3
      <4>2. pc'[i] = IF pc[i] = "parked" THEN "loop" ELSE pc[i]
        BY <1>2, <4>1 DEF NotifyAttached
      <4> QED
        BY <3>3, <4>1, <4>2 DEF Idle
    <3> QED
      BY <3>2, <3>3
  <2>4. CASE m <= n
    <3>1. FreeAt[n] = Nil
      BY <1>2, <2>2, <2>4
    <3>2. ASSUME NEW i \in Impls, i \in Idle PROVE i \in F
      <4>1. PICK k \in 0..m-1 : q[k] = i
        BY <2>2, <3>2 DEF ListIs
      <4>2. k \in 0..n-1 /\ k < m
        BY <1>2, <2>4
      <4>3. f[k] = i
        BY <2>2, <4>1, <4>2
      <4> QED
        BY <1>3, <4>2, <4>3
    <3>3. \A i \in Impls : i \notin Idle'
      BY <2>3, <3>2
    <3>4. ListIs(0, [k \in {} |-> Nil])'
      BY <1>4, <3>1, <3>3 DEF ListIs
    <3> QED
      BY <3>4
  <2>5. CASE n < m
    <3> DEFINE r == [k \in 0..(m-n)-1 |-> q[k+n]]
    <3>1. m-n \in Nat /\ m-n # 0 /\ n \in 0..m-1
      BY <1>2, <2>5
    <3>2. \A k \in 0..(m-n)-1 : k+n \in 0..m-1 /\ r[k] = q[k+n] /\ r[k] \in Impls /\ r[k] \in Idle
      BY <1>2, <2>2 DEF ListIs
    <3>3. r \in [0..(m-n)-1 -> Impls]
      BY <3>2
    <3>4. \A k \in 0..n-1 : k \in 0..m-1 /\ f[k] = q[k]
      BY <1>2, <2>2, <2>5
    <3>5. New = {}
      <4>1. \A k \in 0..n-1 : f[k] \notin New
        BY <1>2, <2>2, <2>5
      <4> QED
        BY <1>2, <1>3, <4>1
    <3>6. FreeAt[n] = q[n]
      BY <1>2, <2>2, <2>5
    <3> HIDE DEF r
    <3>7. \A j, k \in 0..(m-n)-1 : r[j] = r[k] => j = k
      <4> SUFFICES ASSUME NEW j \in 0..(m-n)-1, NEW k \in 0..(m-n)-1, r[j] = r[k] PROVE j = k
        OBVIOUS
      <4>1. j+n \in 0..m-1 /\ k+n \in 0..m-1 /\ q[j+n] = q[k+n]
        BY <3>2
      <4>2. j+n = k+n
        BY <2>2, <4>1 DEF ListIs
      <4> QED
        BY <1>2, <4>2
    <3>8. ASSUME NEW i \in Impls PROVE i \in Idle' <=> \E k \in 0..(m-n)-1 : r[k] = i
      <4>1. ASSUME i \in Idle, i \notin F PROVE \E k \in 0..(m-n)-1 : r[k] = i
        <5>1. PICK k \in 0..m-1 : q[k] = i
          BY <2>2, <4>1 DEF ListIs
        <5>2. k \notin 0..n-1
          BY <1>3, <3>4, <4>1, <5>1
        <5>3. k-n \in 0..(m-n)-1 /\ (k-n)+n = k
          BY <1>2, <5>2
        <5> QED
          BY <3>2, <5>1, <5>3
      <4>2. ASSUME NEW k \in 0..(m-n)-1, r[k] = i PROVE i \in Idle /\ i \notin F
        <5>1. i \in Idle /\ k+n \in 0..m-1 /\ q[k+n] = i
          BY <3>2, <4>2
        <5>2. ASSUME NEW j \in 0..n-1, f[j] = i PROVE FALSE
          <6>1. q[j] = q[k+n] /\ j \in 0..m-1
            BY <3>4, <5>1, <5>2
          <6>2. j = k+n
            BY <2>2, <5>1, <6>1 DEF ListIs
          <6> QED
            BY <1>2, <6>2
        <5> QED
          BY <1>3, <5>1, <5>2
      <4> QED
        BY <2>3, <4>1, <4>2
    <3>9. m_pThreads_free' = r[0]
      <4>1. 0 \in 0..(m-n)-1 /\ 0+n = n
        BY <1>2, <3>1
      <4> QED
        BY <1>4, <3>2, <3>6, <4>1
    <3>10. pNext' = pNext
      BY <1>4, <3>5 DEF Inv, TypeOK
    <3>11. ASSUME NEW k \in 0..(m-n)-1
           PROVE  /\ pNext'[r[k]] = IF k = (m-n)-1 THEN Nil ELSE r[k+1]
                  /\ pPrev'[r[k]] = IF k = 0 THEN Nil ELSE r[k-1]
      <4>1. k+n \in 0..m-1 /\ r[k] = q[k+n] /\ r[k] \in Impls
        BY <3>2
      <4>2. pNext[q[k+n]] = IF k+n = m-1 THEN Nil ELSE q[(k+n)+1]
        BY <2>2, <4>1 DEF ListIs
      <4>3. k+n = m-1 <=> k = (m-n)-1
        BY <1>2
      <4>4. k # (m-n)-1 => k+1 \in 0..(m-n)-1 /\ (k+1)+n = (k+n)+1
        BY <1>2
      <4>5. k # (m-n)-1 => r[k+1] = q[(k+n)+1]
        BY <3>2, <4>4
      <4>6. pNext'[r[k]] = IF k = (m-n)-1 THEN Nil ELSE r[k+1]
        BY <3>10, <4>1, <4>2, <4>3, <4>5
      <4>7. r[k] = FreeAt[n] <=> k = 0
        <5>1. q[k+n] = q[n] <=> k+n = n
          BY <2>2, <3>1, <4>1 DEF ListIs
        <5>2. k+n = n <=> k = 0
          BY <1>2
        <5> QED
          BY <3>6, <4>1, <5>1, <5>2
      <4>8. pPrev'[r[k]] = IF k = 0 THEN Nil ELSE pPrev[r[k]]
        BY <1>4, <4>1, <4>7
      <4>9. pPrev[q[k+n]] = IF k+n = 0 THEN Nil ELSE q[(k+n)-1]
        BY <2>2, <4>1 DEF ListIs
      <4>10. k # 0 => k-1 \in 0..(m-n)-1 /\ (k-1)+n = (k+n)-1 /\ k+n # 0
        BY <1>2
      <4>11. k # 0 => r[k-1] = q[(k+n)-1]
        BY <3>2, <4>10
      <4>12. pPrev'[r[k]] = IF k = 0 THEN Nil ELSE r[k-1]
        BY <4>1, <4>8, <4>9, <4>10, <4>11
      <4> QED
        BY <4>6, <4>12
    <3>12. ListIs(m-n, r)'
      BY <3>1, <3>3, <3>7, <3>8, <3>9, <3>11 DEF ListIs
    <3> QED
      BY <3>1, <3>12
  <2> QED
    BY <1>2, <2>4, <2>5
<1> QED
  BY <1>8, <1>9, <1>10, <1>14, <1>15, <1>16 DEF Inv

-----------------------------------------------------------------------------
(* The other steps *)

LEMMA LeaveKeeps == ASSUME Inv, SvcLeave PROVE Inv'
<1>1. /\ leaving > 0 /\ leaving' = leaving - 1 /\ m_nThreadNum' = m_nThreadNum - 1
      /\ UNCHANGED <<disabled, m_nThreadJob, freelist, impl, thread, client>>
  BY DEF SvcLeave
<1>2. UNCHANGED <<pc, thrd_ptr, thrd_rank, m_pThreads_free, pNext, pPrev, m_nState, m_nAlive,
                  m_bReqExit, cpc, on, old, ops>>
  BY <1>1 DEF freelist, impl, thread, client
<1>3. /\ Started' = Started /\ Working' = Working /\ Idle' = Idle
      /\ \A t \in Thrds : Having(t)' = Having(t)
  BY <1>2 DEF Started, Working, At, Idle, Having
<1>4. Cardinality(Started) \in Nat
  BY AtFinite DEF Started
<1>5. CountInv'
  BY <1>1, <1>2, <1>3, <1>4 DEF Inv, CountInv, TypeOK
<1>6. TypeOK'
  BY <1>1, <1>2, <1>4 DEF Inv, TypeOK, CountInv
<1>7. JobInv' /\ PauseInv' /\ StayInv' /\ AliveCounts'
  BY <1>1, <1>2 DEF Inv, JobInv, PauseInv, StayInv, AliveCounts, ManagerStays
<1>8. ListInv'
  BY <1>2, <1>3 DEF Inv, ListInv, ListIs, ManagerStays
<1> QED
  BY <1>5, <1>6, <1>7, <1>8 DEF Inv

\* Calls and steps of the clients that leave the ThreadImpls alone, or wake them.
Others(c) ==
  \/ \E t \in Thrds : ReqExit(c, t) \/ PauseLoad(c, t) \/ Resume(c, t) \/ Wait(c, t)
  \/ MainReqExit(c) \/ Close(c) \/ ManagerLoad(c)
  \/ ClientStep(c) \/ WaitWakesByItself(c)

LEMMA OthersKeep == ASSUME Inv, NEW c \in Clients, Others(c) PROVE Inv'
<1>1. /\ UNCHANGED <<m_nThreadNum, m_nThreadJob, leaving, freelist, thrd_ptr, thrd_rank, m_nAlive, ops>>
      /\ pc' \in {pc, NotifyAttached}
  BY DEF Others, ReqExit, PauseLoad, Resume, Wait, MainReqExit, Close, ManagerLoad, ClientStep,
     WaitWakesByItself, PauseStore, WaitAgain, ManagerDisable, ManagerDrained, manager, impl,
     thread, client
<1>2. pc \in [Impls -> Labels]
  BY DEF Inv, TypeOK
<1>3. \A i \in Impls : pc'[i] = pc[i] \/ (pc[i] = "parked" /\ pc'[i] = "loop")
  BY <1>1 DEF NotifyAttached
<1>4. pc' \in [Impls -> Labels]
  BY <1>1, <1>2 DEF NotifyAttached, Labels
<1>5. /\ Started' = Started /\ Working' = Working
      /\ \A t \in Thrds : Having(t)' = Having(t)
  BY <1>1, <1>3 DEF Started, Working, At, Having, Labels
<1>6. Idle' = Idle
  BY <1>1, <1>3 DEF Idle
<1>7. CountInv'
  BY <1>1, <1>5 DEF Inv, CountInv
<1>8. JobInv'
  BY <1>1, <1>3 DEF Inv, JobInv
<1>9. AliveCounts'
  BY <1>1 DEF Inv, AliveCounts, ManagerStays
<1>10. ListInv'
  BY <1>1, <1>6 DEF Inv, ListInv, ListIs, ManagerStays, freelist
<1>11. PauseInv'
  BY DEF Inv, TypeOK, PauseInv, Others, ReqExit, PauseLoad, Resume, Wait, MainReqExit, Close, ManagerLoad,
     ClientStep, WaitWakesByItself, PauseStore, WaitAgain, ManagerDisable, ManagerDrained, thread, client
<1>12. StayInv'
  <2> SUFFICES ASSUME ManagerStays
               PROVE  /\ ~disabled'
                      /\ \A x \in Clients : cpc'[x] \notin {"disabling", "draining"}
                      /\ \A i \in Impls : /\ pc'[i] # "delete"
                                          /\ pc'[i] = "enter" => thrd_ptr'[i] # Nil
                                          /\ pc'[i] \in {"none", "put"} => thrd_ptr'[i] = Nil
    BY <1>1 DEF StayInv, ManagerStays
  <2>1. /\ ~disabled /\ \A x \in Clients : cpc[x] \notin {"disabling", "draining"}
        /\ "manager_close" \notin ops[c] /\ "manager_wait" \notin ops[c]
    BY DEF Inv, StayInv, ManagerStays
  <2>2. cpc \in [Clients -> {"idle", "waiting", "recheck", "pausing", "disabling", "draining"}]
    BY DEF Inv, TypeOK
  <2>3. ~disabled' /\ \A x \in Clients : cpc'[x] \notin {"disabling", "draining"}
    BY <2>1, <2>2 DEF Others, ReqExit, PauseLoad, Resume, Wait, MainReqExit, Close, ManagerLoad, Call,
       ClientStep, WaitWakesByItself, PauseStore, WaitAgain, ManagerDisable, ManagerDrained, manager,
       thread, client
  <2>4. \A i \in Impls : /\ pc[i] # "delete"
                         /\ pc[i] = "enter" => thrd_ptr[i] # Nil
                         /\ pc[i] \in {"none", "put"} => thrd_ptr[i] = Nil
    BY DEF Inv, StayInv
  <2>5. \A i \in Impls : /\ pc'[i] # "delete"
                         /\ pc'[i] = "enter" => thrd_ptr'[i] # Nil
                         /\ pc'[i] \in {"none", "put"} => thrd_ptr'[i] = Nil
    BY <1>1, <1>3, <2>4
  <2> QED
    BY <2>3, <2>5
<1>13. TypeOK'
  <2>1. disabled' \in BOOLEAN /\ m_bReqExit' \in BOOLEAN
    BY DEF Inv, TypeOK, Others, ReqExit, PauseLoad, Resume, Wait, MainReqExit, Close, ManagerLoad,
       ClientStep, WaitWakesByItself, PauseStore, WaitAgain, ManagerDisable, ManagerDrained, manager,
       thread, client
  <2>2. m_nState' \in [Thrds -> SUBSET {"PAUSED", "CANCEL"}]
    <3>1. CASE \E t \in Thrds : ReqExit(c, t) \/ Resume(c, t)
      BY <3>1 DEF Inv, TypeOK, ReqExit, Resume
    <3>2. CASE PauseStore(c)
      BY <3>2 DEF Inv, TypeOK, PauseInv, PauseStore
    <3>3. CASE UNCHANGED m_nState
      BY <3>3 DEF Inv, TypeOK
    <3> QED
      BY <3>1, <3>2, <3>3 DEF Others, PauseLoad, Wait, MainReqExit, Close, ManagerLoad, ClientStep,
         WaitWakesByItself, WaitAgain, ManagerDisable, ManagerDrained, thread
  <2>3. /\ cpc' \in [Clients -> {"idle", "waiting", "recheck", "pausing", "disabling", "draining"}]
        /\ on' \in [Clients -> Thrds \cup {Nil}]
    BY DEF Inv, TypeOK, Others, ReqExit, PauseLoad, Resume, Wait, MainReqExit, Close, ManagerLoad,
       ClientStep, WaitWakesByItself, PauseStore, WaitAgain, ManagerDisable, ManagerDrained, client
  <2>4. old' \in [Clients -> SUBSET {"PAUSED", "CANCEL", "DISABLED"}]
    <3>1. old \in [Clients -> SUBSET {"PAUSED", "CANCEL", "DISABLED"}]
      BY DEF Inv, TypeOK
    <3>2. \E v \in SUBSET {"PAUSED", "CANCEL", "DISABLED"} : old' \in {old, [old EXCEPT ![c] = v]}
      BY DEF Inv, TypeOK, Others, ReqExit, PauseLoad, Resume, Wait, MainReqExit, Close, ManagerLoad,
         ClientStep, WaitWakesByItself, PauseStore, WaitAgain, ManagerDisable, ManagerDrained, client
    <3> QED
      BY <3>1, <3>2
  <2> QED
    BY <1>1, <1>4, <2>1, <2>2, <2>3, <2>4 DEF Inv, TypeOK, freelist
<1> QED
  BY <1>7, <1>8, <1>9, <1>10, <1>11, <1>12, <1>13 DEF Inv

LEMMA InvNext == Inv /\ [Next]_vars => Inv'
<1> SUFFICES ASSUME Inv, [Next]_vars PROVE Inv'
  OBVIOUS
<1>1. CASE \E i \in Impls : ImplStep(i) \/ SvcWakesByItself(i)
  BY <1>1, StepsKeepPlaces, StepsKeepCounts, StepsKeepList DEF Inv, Steps
<1>2. CASE SvcLeave
  BY <1>2, LeaveKeeps
<1>3. CASE \E c \in Clients : \E t \in Thrds : \E n \in Sizes : Activate(c, t, n)
  BY <1>3, ActivateKeeps
<1>4. CASE \E c \in Clients : Others(c)
  BY <1>4, OthersKeep
<1>5. CASE UNCHANGED vars
  <2>1. UNCHANGED <<disabled, m_nThreadNum, m_nThreadJob, leaving, m_pThreads_free, pNext, pPrev,
                    thrd_ptr, thrd_rank, pc, m_nState, m_nAlive, m_bReqExit, cpc, on, old, ops>>
    BY <1>5 DEF vars, manager, freelist, impl, thread, client
  <2>2. /\ Started' = Started /\ Working' = Working /\ Idle' = Idle
        /\ \A t \in Thrds : Having(t)' = Having(t)
    BY <2>1 DEF Started, Working, At, Idle, Having
  <2>3. TypeOK' /\ JobInv' /\ PauseInv' /\ StayInv' /\ AliveCounts'
    BY <2>1 DEF Inv, TypeOK, JobInv, PauseInv, StayInv, AliveCounts, ManagerStays
  <2>4. CountInv'
    BY <2>1, <2>2 DEF Inv, CountInv
  <2>5. ListInv'
    BY <2>1, <2>2 DEF Inv, ListInv, ListIs, ManagerStays
  <2> QED
    BY <2>3, <2>4, <2>5 DEF Inv
<1> QED
  BY <1>1, <1>2, <1>3, <1>4, <1>5 DEF Next, ClientCall, Others

THEOREM ManagerInvariant == Spec => []Inv
<1> QED
  BY InvInit, InvNext, PTL DEF Spec

\* The manager's numbers have their types, whatever is taken down; and while it stays, m_nAlive
\* counts the ThreadImpls that have the Thread as their job, and the free list is exactly the
\* idle ThreadImpls, linked both ways (get_thread, put_thread, svc).
THEOREM BooksAlwaysAgree == Spec => []BooksAgree
<1> QED
  BY ManagerInvariant, BooksFollow, PTL

\* The manager's wait() returns when no thread that has started is left: m_nThreadNum is 0 only then.
THEOREM WaitIsDrained == Spec => WaitDrains
<1>1. ASSUME Inv, [Next]_vars, NEW c \in Clients, cpc[c] = "draining", cpc'[c] = "idle"
      PROVE  leaving = 0 /\ \A i \in Impls : pc[i] \in {"none", "enter"}
  <2>1. Drained
    <3>1. cpc \in [Clients -> {"idle", "waiting", "recheck", "pausing", "disabling", "draining"}]
      BY <1>1 DEF Inv, TypeOK
    <3>2. CASE \E i \in Impls : JobDone(i)
      <4>1. PICK i \in Impls : JobDone(i)
        BY <3>2
      <4>2. cpc' \in {cpc, NotifyEmpty(thrd_ptr[i])}
        BY <4>1 DEF JobDone
      <4> QED
        BY <1>1, <4>2 DEF NotifyEmpty
    <3>3. CASE \E i \in Impls : (ImplStep(i) \/ SvcWakesByItself(i)) /\ ~JobDone(i)
      BY <1>1, <3>3 DEF ImplStep, SvcEnter, SvcTake, SvcPark, SvcUnlink, SvcPrelude, SvcReturns,
         PutThread, SvcDelete, SvcWakesByItself, client
    <3>4. CASE SvcLeave \/ UNCHANGED vars
      BY <1>1, <3>4 DEF SvcLeave, vars, client
    <3>5. ASSUME NEW x \in Clients, ClientCall(x)
          PROVE  FALSE
      <4>1. cpc'[c] = cpc[c] \/ (cpc[c] = "idle")
        BY <3>1, <3>5 DEF ClientCall, Call, Activate, ReqExit, PauseLoad, Resume, Wait, MainReqExit, Close,
           ManagerLoad, client
      <4> QED
        BY <1>1, <4>1
    <3>6. ASSUME NEW x \in Clients, ClientStep(x) \/ WaitWakesByItself(x)
          PROVE  Drained
      BY <1>1, <3>1, <3>6 DEF ClientStep, WaitWakesByItself, PauseStore, WaitAgain, ManagerDisable,
         ManagerDrained
    <3> QED
      BY <1>1, <3>2, <3>3, <3>4, <3>5, <3>6 DEF Next
  <2>2. m_nThreadNum = leaving + Cardinality(Started) /\ m_nThreadNum = 0 /\ leaving \in Nat
    BY <1>1, <2>1 DEF Inv, CountInv, TypeOK, Drained
  <2>3. IsFiniteSet(Started) /\ Cardinality(Started) \in Nat
    BY AtFinite DEF Started
  <2>4. leaving = 0 /\ Cardinality(Started) = 0
    BY <2>2, <2>3
  <2>5. Started = {}
    BY <2>3, <2>4, FS_EmptySet
  <2> QED
    BY <1>1, <2>4, <2>5 DEF Started, At, Inv, TypeOK
<1>2. Inv /\ [Next]_vars =>
        [\A c \in Clients : cpc[c] = "draining" /\ cpc'[c] = "idle"
           => leaving = 0 /\ \A i \in Impls : pc[i] \in {"none", "enter"}]_vars
  BY <1>1
<1> QED
  BY <1>2, ManagerInvariant, PTL DEF Spec, WaitDrains
=============================================================================
