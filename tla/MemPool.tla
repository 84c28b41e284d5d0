------------------------------- MODULE MemPool -------------------------------
(***************************************************************************)
(* The paging memory pool (src/vhwd/memory/mempool_paging.cpp, _cached,    *)
(* _pgmap, _slot): sizes are rounded up to one of the FixAllocUnits, each  *)
(* with a slot; a slot cuts spans of SpSize bytes into nodes and lists the *)
(* spans that have free ones.  A thread may keep nodes of its own (tc_init *)
(* gives it a cache, tc_cleanup takes it away); a cache is filled with all *)
(* free nodes of a span and gives half of itself back when it is full.     *)
(* Larger blocks are spans of their own.  A page map finds the span of a   *)
(* pointer.                                                                *)
(*                                                                         *)
(* A critical section of a slot's sl_spin is one step, except that the     *)
(* section stays open over page_alloc, which may collect garbage and       *)
(* try_locks the other slots.  dealloc_batch_nolock from a full cache runs *)
(* without sl_spin: from Overflow to BatchBack.  If another section of the *)
(* slot overlaps with it, two threads write the same list, and the         *)
(* behaviour ends: over = TRUE.                                            *)
(***************************************************************************)
EXTENDS Integers, Sequences, SequencesExt, FiniteSets, FiniteSetsExt

CONSTANTS Threads,
          Pooled,    \* the threads that run tc_init()
          Requests,  \* the sizes that clients ask for
          Asks,      \* Asks[t]: those that client t asks for
          Bases,     \* the addresses that mmap may return
          MaxHeld,   \* bound: MaxHeld[t] blocks of client t
          None

SpSize == 2^20                  \* MpAllocConfig::sp_size
PgSize == 4096
HeaderSize == 64                \* sizeof(MpAllocSpan)

\* SPLIT_UNIT_N
Split(x) == ((2^20 \div x) \div PgSize) * PgSize

FixAllocUnits ==
  << 8, 16, 24, 32, 48, 64, 96, 128, 192, 256, 384, 512, 1024, 2048, 4096, 8192, 16384,
     24576, 32768, 65536, Split(8), Split(6), Split(4), Split(3), Split(2), Split(1) >>

\* MpAllocSlot::init: does a span's header live outside of the span ("fly")?
Flies(s) == LET nd == FixAllocUnits[s]
            IN  nd > 64 /\ SpSize - (SpSize \div nd) * nd < HeaderSize

\* nd_nall, the nodes of a span
NAll(s) == (IF Flies(s) THEN SpSize ELSE SpSize - HeaderSize) \div FixAllocUnits[s]

\* nd_nmax of a cache
CacheMax(s) == Max({4, 2 * NAll(s)})

\* Mutant: the tables are filled by rounding down.
TableRoundsDown(shift, k) ==
  Max({s \in 1..Len(FixAllocUnits) : s = 1 \/ FixAllocUnits[s] \div shift <= k})

\* MpAllocGlobal::init: pSlot1 and pSlot2 at index k, sizes in units of 2^3 and 2^12
Table(shift, k) == Min({s \in 1..Len(FixAllocUnits) : FixAllocUnits[s] \div shift >= k})

\* get_slot(n); 0 where the code returns NULL
Large == 0
SlotOf == [n \in Requests |->
            CASE n <= 4096   -> Table(8, (n + 7) \div 8)
              [] n \in 4097..SpSize -> Table(4096, (n + 4095) \div 4096)
              [] OTHER       -> Large]

Slots == {SlotOf[n] : n \in Requests} \ {Large}

\* alloc_large: whole pages; the header is inside when there is room for it
LargeSize(n) == ((n + PgSize - 1) \div PgSize) * PgSize
LargeFlies(n) == LargeSize(n) - n < HeaderSize

VARIABLES hdr,     \* hdr[b]: the MpAllocSpan whose sp_base is b
          mapped,  \* the bases whose pages are mapped, and hdr[b].bytes how many bytes
          pgmap,   \* pgmap[i]: the base in bucket i
          heads,   \* heads[s]: the chain from sp_head, the spans with free nodes
          spin,    \* spin[s]: who holds sl_spin
          cache,   \* cache[t][s]: MpAllocNodeLink, None without tc_data
          held,    \* the clients' blocks
          at, reg, \* where each thread is, and its locals
          over     \* undefined from here on: two threads in one slot's lists, a write to NULL

pool == <<hdr, mapped, pgmap, heads>>
vars == <<hdr, mapped, pgmap, heads, spin, cache, held, at, reg, over>>

NoSpan == [slot |-> None, size |-> 0, bytes |-> 0, free |-> <<>>, nnum |-> 0]
NoLink == [list |-> <<>>, n |-> 0]
NoReg == [slot |-> Large, size |-> 0, block |-> None, direct |-> FALSE, k |-> 0, whole |-> FALSE]

Buckets == 0 .. Max(Bases) \div SpSize + 1

Init ==
  /\ hdr = [b \in Bases |-> NoSpan]
  /\ mapped = {}
  /\ pgmap = [i \in Buckets |-> None]
  /\ heads = [s \in Slots |-> <<>>]
  /\ spin = [s \in Slots |-> None]
  /\ cache = [t \in Threads |-> None]
  /\ held = [t \in Threads |-> {}]
  /\ at = [t \in Threads |-> "idle"]
  /\ reg = [t \in Threads |-> NoReg]
  /\ over = FALSE

-----------------------------------------------------------------------------
(* The page map. *)

\* find_bucket: the span that begins in the pointer's bucket, else the one that begins in the
\* bucket before it.
Find(map, h, p) ==
  LET i == p \div SpSize
      here == map[i]
      before == IF i = 0 THEN None ELSE map[i - 1]
  IN  CASE here # None /\ p >= here -> here
        [] ~(here # None /\ p >= here) /\ before # None /\ p - before < h[before].size -> before
        [] OTHER -> None

\* mmap finds room for n bytes at b.
Room(b, n) == \A c \in mapped : b + n <= c \/ c + hdr[c].bytes <= b

-----------------------------------------------------------------------------
(* Nodes. *)

\* MpAllocNode::link
NodesOf(b, s) == [i \in 1..NAll(s) |-> b + (i - 1) * FixAllocUnits[s]]

\* create_span_nolock on the pages at b
NewSpan(b, s) ==
  [slot |-> s, size |-> SpSize, bytes |-> SpSize, free |-> NodesOf(b, s), nnum |-> 0]

\* The lists of a pool, as one record that a loop over nodes can carry.
State == [hdr |-> hdr, mapped |-> mapped, pgmap |-> pgmap, heads |-> heads, empty |-> None]
Becomes(st) == hdr' = st.hdr /\ mapped' = st.mapped /\ pgmap' = st.pgmap /\ heads' = st.heads

\* bk.set(NULL), page_free()
Unmapped(st, b) ==
  [st EXCEPT !.hdr[b] = NoSpan, !.mapped = @ \ {b}, !.pgmap[b \div SpSize] = None, !.empty = None]

\* A node p goes back to its span, which is listed when it had no free node and leaves
\* the list when all its nodes are free and another span comes after it (sl_next).
Push(st, s, p) ==
  LET b == Find(st.pgmap, st.hdr, p)
      sp == st.hdr[b]
      list == IF sp.free = <<>> THEN <<b>> \o st.heads[s] ELSE st.heads[s]
      gone == sp.nnum = 1 /\ Last(list) # b
  IN  [st EXCEPT !.hdr[b].free = <<p>> \o @, !.hdr[b].nnum = @ - 1,
                 !.heads[s] = IF gone THEN SelectSeq(list, LAMBDA c : c # b) ELSE list,
                 !.empty = IF gone THEN b ELSE None]

\* dealloc_batch_nolock
PushAll(nodes, s) ==
  FoldLeft(LAMBDA st, p : LET r == Push(st, s, p)
                          IN  IF r.empty = None THEN r ELSE Unmapped(r, r.empty),
           State, nodes)

-----------------------------------------------------------------------------
(* Allocation. *)

Idle(t) == at' = [at EXCEPT ![t] = "idle"] /\ reg' = [reg EXCEPT ![t] = NoReg]
Go(t, l) == at' = [at EXCEPT ![t] = l] /\ UNCHANGED reg
Call(t, l, r) == at' = [at EXCEPT ![t] = l] /\ reg' = [reg EXCEPT ![t] = r]

Batching(s) == {t \in Threads : at[t] = "batch" /\ reg[t].slot = s}

\* sl_spin is free (and nobody is in the lists without it)
Free(s) == spin[s] = None /\ Batching(s) = {}

Busy(t) == ~over /\ at[t] # "idle"
Ready(t) == ~over /\ at[t] = "idle"

\* The call of t answers the block at p; a realloc() still has to give its old block back.
Answer(t, p, n) ==
  /\ held' = [held EXCEPT ![t] = @ \cup {[addr |-> p, size |-> n]}]
  /\ IF reg[t].block = None
     THEN Idle(t)
     ELSE Call(t, "free", [reg[t] EXCEPT !.direct = TRUE])

\* mp_alloc(n): from the cache when it has a node
Malloc(t, n) ==
  LET s == SlotOf[n] IN
  /\ Ready(t)
  /\ Cardinality(held[t]) < MaxHeld[t]
  /\ IF s # Large /\ cache[t] # None /\ cache[t][s].list # <<>>
     THEN /\ cache' = [cache EXCEPT ![t][s] = [list |-> Tail(@.list), n |-> @.n - 1]]
          /\ held' = [held EXCEPT ![t] = @ \cup {[addr |-> Head(cache[t][s].list), size |-> n]}]
          /\ UNCHANGED <<at, reg>>
     ELSE /\ Call(t, IF s = Large THEN "page" ELSE "lock",
                  [NoReg EXCEPT !.slot = s, !.size = n, !.direct = cache[t] = None])
          /\ UNCHANGED <<cache, held>>
  /\ UNCHANGED <<pool, spin, over>>

\* alloc_small takes a node from sp_head; for a cache, alloc_small_batch takes all nodes of
\* the span, and the call the first of them.
Take(t, h, list) ==
  LET s == reg[t].slot
      b == Head(list)
      free == h[b].free
  IN  /\ IF reg[t].direct
         THEN /\ hdr' = [h EXCEPT ![b].free = Tail(@), ![b].nnum = @ + 1]
              /\ heads' = [heads EXCEPT ![s] = IF Tail(free) = <<>> THEN Tail(list) ELSE list]
              /\ UNCHANGED cache
         ELSE /\ hdr' = [h EXCEPT ![b].free = <<>>, ![b].nnum = NAll(s)]
              /\ heads' = [heads EXCEPT ![s] = Tail(list)]
              /\ cache' = [cache EXCEPT ![t][s] =
                            [list |-> Tail(free), n |-> NAll(s) - h[b].nnum - 1]]
      /\ Answer(t, Head(free), reg[t].size)

\* sl_spin.lock(); without a span the section stays open over page_alloc
AllocLock(t) ==
  LET s == reg[t].slot IN
  /\ Busy(t) /\ at[t] = "lock"
  /\ Free(s)
  /\ IF heads[s] # <<>>
     THEN Take(t, hdr, heads[s]) /\ UNCHANGED spin
     ELSE /\ spin' = [spin EXCEPT ![s] = t]
          /\ Go(t, "page")
          /\ UNCHANGED <<hdr, heads, cache, held>>
  /\ UNCHANGED <<mapped, pgmap, over>>

PagesWanted(t) == IF reg[t].slot = Large THEN LargeSize(reg[t].size) ELSE SpSize

\* alloc_large and create_span_nolock, when page_alloc succeeds at once or after gc()
PageAlloc(t) ==
  LET s == reg[t].slot
      n == reg[t].size
  IN
  /\ Busy(t) /\ at[t] \in {"page", "retry"}
  /\ \E b \in Bases :
       /\ Room(b, PagesWanted(t))
       /\ mapped' = mapped \cup {b}
       /\ pgmap' = [pgmap EXCEPT ![b \div SpSize] = b]
       /\ IF s = Large
          THEN /\ hdr' = [hdr EXCEPT ![b] =
                    [NoSpan EXCEPT !.slot = Large, !.bytes = LargeSize(n),
                       !.size = LargeSize(n) - (IF LargeFlies(n) THEN 0 ELSE HeaderSize)]]
               /\ Answer(t, b, n)
               /\ UNCHANGED <<heads, cache, spin>>
          ELSE /\ Take(t, [hdr EXCEPT ![b] = NewSpan(b, s)], <<b>>)
               /\ spin' = [spin EXCEPT ![s] = None]
  /\ UNCHANGED over

NoRoom(t) == \A b \in Bases : ~Room(b, PagesWanted(t))

\* page_alloc failed: gc()
PageFails(t) ==
  /\ Busy(t) /\ at[t] = "page" /\ NoRoom(t)
  /\ Call(t, "tc_gc", [reg[t] EXCEPT !.k = Min(Slots), !.whole = TRUE])
  /\ UNCHANGED <<pool, spin, cache, held, over>>

\* It failed again: NULL.  A small allocation unlocks and returns NULL; alloc_large writes its
\* header through the NULL (the process dies).
RetryFails(t) ==
  /\ Busy(t) /\ at[t] = "retry" /\ NoRoom(t)
  /\ IF reg[t].slot = Large
     THEN over' = TRUE /\ UNCHANGED <<at, reg, spin>>
     ELSE Idle(t) /\ spin' = [spin EXCEPT ![reg[t].slot] = None] /\ UNCHANGED over
  /\ UNCHANGED <<pool, cache, held>>

-----------------------------------------------------------------------------
(* Garbage collection of the pool: the caller's cache, then the empty spans of each slot. *)

NextSlot(t) == {s \in Slots : s > reg[t].k}

\* tc_gc, slot k: try_lock, dealloc_batch_nolock of the whole cache
GcCache(t) ==
  LET s == reg[t].k IN
  /\ Busy(t) /\ at[t] = "tc_gc"
  /\ spin[s] # None \/ Free(s)
  /\ IF cache[t] # None /\ spin[s] = None
     THEN /\ Becomes(PushAll(SubSeq(cache[t][s].list, 1, cache[t][s].n), s))
          /\ cache' = [cache EXCEPT ![t][s] = NoLink]
     ELSE UNCHANGED <<pool, cache>>
  /\ IF NextSlot(t) # {}
     THEN Call(t, "tc_gc", [reg[t] EXCEPT !.k = Min(NextSlot(t))])
     ELSE IF reg[t].whole THEN Call(t, "gc", [reg[t] EXCEPT !.k = Min(Slots)]) ELSE Idle(t)
  /\ UNCHANGED <<spin, held, over>>

\* MpAllocGlobal::gc, slot k: try_lock, the empty spans leave the list
GcSlot(t) ==
  LET s == reg[t].k
      empty == {b \in ToSet(heads[s]) : hdr[b].nnum = 0}
  IN
  /\ Busy(t) /\ at[t] = "gc"
  /\ spin[s] # None \/ Free(s)
  /\ IF spin[s] = None
     THEN Becomes(FoldSet(LAMBDA b, st : Unmapped(st, b),
                          [State EXCEPT !.heads[s] = SelectSeq(@, LAMBDA b : b \notin empty)], empty))
     ELSE UNCHANGED pool
  /\ IF NextSlot(t) # {}
     THEN Call(t, "gc", [reg[t] EXCEPT !.k = Min(NextSlot(t))])
     ELSE Call(t, "retry", [reg[t] EXCEPT !.k = 0])
  /\ UNCHANGED <<spin, cache, held, over>>

\* A thread without a job gives its cache back (ThreadImpl::svc).
Park(t) ==
  /\ Ready(t) /\ cache[t] # None
  /\ Call(t, "tc_gc", [NoReg EXCEPT !.k = Min(Slots)])
  /\ UNCHANGED <<pool, spin, cache, held, over>>

-----------------------------------------------------------------------------
(* Deallocation. *)

\* mp_free(p): to the cache, to the slot, or the span itself when it is a large one
Release(t, blk) ==
  LET b == Find(pgmap, hdr, blk.addr)
      s == hdr[b].slot
      n == cache[t][s].n + 1
  IN
  /\ Ready(t)
  /\ held' = [held EXCEPT ![t] = @ \ {blk}]
  /\ IF s = Large
     THEN Call(t, "unmap", [NoReg EXCEPT !.block = b]) /\ UNCHANGED cache
     ELSE IF cache[t] = None
     THEN /\ Call(t, "free", [NoReg EXCEPT !.slot = s, !.block = blk.addr])
          /\ UNCHANGED cache
     ELSE /\ cache' = [cache EXCEPT ![t][s] = [list |-> <<blk.addr>> \o @.list, n |-> n]]
          /\ IF n > CacheMax(s)
             THEN Call(t, "overflow", [NoReg EXCEPT !.slot = s, !.k = n \div 2])
             ELSE UNCHANGED <<at, reg>>
  /\ UNCHANGED <<pool, spin, over>>

\* dealloc_real of a node: sl_spin, the span that became empty is unmapped after the section.
\* The old block of a realloc() leaves its client here.
FreeLock(t) ==
  LET s == hdr[Find(pgmap, hdr, reg[t].block)].slot
      st == Push(State, s, reg[t].block)
  IN
  /\ Busy(t) /\ at[t] = "free" /\ s # Large
  /\ Free(s)
  /\ Becomes([st EXCEPT !.empty = None])
  /\ IF st.empty = None THEN Idle(t) ELSE Call(t, "unmap", [NoReg EXCEPT !.block = st.empty])
  /\ held' = [held EXCEPT ![t] = {c \in @ : c.addr # reg[t].block}]
  /\ UNCHANGED <<spin, cache, over>>

\* dealloc_real of a large block after a realloc()
FreeLarge(t) ==
  LET b == Find(pgmap, hdr, reg[t].block) IN
  /\ Busy(t) /\ at[t] = "free" /\ hdr[b].slot = Large
  /\ Call(t, "unmap", [NoReg EXCEPT !.block = b])
  /\ held' = [held EXCEPT ![t] = {c \in @ : c.addr # reg[t].block}]
  /\ UNCHANGED <<pool, spin, cache, over>>

\* bk.set(NULL) ...
Unmap(t) ==
  /\ Busy(t) /\ at[t] = "unmap"
  /\ pgmap' = [pgmap EXCEPT ![reg[t].block \div SpSize] = None]
  /\ Go(t, "pages")
  /\ UNCHANGED <<hdr, mapped, heads, spin, cache, held, over>>

\* ... and page_free(), after which mmap may return the pages to another thread
PageFree(t) ==
  /\ Busy(t) /\ at[t] = "pages"
  /\ mapped' = mapped \ {reg[t].block}
  /\ hdr' = [hdr EXCEPT ![reg[t].block] = NoSpan]
  /\ Idle(t)
  /\ UNCHANGED <<pgmap, heads, spin, cache, held, over>>

\* A full cache enters dealloc_batch_nolock, without sl_spin ...
Overflow(t) ==
  /\ Busy(t) /\ at[t] = "overflow" /\ Free(reg[t].slot)
  /\ Go(t, "batch")
  /\ UNCHANGED <<pool, spin, cache, held, over>>

\* Mutant: the cache keeps the nodes it has given back, the count does not.
BatchBackKeeps(t) ==
  LET s == reg[t].slot IN
  /\ Busy(t) /\ at[t] = "batch"
  /\ Becomes(PushAll(SubSeq(cache[t][s].list, 1, reg[t].k), s))
  /\ cache' = [cache EXCEPT ![t][s].n = @ - reg[t].k]
  /\ Idle(t)
  /\ UNCHANGED <<spin, held, over>>

\* ... and gives half of its nodes back.
BatchBack(t) ==
  LET s == reg[t].slot
      k == reg[t].k
  IN
  /\ Busy(t) /\ at[t] = "batch"
  /\ Becomes(PushAll(SubSeq(cache[t][s].list, 1, k), s))
  /\ cache' = [cache EXCEPT ![t][s] = [list |-> SubSeq(@.list, k + 1, Len(@.list)), n |-> @.n - k]]
  /\ Idle(t)
  /\ UNCHANGED <<spin, held, over>>

\* The slot that the next step of t works on
SlotAt(t) == CASE at[t] \in {"lock", "overflow"} -> {reg[t].slot}
               [] at[t] = "free" -> {hdr[Find(pgmap, hdr, reg[t].block)].slot} \ {Large}
               [] at[t] \in {"tc_gc", "gc", "cleanup"} -> {reg[t].k}
               [] OTHER -> {}

\* A thread enters the lists of a slot that another one works on without sl_spin, or enters
\* them without sl_spin itself while another one has it.
Collide(t) ==
  /\ Busy(t)
  /\ \E s \in SlotAt(t) : \/ spin[s] = None /\ Batching(s) # {}
                          \/ at[t] = "overflow" /\ spin[s] # None
  /\ over' = TRUE
  /\ UNCHANGED <<pool, spin, cache, held, at, reg>>

-----------------------------------------------------------------------------
(* realloc, and caches that come and go. *)

\* realloc_real: how many bytes the block has now
Usable(b) == LET sp == hdr[b]
             IN  IF sp.slot # Large THEN FixAllocUnits[sp.slot]
                 ELSE IF sp.size = sp.bytes THEN sp.size - HeaderSize ELSE sp.size

\* mp_realloc(p,n) to a larger size: in place, or to a block of the global pool
Realloc(t, blk, n) ==
  /\ Ready(t) /\ n > blk.size
  /\ IF n <= Usable(Find(pgmap, hdr, blk.addr))
     THEN /\ held' = [held EXCEPT ![t] = (@ \ {blk}) \cup {[blk EXCEPT !.size = n]}]
          /\ UNCHANGED <<at, reg>>
     ELSE /\ Call(t, IF SlotOf[n] = Large THEN "page" ELSE "lock",
                  [NoReg EXCEPT !.slot = SlotOf[n], !.size = n, !.direct = TRUE, !.block = blk.addr])
          /\ UNCHANGED held
  /\ UNCHANGED <<pool, spin, cache, over>>

\* tc_init
TcInit(t) ==
  /\ Ready(t) /\ t \in Pooled /\ cache[t] = None
  /\ cache' = [cache EXCEPT ![t] = [s \in Slots |-> NoLink]]
  /\ UNCHANGED <<pool, spin, held, at, reg, over>>

\* tc_cleanup
TcCleanup(t) ==
  /\ Ready(t) /\ cache[t] # None
  /\ Call(t, "cleanup", [NoReg EXCEPT !.k = Min(Slots)])
  /\ UNCHANGED <<pool, spin, cache, held, over>>

\* MpAllocCachedNoLock::cleanup, slot k, under sl_spin
CleanupSlot(t) ==
  LET s == reg[t].k IN
  /\ Busy(t) /\ at[t] = "cleanup" /\ Free(s)
  /\ Becomes(PushAll(SubSeq(cache[t][s].list, 1, cache[t][s].n), s))
  /\ IF NextSlot(t) # {}
     THEN /\ Call(t, "cleanup", [reg[t] EXCEPT !.k = Min(NextSlot(t))])
          /\ cache' = [cache EXCEPT ![t][s] = NoLink]
     ELSE Idle(t) /\ cache' = [cache EXCEPT ![t] = None]
  /\ UNCHANGED <<spin, held, over>>

Step(t) == \/ AllocLock(t) \/ PageAlloc(t) \/ PageFails(t) \/ RetryFails(t)
           \/ GcCache(t) \/ GcSlot(t) \/ FreeLock(t) \/ FreeLarge(t) \/ Unmap(t) \/ PageFree(t)
           \/ Overflow(t) \/ BatchBack(t) \/ CleanupSlot(t) \/ Collide(t)

Client(t) == \/ \E n \in Asks[t] : Malloc(t, n) \/ \E blk \in held[t] : Realloc(t, blk, n)
             \/ \E blk \in held[t] : Release(t, blk)
             \/ Park(t) \/ TcInit(t) \/ TcCleanup(t)

Next == \E t \in Threads : Step(t) \/ Client(t)

Spec == Init /\ [][Next]_vars

-----------------------------------------------------------------------------
(* What should hold. *)

TypeOK ==
  /\ mapped \subseteq Bases
  /\ \A b \in Bases : hdr[b].nnum \in 0..(SpSize \div 8) /\ (hdr[b].slot # None <=> b \in mapped)
  /\ \A i \in Buckets : pgmap[i] \in mapped \cup {None}
  /\ \A s \in Slots : spin[s] \in Threads \cup {None} /\ ToSet(heads[s]) \subseteq mapped
  /\ over \in BOOLEAN

\* The addresses that a client uses, or is giving back
InUse(t) == {blk.addr : blk \in held[t]} \cup (IF at[t] = "free" THEN {reg[t].block} ELSE {})
Caching == {t \in Threads : cache[t] # None}
Occurrences(list, p) == {i \in DOMAIN list : list[i] = p}

\* No node is lost and none is in two places, whatever caches, batches and collections
\* have moved: a node is with one client, or once in one cache, or once free in its span.
NothingLost ==
  \A b \in {c \in mapped : hdr[c].slot \in Slots} : \A p \in ToSet(NodesOf(b, hdr[b].slot)) :
    1 = Cardinality({t \in Threads : p \in InUse(t)})
        + Cardinality(UNION {{t} \X Occurrences(cache[t][hdr[b].slot].list, p) : t \in Caching})
        + Cardinality(Occurrences(hdr[b].free, p))

\* The counts that the code keeps beside its chains (nd_nnum of spans and caches) agree with
\* them, and sp_head chains the spans that have free nodes: alloc_small_batch computes the
\* size of a cache from one, dealloc_batch_nolock walks by the other.
CountsAgree ==
  /\ \A b \in {c \in mapped : hdr[c].slot \in Slots} :
       LET unmapping == \E t \in Threads : at[t] \in {"unmap", "pages"} /\ reg[t].block = b
       IN  /\ hdr[b].nnum = NAll(hdr[b].slot) - Len(hdr[b].free)
           /\ ~unmapping => (hdr[b].free # <<>> <=> b \in ToSet(heads[hdr[b].slot]))
  /\ \A t \in Caching : \A s \in Slots : cache[t][s].n = Len(cache[t][s].list)
  /\ \A s \in Slots : IsInjective(heads[s])

\* A slot keeps at most one span that nobody uses, the last one of its chain.
OneEmptySpan ==
  \A s \in Slots : \A i \in DOMAIN heads[s] : hdr[heads[s][i]].nnum = 0 => i = Len(heads[s])

\* find_bucket finds the span of every address in a block that is in use, however spans
\* lie across buckets; a pointer it does not find would go to ::free().
FindsItsSpan ==
  \A t \in Threads : \A blk \in held[t] :
    LET b == Find(pgmap, hdr, blk.addr)
    IN  b \in mapped /\ blk.addr >= b /\ blk.addr + blk.size <= b + hdr[b].size

\* Blocks have the size that was asked for and do not overlap.
Addresses == UNION {ToSet(NodesOf(b, s)) : b \in Bases, s \in Slots} \cup Bases
Heap == INSTANCE Allocator WITH Sizes <- Requests
ImplementsAllocator == Heap!Spec
=============================================================================
