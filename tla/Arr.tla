-------------------------------- MODULE Arr --------------------------------
(***************************************************************************)
(* arr_container (inc/vhwd/collection/detail/arr_container.h), under arr_1t *)
(* and arr_xt: the array that grows, and inserts in place when it has room. *)
(*                                                                         *)
(* The memory is a sequence of cells.  A cell is RAW, or holds an object.  *)
(* To construct over an object or to assign to raw memory leaves BAD.      *)
(* A source of elements is a list of another array, or a range of this one *)
(* that is read cell by cell while the operation writes.                   *)
(*                                                                         *)
(* Not modelled: exceptions of constructors and of the allocator.          *)
(***************************************************************************)
EXTENDS Integers, Sequences

CONSTANTS Elems,     \* the elements
          MaxLen,    \* bound: elements in the array
          MaxList    \* bound: elements that come from outside at a time

VARIABLES mem,       \* the cells m_base .. m_end2
          len        \* m_end1 - m_base

arrayVars == <<mem, len>>

RAW == 0
BAD == -1

ASSUME ArrayAssumption == RAW \notin Elems /\ BAD \notin Elems /\ MaxLen \in Nat /\ MaxList \in Nat

ArrayInit == mem = <<>> /\ len = 0

Raw(n) == [i \in 1..n |-> RAW]
Lists == UNION {[1..n -> Elems] : n \in 0..MaxList}

\* Elements from outside, or the n own ones from cell at on.
Sources == {[own |-> FALSE, list |-> l, at |-> 0, n |-> Len(l)] : l \in Lists}
             \cup {[own |-> TRUE, list |-> <<>>, at |-> a, n |-> n] : a \in 1..len, n \in 0..len}
Readable == {x \in Sources : x.own => x.at + x.n - 1 <= len}

\* The i-th element of source x while the memory is m.
Read(m, x, i) == IF x.own THEN m[x.at + i] ELSE x.list[i + 1]
Drop(x, k) == IF x.own THEN [x EXCEPT !.at = @ + k, !.n = @ - k]
              ELSE [x EXCEPT !.list = SubSeq(@, k + 1, Len(@)), !.n = @ - k]
Cells(a) == [own |-> TRUE, list |-> <<>>, at |-> a, n |-> 0]

-----------------------------------------------------------------------------
(* xmem: loops over cells of memory m *)

Made(m, i, e)  == [m EXCEPT ![i] = IF @ = RAW THEN e ELSE BAD]
Given(m, i, e) == [m EXCEPT ![i] = IF @ = RAW THEN BAD ELSE e]

\* The body for 0 .. n-1.
Loop(body(_, _), m, n) ==
  LET after[i \in 0..n] == IF i = 0 THEN m ELSE body(after[i - 1], i - 1) IN after[n]

\* uninitialized_copy_n, copy_n: n elements of x to the cells from to on
Construct(m, x, n, to) == Loop(LAMBDA c, i : Made(c, to + i, Read(c, x, i)), m, n)
Assign(m, x, n, to)    == Loop(LAMBDA c, i : Given(c, to + i, Read(c, x, i)), m, n)
\* *--d2 = *--p2
AssignDown(m, from, n, to) ==
  Loop(LAMBDA c, i : Given(c, to + n - 1 - i, c[from + n - 1 - i]), m, n)
\* uninitialized_fill, fill
ConstructAll(m, e, n, to) == Loop(LAMBDA c, i : Made(c, to + i, e), m, n)
AssignAll(m, e, n, to)    == Loop(LAMBDA c, i : Given(c, to + i, e), m, n)
\* destroy: the cells a .. b
Destroy(m, a, b) == [i \in DOMAIN m |-> IF i \in a..b THEN (IF m[i] = RAW THEN BAD ELSE RAW) ELSE m[i]]

\* sz_helper::gen
gen(n) == IF n < 4 THEN n ELSE n + (n \div 2)

\* _alloc_copy and _clear_and_rawset: the objects s in a new block of cap cells
Fresh(s, cap) == s \o Raw(cap - Len(s))
Own == SubSeq(mem, 1, len)
Taken(x, n) == [i \in 1..n |-> Read(mem, x, i - 1)]

Leaves(m, n) == mem' = m /\ len' = n

-----------------------------------------------------------------------------
\* append(first, count) and _append_gen
Append_(x) ==
  IF Len(mem) - len < x.n
    THEN Leaves(Fresh(Own \o Taken(x, x.n), gen(len + x.n)), len + x.n)
    ELSE Leaves(Construct(mem, x, x.n, len + 1), len + x.n)

\* Mutant of Inside: the check is left out.
InsideNever(x) == FALSE

\* _inside: the first element lies in the block
Inside(x) == x.own

\* insert before cell p: _insert_gen; shifted up by n; or the tail behind the new elements
Grow(p, x) == Leaves(Fresh(SubSeq(Own, 1, p - 1) \o Taken(x, x.n) \o SubSeq(Own, p, len),
                            gen(len + x.n)), len + x.n)
Shift(p, x) ==
  LET dd == len + 1 - (p + x.n)
      m1 == Construct(mem, Cells(p + dd), x.n, len + 1)
      m2 == AssignDown(m1, p, dd, p + x.n)
  IN  Leaves(Assign(m2, x, x.n, p), len + x.n)
Straddle(p, x) ==
  LET k  == len + 1 - p                 \* the objects from p on
      m1 == Construct(mem, Drop(x, k), x.n - k, len + 1)
      m2 == Construct(m1, Cells(p), k, len + 1 + x.n - k)
  IN  Leaves(Assign(m2, x, k, p), len + x.n)

Insert(p, x) ==
  \/ p = len + 1 /\ Append_(x)
  \/ p <= len /\ (Inside(x) \/ Len(mem) - len < x.n) /\ Grow(p, x)
  \/ /\ p <= len /\ ~Inside(x) /\ Len(mem) - len >= x.n
     /\ IF p + x.n <= len + 1 THEN Shift(p, x) ELSE Straddle(p, x)

\* assign(first, count)
AssignRange(x) ==
  \/ Inside(x) /\ Leaves(Taken(x, x.n), x.n)
  \/ /\ ~Inside(x) /\ len >= x.n
     /\ Leaves(Destroy(Assign(mem, x, x.n, 1), x.n + 1, len), x.n)
  \/ /\ ~Inside(x) /\ len < x.n /\ Len(mem) >= x.n
     /\ Leaves(Construct(Assign(mem, x, len, 1), Drop(x, len), x.n - len, len + 1), x.n)
  \/ ~Inside(x) /\ Len(mem) < x.n /\ Leaves(Taken(x, x.n), x.n)

\* assign(count, val)
AssignVal(n, e) ==
  \/ len >= n /\ Leaves(Destroy(AssignAll(mem, e, n, 1), n + 1, len), n)
  \/ len < n /\ Len(mem) >= n
     /\ Leaves(AssignAll(ConstructAll(mem, e, n - len, len + 1), e, len, 1), n)
  \/ Len(mem) < n /\ Leaves([i \in 1..n |-> e], n)

\* resize(count, val) and _resize_gen
Resize(n, e) ==
  \/ len >= n /\ Leaves(Destroy(mem, n + 1, len), n)
  \/ len < n /\ Len(mem) >= n /\ Leaves(ConstructAll(mem, e, n - len, len + 1), n)
  \/ Len(mem) < n /\ Leaves(ConstructAll(Fresh(Own, n), e, n - len, len + 1), n)

\* erase(first, count)
Erase(p, n) == Leaves(Destroy(Assign(mem, Cells(p + n), len + 1 - p - n, p), len + 1 - n, len), len - n)

PopBack == len > 0 /\ Leaves(Destroy(mem, len, len), len - 1)
Clear == Leaves(Destroy(mem, 1, len), 0)
Reserve(n) == Len(mem) < n /\ Leaves(Fresh(Own, n), len)
ShrinkToFit == len # Len(mem) /\ Leaves(Own, len)

ArrayNext ==
  \/ \E x \in Readable, p \in 1..len + 1 : len + x.n <= MaxLen /\ Insert(p, x)
  \/ \E x \in Readable : AssignRange(x)
  \/ \E n \in 0..MaxLen, e \in Elems : AssignVal(n, e) \/ Resize(n, e)
  \/ \E p \in 1..len, n \in 0..len : p + n <= len + 1 /\ Erase(p, n)
  \/ PopBack \/ Clear \/ ShrinkToFit
  \/ \E n \in 1..MaxLen : Reserve(n)

ArraySpec == ArrayInit /\ [][ArrayNext]_arrayVars
-----------------------------------------------------------------------------
(* Each operation leaves the sequence its caller asked for, also when the elements it adds *)
(* are the array's own and are moved or overwritten meanwhile; and the memory holds        *)
(* objects up to m_end1 and none behind it, so that each is constructed and destroyed once. *)
Acts ==
     /\ \A x \in Readable :
          /\ \A p \in 1..len + 1 :
               Insert(p, x) => Own' = SubSeq(Own, 1, p - 1) \o Taken(x, x.n) \o SubSeq(Own, p, len)
          /\ AssignRange(x) => Own' = Taken(x, x.n)
     /\ \A n \in 0..MaxLen, e \in Elems :
          /\ AssignVal(n, e) => Own' = [i \in 1..n |-> e]
          /\ Resize(n, e) => Own' = [i \in 1..n |-> IF i <= len THEN mem[i] ELSE e]
          /\ \A p \in 1..len :
               p + n <= len + 1 /\ Erase(p, n)
                 => Own' = SubSeq(Own, 1, p - 1) \o SubSeq(Own, p + n, len)
     /\ ~(\E i \in DOMAIN mem' : mem'[i] = BAD)
     /\ \A i \in DOMAIN mem' : (mem'[i] = RAW) = (i > len')
ActsOnSequence == [][arrayVars' # arrayVars => Acts]_arrayVars   \* a stutter need not be evaluated
=============================================================================
