------------------------------- MODULE BstTree -------------------------------
(***************************************************************************)
(* bst_tree with its two policies, rbt_trait and avl_trait                 *)
(* (inc/vhwd/collection/detail): insertion, removal, search and iteration  *)
(* of bst_set and bst_map, and of their multi variants.                    *)
(*                                                                         *)
(* A tree is a record of functions on nodes.  The code writes everything   *)
(* twice, for child1 and for child2; here a side s is 1 or 2 and 3-s is    *)
(* the other one.  Addresses are only compared for equality, so after each *)
(* call the nodes are renamed by their rank.                               *)
(***************************************************************************)
EXTENDS Integers, Sequences, SequencesExt, FiniteSets, FiniteSetsExt

CONSTANTS Policies,   \* a subset of {"rbt", "avl"}
          Keys,       \* Keys[m]: the keys of the sets (m = FALSE) and of the bags (m = TRUE)
          Vals,       \* Vals[m]: the mapped values
          MaxSize     \* bound: the nodes

VARIABLES policy, multi, tree

vars == <<policy, multi, tree>>

Nodes == 1..MaxSize + 1         \* the last one is the node that an insertion at the bound needs
NULL == 0
Sides == {1, 2}

EmptyTree == [root |-> NULL, size |-> 0,
              up   |-> [n \in Nodes |-> NULL],
              kid  |-> [n \in Nodes |-> <<NULL, NULL>>],
              ex   |-> [n \in Nodes |-> 0],
              item |-> [n \in Nodes |-> <<>>]]

Init == policy \in Policies /\ multi \in BOOLEAN /\ tree = EmptyTree

Key(t, n) == t.item[n][1]

-----------------------------------------------------------------------------
(* Nodes and rotations. *)

\* set_child1, set_child2
Hang(t, p, s, c) ==
  [t EXCEPT !.kid[p][s] = c, !.up = IF c = NULL THEN @ ELSE [@ EXCEPT ![c] = p]]

Side(t, p, n) == IF t.kid[p][1] = n THEN 1 ELSE 2

\* new takes the place of old under p, or as the root
Place(t, p, old, new) ==
  IF p # NULL THEN Hang(t, p, Side(t, p, old), new)
  ELSE [t EXCEPT !.root = new, !.up = IF new = NULL THEN @ ELSE [@ EXCEPT ![new] = NULL]]

\* rotate_right (s = 1), rotate_left (s = 2): the child of p on side s comes up
Rotate(t, p, s) ==
  LET n == t.kid[p][s]
  IN  Place(Hang(Hang(t, p, s, t.kid[n][3 - s]), n, 3 - s, p), t.up[p], p, n)

RECURSIVE Edge(_, _, _)
\* nd_min (s = 1), nd_max (s = 2)
Edge(t, n, s) == IF n = NULL \/ t.kid[n][s] = NULL THEN n ELSE Edge(t, t.kid[n][s], s)

RECURSIVE ClimbFrom(_, _, _)
ClimbFrom(t, n, s) ==
  LET p == t.up[n]
  IN  IF p = NULL \/ t.kid[p][3 - s] = n THEN p ELSE ClimbFrom(t, p, s)

\* nd_inc (s = 2), nd_dec (s = 1)
Step(t, n, s) == IF t.kid[n][s] # NULL THEN Edge(t, t.kid[n][s], 3 - s) ELSE ClimbFrom(t, n, s)

\* operator++ and --, and reset to the other end from end()
RECURSIVE WalkFrom(_, _, _)
WalkFrom(t, n, s) == IF n = NULL THEN <<>> ELSE <<n>> \o WalkFrom(t, Step(t, n, s), s)
Walk(t, s) == WalkFrom(t, Edge(t, t.root, 3 - s), s)

-----------------------------------------------------------------------------
(* rbt_tree_policy.h *)

Red == 0
Black == 1
IsRed(t, n) == n # NULL /\ t.ex[n] = Red
Paint(t, n, c) == IF n = NULL THEN t ELSE [t EXCEPT !.ex[n] = c]

\* Mutant: the bent case is left out.
RbtRotateStraight(t, p, n) ==
  LET g == t.up[p]
  IN  Rotate(Paint(Paint(t, p, Black), g, Red), g, Side(t, g, p))

\* adjust_insert_case4, case5
RbtRotate(t, p, n) ==
  LET g == t.up[p]
      s == Side(t, g, p)
      bent == t.kid[p][3 - s] = n
      u == IF bent THEN Rotate(t, p, 3 - s) ELSE t
      q == IF bent THEN n ELSE p
  IN  Rotate(Paint(Paint(u, q, Black), g, Red), g, s)

RECURSIVE RbtInsert(_, _)
\* adjust_insert_case1 .. case3
RbtInsert(t, n) ==
  LET p == t.up[n]
      g == t.up[p]
  IN  IF p = NULL THEN Paint([t EXCEPT !.root = n], n, Black)
      ELSE IF ~IsRed(t, p) THEN t
      ELSE IF \A s \in Sides : IsRed(t, t.kid[g][s])
      THEN RbtInsert(Paint(Paint(Paint(t, t.kid[g][1], Black), t.kid[g][2], Black), g, Red), g)
      ELSE RbtRotate(t, p, n)

\* adjust_delete_case5, case6: below p, the side of the sibling m has a red child
RbtBorrow(t, p, m) ==
  LET d == Side(t, p, m)
      near == t.kid[m][3 - d]
      bent == ~IsRed(t, t.kid[m][d]) /\ IsRed(t, near)
      u == IF bent THEN Rotate(Paint(Paint(t, m, Red), near, Black), m, 3 - d) ELSE t
      q == u.kid[p][d]
      painted == Paint(Paint(Paint(u, q, u.ex[p]), p, Black), u.kid[q][d], Black)
  IN  Rotate(painted, p, d)

RECURSIVE RbtLighter(_, _, _)
\* adjust_delete_case1 .. case4: the side of p that is not m has lost a black node
RbtLighter(t, p, m) ==
  LET d == Side(t, p, m)
      u == IF IsRed(t, m) THEN Rotate(Paint(Paint(t, m, Black), p, Red), p, d) ELSE t
      q == u.kid[p][d]
      g == u.up[p]
  IN  IF \E s \in Sides : IsRed(u, u.kid[q][s]) THEN RbtBorrow(u, p, q)
      ELSE IF IsRed(u, p) THEN Paint(Paint(u, q, Red), p, Black)
      ELSE IF g = NULL THEN Paint(u, q, Red)
      ELSE RbtLighter(Paint(u, q, Red), g, u.kid[g][3 - Side(u, g, p)])

\* delete_one_child
RbtUnlink(t, n) ==
  LET c == IF t.kid[n][1] # NULL THEN t.kid[n][1] ELSE t.kid[n][2]
      p == t.up[n]
      u == Place(t, p, n, c)
  IN  CASE p = NULL                  -> Paint(u, c, Black)
        [] p # NULL /\ IsRed(t, n)   -> u
        [] p # NULL /\ ~IsRed(t, n) /\ IsRed(t, c) -> Paint(u, c, Black)
        [] OTHER -> RbtLighter(u, p, t.kid[p][3 - Side(t, p, n)])

-----------------------------------------------------------------------------
(* avl_tree_policy.h: extra is the depth of child1 less the depth of child2. *)

Sign(s) == IF s = 1 THEN 1 ELSE -1

RECURSIVE AvlShrunk(_, _)

\* handle_unblance_gt (s = 1), handle_unblance_lt (s = 2)
AvlUnblance(t, p, s, del) ==
  LET n == t.kid[p][s]
      x == t.kid[n][3 - s]
      f == t.ex[n]
      fx == t.ex[x]
      outer == f * Sign(s) >= 0
      single == [Rotate(t, p, s) EXCEPT !.ex[n] = f - Sign(s), !.ex[p] = Sign(s) - f]
      double == [Rotate(Rotate(t, n, 3 - s), p, s)
                   EXCEPT !.ex[n] = IF fx * Sign(s) >= 0 THEN 0 ELSE -fx,
                          !.ex[p] = IF fx * Sign(s) >= 0 THEN -fx ELSE 0, !.ex[x] = 0]
  IN  CASE outer /\ del /\ f = Sign(s) -> AvlShrunk(single, n)
        [] outer /\ ~(del /\ f = Sign(s)) -> single
        [] ~outer /\ del -> AvlShrunk(double, x)
        [] OTHER -> double

\* blance_child1, blance_child2: side s of n has become shorter
AvlLowered(t, n, s) ==
  LET f == t.ex[n] - Sign(s)
      u == [t EXCEPT !.ex[n] = f]
  IN  CASE f = -Sign(s)     -> u
        [] f = -2 * Sign(s) -> AvlUnblance(u, n, 3 - s, TRUE)
        [] OTHER            -> AvlShrunk(u, n)

\* blance_parent
AvlShrunk(t, n) ==
  LET p == t.up[n] IN IF p = NULL THEN t ELSE AvlLowered(t, p, Side(t, p, n))

RECURSIVE AvlInsert(_, _)
\* adjust_insert
AvlInsert(t, n) ==
  LET p == t.up[n]
      s == Side(t, p, n)
      f == t.ex[p] + Sign(s)
      u == [t EXCEPT !.ex[p] = f]
  IN  CASE p = NULL -> [t EXCEPT !.root = n]
        [] p # NULL /\ f = 0 -> u
        [] p # NULL /\ f = 2 * Sign(s) -> AvlUnblance(u, p, s, FALSE)
        [] OTHER -> AvlInsert(u, p)

\* delete_one_child
AvlUnlink(t, n) ==
  LET c == IF t.kid[n][1] # NULL THEN t.kid[n][1] ELSE t.kid[n][2]
      p == t.up[n]
      u == Place(t, p, n, c)
  IN  IF p = NULL THEN u ELSE AvlLowered(u, p, Side(t, p, n))

-----------------------------------------------------------------------------
(* Searches: handle_real finds a node with the key, or the place for one. *)

RECURSIVE Seek(_, _, _)
Seek(t, n, k) ==
  LET s == IF k < Key(t, n) THEN 1 ELSE 2
  IN  CASE k = Key(t, n) -> [node |-> n, side |-> 0]
        [] k # Key(t, n) /\ t.kid[n][s] = NULL -> [node |-> n, side |-> s]
        [] OTHER -> Seek(t, t.kid[n][s], k)

Find(t, k) == LET r == Seek(t, t.root, k)
              IN  IF t.root = NULL \/ r.side # 0 THEN NULL ELSE r.node

RECURSIVE MultiPlace(_, _, _)
\* fp_insert_pair::handle_multi
MultiPlace(t, n, k) ==
  LET s == IF k < Key(t, n) THEN 1 ELSE 2
  IN  IF t.kid[n][s] = NULL THEN [node |-> n, side |-> s] ELSE MultiPlace(t, t.kid[n][s], k)

RECURSIVE MultiBound(_, _, _, _)
\* fp_lower_bound::handle_multi (upper FALSE), fp_upper_bound::handle_multi (upper TRUE)
MultiBound(t, n, k, upper) ==
  LET right == IF upper THEN k >= Key(t, n) ELSE Key(t, n) < k
      c == t.kid[n][IF right THEN 2 ELSE 1]
  IN  CASE c # NULL          -> MultiBound(t, c, k, upper)
        [] c = NULL /\ right -> Step(t, n, 2)
        [] OTHER             -> n

\* fp_lower_bound, fp_upper_bound
Bound(t, k, upper) ==
  LET r == Seek(t, t.root, k)
  IN  CASE t.root = NULL              -> NULL
        [] t.root # NULL /\ r.side = 1 -> r.node
        [] t.root # NULL /\ r.side = 2 -> Step(t, r.node, 2)
        [] OTHER -> IF multi THEN MultiBound(t, r.node, k, upper)
                    ELSE IF upper THEN Step(t, r.node, 2) ELSE r.node

\* fp_equal_range
EqualRange(t, k) == <<Bound(t, k, FALSE), Bound(t, k, TRUE)>>

-----------------------------------------------------------------------------
(* Insertion and removal. *)

Adjusted(t, n) == IF policy = "rbt" THEN RbtInsert(t, n) ELSE AvlInsert(t, n)

\* fp_insert_pair, fp_insert_node
Inserted(t, k, v) ==
  LET n == Min({m \in Nodes : t.item[m] = <<>>})
      r == IF multi THEN MultiPlace(t, Seek(t, t.root, k).node, k) ELSE Seek(t, t.root, k)
      u == [t EXCEPT !.item[n] = <<k, v>>, !.ex[n] = 0, !.size = @ + 1]
  IN  CASE t.root = NULL -> Adjusted(u, n)
        [] t.root # NULL /\ r.side = 0 -> t
        [] OTHER -> Adjusted(Hang(u, r.node, r.side, n), n)

\* do_erase_swap_node0: n and x, which is further down, change places
SwapFar(t, n, x) ==
  LET p == t.up[n]
      q == t.up[x]
      a == IF p = NULL THEN [t EXCEPT !.root = x] ELSE [t EXCEPT !.kid[p][Side(t, p, n)] = x]
      b == [a EXCEPT !.kid[q][Side(a, q, x)] = n]
      c == [b EXCEPT !.up = [m \in Nodes |-> CASE m \in {b.kid[n][s] : s \in Sides} -> x
                                               [] m \in {b.kid[x][s] : s \in Sides} -> n
                                               [] OTHER -> @[m]]]
  IN  [c EXCEPT !.up[n] = c.up[x], !.up[x] = c.up[n], !.kid[n] = c.kid[x], !.kid[x] = c.kid[n]]

\* do_erase_swap_node1, do_erase_swap_node2: x is the child of n on side s
SwapNear(t, n, x, s) ==
  LET a == Place(t, t.up[n], n, x)
      b == Hang(a, x, 3 - s, t.kid[n][3 - s])
      c == Hang([b EXCEPT !.kid[n][3 - s] = NULL], n, s, t.kid[x][s])
  IN  Hang(c, x, s, n)

\* do_erase_swap_node: the extras change places too
Swapped(t, n, x) ==
  LET e == [t EXCEPT !.ex[n] = t.ex[x], !.ex[x] = t.ex[n]]
  IN  IF \E s \in Sides : t.kid[n][s] = x THEN SwapNear(e, n, x, Side(t, n, x)) ELSE SwapFar(e, n, x)

\* do_erase: n leaves with at most one child
Erased(t, n) ==
  LET u == IF \E s \in Sides : t.kid[n][s] = NULL THEN t
           ELSE Swapped(t, n, Edge(t, t.kid[n][1], 2))
      w == IF policy = "rbt" THEN RbtUnlink(u, n) ELSE AvlUnlink(u, n)
  IN  [w EXCEPT !.size = @ - 1, !.item[n] = <<>>, !.up[n] = NULL, !.kid[n] = <<NULL, NULL>>, !.ex[n] = 0]

RECURSIVE ErasedBeside(_, _, _)
\* fp_erase::handle_multi: the neighbours of n that have its key
ErasedBeside(t, n, s) ==
  LET x == Step(t, n, s)
  IN  IF x = NULL \/ Key(t, x) # Key(t, n) THEN t ELSE ErasedBeside(Erased(t, x), n, s)

ErasedKey(t, k) ==
  LET n == Find(t, k)
  IN  CASE n = NULL            -> t
        [] n # NULL /\ ~multi  -> Erased(t, n)
        [] OTHER               -> Erased(ErasedBeside(ErasedBeside(t, n, 2), n, 1), n)

RECURSIVE ErasedRange(_, _, _)
\* erase(p1, p2)
ErasedRange(t, n, last) == IF n = last THEN t ELSE ErasedRange(Erased(t, n), Step(t, n, 2), last)

-----------------------------------------------------------------------------
(* The calls. *)

\* The nodes are named by their rank.
Renamed(t) ==
  LET w == Walk(t, 2)
      rank == [n \in Nodes \cup {NULL} |-> IF \E i \in DOMAIN w : w[i] = n
                                          THEN CHOOSE i \in DOMAIN w : w[i] = n ELSE NULL]
      Moved(F(_), none) == [i \in Nodes |-> IF i \in DOMAIN w THEN F(w[i]) ELSE none]
  IN  [root |-> rank[t.root], size |-> t.size,
       ex   |-> Moved(LAMBDA n : t.ex[n], 0),
       item |-> Moved(LAMBDA n : t.item[n], <<>>),
       up   |-> Moved(LAMBDA n : rank[t.up[n]], NULL),
       kid  |-> Moved(LAMBDA n : <<rank[t.kid[n][1]], rank[t.kid[n][2]]>>, <<NULL, NULL>>)]

Items == SubSeq(tree.item, 1, tree.size)

Does(t) == tree' = Renamed(t) /\ UNCHANGED <<policy, multi>>

Insert(k, v) == tree.size < MaxSize /\ Does(Inserted(tree, k, v))
EraseKey(k) == Does(ErasedKey(tree, k))
EraseRange == \E i \in 1..tree.size, j \in 1..tree.size + 1 :
                i < j /\ Does(ErasedRange(tree, i, IF j > tree.size THEN NULL ELSE j))
Clear == Does(EmptyTree)

Next == \/ \E k \in Keys[multi], v \in Vals[multi] : Insert(k, v)
        \/ \E k \in Keys[multi] : EraseKey(k)
        \/ EraseRange \/ Clear

Spec == Init /\ [][Next]_vars

-----------------------------------------------------------------------------
(* What should hold. *)

Present == {n \in Nodes : tree.item[n] # <<>>}

RECURSIVE Depth(_), BlackDepth(_)
Depth(n) == IF n = NULL THEN 0 ELSE 1 + Max({Depth(tree.kid[n][s]) : s \in Sides})
BlackDepth(n) == IF n = NULL THEN 0 ELSE tree.ex[n] + BlackDepth(tree.kid[n][1])

\* Parents and children point at each other (check_node), m_nSize counts the nodes.
Linked == /\ Cardinality(Present) = tree.size
          /\ \A n \in Present : \A s \in Sides : tree.kid[n][s] # NULL => tree.up[tree.kid[n][s]] = n
          /\ \A n \in Present : IF tree.up[n] = NULL THEN tree.root = n
                                ELSE \E s \in Sides : tree.kid[tree.up[n]][s] = n

\* A red-black tree has a black root, no red node below a red one, and as many black nodes on
\* every path; an AVL tree knows the difference of the depths below each node, at most one.
Balanced ==
  /\ Linked
  /\ policy = "rbt" =>
       /\ ~IsRed(tree, tree.root)
       /\ \A n \in Present : /\ IsRed(tree, n) => \A s \in Sides : ~IsRed(tree, tree.kid[n][s])
                             /\ BlackDepth(tree.kid[n][1]) = BlackDepth(tree.kid[n][2])
  /\ policy = "avl" =>
       \A n \in Present : /\ tree.ex[n] = Depth(tree.kid[n][1]) - Depth(tree.kid[n][2])
                          /\ tree.ex[n] \in -1..1

\* find, lower_bound, upper_bound and both directions of iteration agree with the order of the
\* items: between equal keys too, and past both ends.
SearchesAgree ==
  LET w == Walk(tree, 2)
      First(P(_)) == LET S == {i \in DOMAIN w : P(Key(tree, w[i]))}
                     IN  IF S = {} THEN NULL ELSE w[Min(S)]
  IN  /\ Walk(tree, 1) = Reverse(w) /\ Len(w) = tree.size
      /\ \A k \in Keys[multi] :
           /\ LET f == Find(tree, k)
              IN  IF f = NULL THEN \A n \in Present : Key(tree, n) # k ELSE Key(tree, f) = k
           /\ EqualRange(tree, k) = <<First(LAMBDA x : x >= k), First(LAMBDA x : x > k)>>

\* The tree is a sorted bag, or a sorted set: no rotation and no exchange of nodes loses an
\* item or moves one past an equal key.
Bag == INSTANCE SortedBag WITH items <- Items, Keys <- UNION {Keys[m] : m \in BOOLEAN},
                                Vals <- UNION {Vals[m] : m \in BOOLEAN}
ImplementsSortedBag == Bag!Spec
=============================================================================
