------------------------------ MODULE XmlTree ------------------------------
(***************************************************************************)
(* XmlNode (inc/vhwd/xml/xml_node.h) and its children, an intrusive_list   *)
(* (inc/vhwd/collection/intrusive_list.h): each node holds the pointer to  *)
(* the next one, the list its first and its last node and their number.    *)
(*                                                                         *)
(* A program hands over nodes that are in no list, never a node to one of  *)
(* its own descendants.  remove() and detach() leave m_pTail where it is:  *)
(* when they have taken the last node, append() writes to a node that is   *)
(* not in the list any more, so nothing is appended then.  detach() leaves *)
(* a node that was not the first with its next pointer: it is not handed   *)
(* over again.                                                             *)
(***************************************************************************)
EXTENDS Naturals, Sequences, SequencesExt, FiniteSets, Functions

CONSTANTS Nodes, NULL,
          Programs,    \* the documents that a program has: sets of nodes
          MaxDetached  \* nodes that are in no list at a time

VARIABLES docs,              \* the nodes that are documents
          alive,             \* the nodes that exist
          next, parent,      \* m_pNextSibling, m_pParent
          head, tail, size   \* listNodes

vars == <<docs, alive, next, parent, head, tail, size>>

Init ==
  /\ docs \in Programs /\ alive = docs
  /\ next = [n \in Nodes |-> NULL] /\ parent = next
  /\ head = next /\ tail = next /\ size = [n \in Nodes |-> 0]

-----------------------------------------------------------------------------
(* What the pointers say. *)

\* The nodes from n on.
RECURSIVE From(_)
From(n) == IF n = NULL THEN <<>> ELSE <<n>> \o From(next[n])
Kids(r) == From(head[r])

RECURSIVE Below(_)
Below(r) == {r} \cup UNION {Below(k) : k \in ToSet(Kids(r))}

InList == UNION {ToSet(Kids(r)) : r \in alive}
Roots == alive \ InList

\* The tail is the last node, or there is none.
Sound(r) == IF head[r] = NULL THEN tail[r] = NULL ELSE tail[r] = Last(Kids(r))

Shape == LET S[d \in 0..Cardinality(Nodes), r \in Nodes] ==
               IF d = 0 THEN <<>> ELSE [i \in DOMAIN Kids(r) |-> S[d - 1, Kids(r)[i]]]
         IN  [r \in alive |-> S[Cardinality(Nodes), r]]

-----------------------------------------------------------------------------
(* A state of the pointers, and the functions of intrusive_list on it. *)

Here == [next |-> next, parent |-> parent, head |-> head, tail |-> tail, size |-> size]
Becomes(s) == /\ next' = s.next /\ parent' = s.parent
              /\ head' = s.head /\ tail' = s.tail /\ size' = s.size

\* Mutant: the first node that is inserted is not the last one.
InsertLeavesTail(s, r, p) ==
  [s EXCEPT !.head[r] = p, !.next[p] = s.head[r], !.size[r] = @ + 1]

insert(s, r, p) ==
  IF s.head[r] = NULL THEN [s EXCEPT !.head[r] = p, !.tail[r] = p, !.size[r] = 1]
  ELSE [s EXCEPT !.next[p] = s.head[r], !.head[r] = p, !.size[r] = @ + 1]

append(s, r, p) ==
  IF s.tail[r] = NULL THEN [s EXCEPT !.head[r] = p, !.tail[r] = p, !.size[r] = 1]
  ELSE [s EXCEPT !.next[s.tail[r]] = p, !.tail[r] = p, !.size[r] = @ + 1]

\* detach, and the first half of remove: FALSE when p is not in the list.
Previous(s, r, p) == {q \in ToSet(Kids(r)) : s.next[q] = p}
detach(s, r, p) ==
  CASE s.head[r] = p -> [s EXCEPT !.head[r] = s.next[p], !.next[p] = NULL, !.size[r] = @ - 1]
    [] s.head[r] # p /\ Previous(s, r, p) # {} ->
         [s EXCEPT !.next[CHOOSE q \in Previous(s, r, p) : TRUE] = s.next[p], !.size[r] = @ - 1]
    [] OTHER -> s

pop_front(s, r) ==
  LET q == s.head[r]
  IN  [s EXCEPT !.head[r] = s.next[q], !.size[r] = @ - 1,
                !.tail[r] = IF s.next[q] = NULL THEN NULL ELSE @]

\* clear() and release(); the nodes are deleted, or given up.
empty(s, r) == [s EXCEPT !.head[r] = NULL, !.tail[r] = NULL, !.size[r] = 0]

swap(s, a, b) ==
  [s EXCEPT !.head[a] = s.head[b], !.head[b] = s.head[a], !.tail[a] = s.tail[b],
            !.tail[b] = s.tail[a], !.size[a] = s.size[b], !.size[b] = s.size[a]]

\* ~XmlNode: the children go with their parent; their memory may be used again.
Deleted(s, gone) ==
  LET Cleared(f) == [n \in Nodes |-> IF n \in gone THEN NULL ELSE f[n]]
  IN  [next |-> Cleared(s.next), parent |-> Cleared(s.parent), head |-> Cleared(s.head),
       tail |-> Cleared(s.tail), size |-> [n \in Nodes |-> IF n \in gone THEN 0 ELSE s.size[n]]]

\* xml_ensure_children_parent
EnsureParent(s, r, kids) == [s EXCEPT !.parent = [n \in Nodes |-> IF n \in kids THEN r ELSE @[n]]]

-----------------------------------------------------------------------------
(* XmlNode *)

\* What may be handed to r: a new node, or one in no list, which is no ancestor and has no next pointer.
Fresh == IF alive = Nodes THEN {} ELSE {CHOOSE n \in Nodes : n \notin alive}
Free(r) == Fresh \cup {p \in Roots \ docs : r \notin Below(p) /\ next[p] = NULL}

AppendChild(r, p) ==
  /\ Sound(r) /\ p \in Free(r)
  /\ Becomes(append([Here EXCEPT !.parent[p] = r], r, p)) /\ alive' = alive \cup {p}

InsertChild(r, p) ==
  /\ p \in Free(r)
  /\ Becomes(insert([Here EXCEPT !.parent[p] = r], r, p)) /\ alive' = alive \cup {p}

DetachChild(r, p) ==
  /\ p # r /\ Cardinality(Roots \ docs) < MaxDetached
  /\ Becomes(detach(Here, r, p)) /\ UNCHANGED alive

\* A node that is not in the list is left alone.
RemoveChild(r, p) ==
  LET gone == IF p \in ToSet(Kids(r)) THEN Below(p) ELSE {}
  IN /\ p # r
     /\ Becomes(Deleted(detach(Here, r, p), gone)) /\ alive' = alive \ gone

\* DeleteChildren, Clear
DeleteChildren(r) ==
  /\ Becomes(empty(Deleted(Here, Below(r) \ {r}), r)) /\ alive' = (alive \ Below(r)) \cup {r}

\* A detached node is deleted by the program.
Delete(p) == p \in Roots \ docs /\ Becomes(Deleted(Here, Below(p))) /\ alive' = alive \ Below(p)

\* Use of the list itself.
PopFront(r) ==
  /\ head[r] # NULL /\ Cardinality(Roots \ docs) < MaxDetached
  /\ Becomes(pop_front(Here, r)) /\ UNCHANGED alive

Swap(a, b) ==
  LET s == swap(Here, a, b)
  IN /\ a # b
     /\ Becomes(EnsureParent(EnsureParent(s, a, ToSet(Kids(b))), b, ToSet(Kids(a))))
     /\ UNCHANGED alive

\* A node for each node below b is made and appended, and what a had is deleted.
Copied(a, b) ==
  LET below == Below(b) \ {b}
      f == CHOOSE i \in Injection(below, Nodes \ alive) : TRUE
      from == [n \in {f[m] : m \in below} \cup {a} |-> IF n = a THEN b ELSE CHOOSE m \in below : f[m] = n]
      to == [m \in Below(b) \cup {NULL} |-> IF m = b THEN a ELSE IF m = NULL THEN NULL ELSE f[m]]
      old == Deleted(Here, Below(a) \ {a})
      Copy(h, o) == [n \in Nodes |-> IF n \in DOMAIN from THEN to[h[from[n]]] ELSE o[n]]
      tails == [n \in Nodes |-> IF head[n] = NULL THEN NULL ELSE Last(Kids(n))]
  IN /\ a # b
     /\ Injection(below, Nodes \ alive) # {}
     /\ head' = Copy(head, old.head) /\ tail' = Copy(tails, old.tail) /\ next' = Copy(next, old.next)
     /\ parent' = Copy(parent, old.parent)
     /\ size' = [n \in Nodes |-> IF n \in DOMAIN from THEN size[from[n]] ELSE old.size[n]]
     /\ alive' = (alive \ Below(a)) \cup DOMAIN from

\* XmlDocument::operator=: xml_copy_recursive, and the lists are swapped.
Assign(a, b) == Copied(a, b)

\* Serialize: b is written, a reads it.
Serialize(a, b) == Copied(a, b)

Next ==
  /\ \/ \E r \in alive, p \in Nodes : AppendChild(r, p) \/ InsertChild(r, p)
     \/ \E r, p \in alive : DetachChild(r, p) \/ RemoveChild(r, p)
     \/ \E r \in alive : DeleteChildren(r) \/ PopFront(r) \/ Delete(r)
     \/ \E a, b \in docs : Swap(a, b) \/ Assign(a, b) \/ Serialize(a, b)
  /\ UNCHANGED docs

Spec == Init /\ [][Next]_vars
-----------------------------------------------------------------------------
(* Properties. *)

\* Each operation leaves the children it is asked for in their order and every other node alone: an
\* assignment makes a copy of the whole tree.
Acts ==
  LET Others(rs) == \A q \in (alive \cap alive') \ rs : Kids(q)' = Kids(q)
  IN /\ \A r \in alive : \A p \in Free(r) :
          /\ AppendChild(r, p) => Kids(r)' = Append(Kids(r), p) /\ Others({r})
          /\ InsertChild(r, p) => Kids(r)' = <<p>> \o Kids(r) /\ Others({r})
     /\ \A r \in alive : \A p \in ToSet(Kids(r)) :
          /\ DetachChild(r, p) => Kids(r)' = Remove(Kids(r), p) /\ Others({r})
          /\ RemoveChild(r, p) => Kids(r)' = Remove(Kids(r), p) /\ Others({r})
     /\ \A r \in alive :
          /\ PopFront(r) => Kids(r)' = Tail(Kids(r)) /\ Others({r})
          /\ DeleteChildren(r) => Kids(r)' = <<>> /\ Others({r})
     /\ \A a, b \in docs :
          /\ Swap(a, b) => Kids(a)' = Kids(b) /\ Kids(b)' = Kids(a) /\ Others({a, b})
          /\ Copied(a, b) => Shape'[a] = Shape[b] /\ Shape'[b] = Shape[b]

\* A list counts its nodes, each of them exists and knows its parent, and its tail is its last node
\* until remove() or detach() takes that (intrusive_list, xml_ensure_children_parent).
ListsKept ==
  [][/\ Acts
     /\ \A r \in alive' :
          /\ size'[r] = Len(Kids(r)')
          /\ \A k \in ToSet(Kids(r)') : k \in alive' /\ parent'[k] = r
          /\ \/ Sound(r)'
             \/ r \in alive /\ ~Sound(r)
             \/ r \in alive /\ Kids(r) # <<>>
                /\ LET p == Last(Kids(r)) IN DetachChild(r, p) \/ RemoveChild(r, p)
             \/ \E p \in docs : ~Sound(p) /\ r \in docs /\ Swap(r, p)]_vars
=============================================================================
