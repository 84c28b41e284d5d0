----------------------------- MODULE Serializer -----------------------------
(***************************************************************************)
(* Serializer (inc/vhwd/serialization): a writer turns typed values and    *)
(* graphs of objects into a stream, a reader makes them anew.  An object   *)
(* that was written before goes out as its number among the objects seen,  *)
(* which both sides count for themselves.                                  *)
(*                                                                         *)
(* A unit of the stream is one value of fixed size: its bytes, widths and  *)
(* the encoding of strings are left out.  The writer's objects do not      *)
(* change or go away while their numbers are in use, an object that is     *)
(* written by value is written once, and a reader's containers are new:    *)
(* without that the two sides disagree and nothing notices it.             *)
(***************************************************************************)
EXTENDS Integers, Sequences, SequencesExt, FiniteSets

CONSTANTS Objects,     \* the writer's objects
          Nil,
          Graphs,      \* what the writer's objects may be: [Objects -> [class, fields]]
          Records,     \* what is written: [type, value]
          MaxRecords   \* records of a stream

VARIABLES objs,        \* the writer's objects: [class, fields]
          wcache,      \* SerializerWriter's cached_objects; the reader's are rcache
          stream,      \* the units on their way
          sent,        \* the records that were written
          rcache, made,  \* made: the objects the reader has created
          got,         \* the records that were read: their values
          wbad, rbad,  \* errstr() has thrown in the writer, in the reader
          cut          \* units were lost at the end of the stream

vars == <<objs, wcache, stream, sent, rcache, made, got, wbad, rbad, cut>>

\* The tags that go before what a pointer points at.
PTRTAG == [NIL |-> 0, CLS |-> 1, POD |-> 2, OBJ |-> 3, CACHED |-> 4]
MAX_DIM == 6

-----------------------------------------------------------------------------
(* Types *)

Pod == [t |-> "pod"]
Bool == [t |-> "bool"]
Str == [t |-> "str"]
Array(e) == [t |-> "arr", of |-> e]
Fixed(e, n) == [t |-> "fixed", of |-> e, n |-> n]
SetOf(e) == [t |-> "set", of |-> e]        \* of a map: its pairs
Grid(e) == [t |-> "grid", of |-> e]
Pair(x, y) == [t |-> "pair", x |-> x, y |-> y]
Own(e) == [t |-> "own", of |-> e]          \* T*, where T is no Object
Ref == [t |-> "ref"]                       \* DataPtrT<ObjectData>, Object*
ByValue(c) == [t |-> "obj", class |-> c]   \* an Object itself

\* The classes that ObjectCreator knows, and the members their Serialize() names in order.
Fields == [leaf |-> <<Pod>>, node |-> <<Pod, Ref>>, list |-> <<Array(Ref), Str>>]

\* serial_pod::value: an array of such elements is moved as one block.
Raw(T) == T = Pod \/ T = Pair(Pod, Pod)

\* serializer_cached_objects: NULL has the number 0, find and insert give the number.
Find(cache, o) == IF \E i \in DOMAIN cache : cache[i] = o
                  THEN CHOOSE i \in DOMAIN cache : cache[i] = o ELSE -1
Put(cache, o) == IF Find(cache, o) = -1 THEN Append(cache, o) ELSE cache

-----------------------------------------------------------------------------
(* The writer: w is [out, cache, bad]. *)

Emit(w, us) == IF w.bad THEN w ELSE [w EXCEPT !.out = @ \o us]

RECURSIVE Write(_, _, _), WriteEach(_, _, _), WriteFields(_, _, _)

\* serial_arr_handler_impl<false>: one element after the other.
WriteEach(e, vs, w) ==
  IF vs = <<>> THEN w ELSE WriteEach(e, Tail(vs), Write(e, Head(vs), w))

\* Serialize() of an object: its members.
WriteFields(Ts, vs, w) ==
  IF Ts = <<>> THEN w ELSE WriteFields(Tail(Ts), Tail(vs), Write(Head(Ts), Head(vs), w))

\* serial_pod and serial_pod_cast<bool>
WritePod(v, w) == Emit(w, <<v>>)

\* serial_arr_handler: a block of PODs and the elements one by one put out the same units.
WriteItems(e, vs, w) == WriteEach(e, vs, w)

\* serial_arr, serial_helper_func<String> and, with a number that is known, T[N]
WriteArr(e, vs, w) == WriteItems(e, vs, WritePod(Len(vs), w))

\* serial_set: the elements in the container's order; a pair is ordered by its key.
WriteSet(e, s, w) ==
  LET Key(v) == IF e.t = "pair" THEN v[1] ELSE v
  IN  WriteEach(e, SetToSortSeq(s, LAMBDA a, b : Key(a) < Key(b)), WritePod(Cardinality(s), w))

\* serial_helper_func<arr_xt>: the six sizes, then the elements
WriteGrid(e, g, w) == WriteItems(e, g.data, WriteItems(Pod, g.size, w))

\* serial_ptr: the tag of the type, then what is pointed at
WritePtr(e, p, w) ==
  IF p = Nil THEN WritePod(PTRTAG.NIL, w)
  ELSE Write(e, p[1], WritePod(IF Raw(e) THEN PTRTAG.POD ELSE PTRTAG.CLS, w))

\* serial_switch<3>: the object gets its number before its members are written.
WriteObj(o, w) ==
  WriteFields(Fields[objs[o].class], objs[o].fields, [w EXCEPT !.cache = Put(@, o)])

\* serial_ptr<3>: a number for an object that was seen, or its class and its members; an
\* object whose class has no name is refused after its tag went out.
WriteRef(o, w) ==
  LET i == Find(w.cache, o)
      named == Emit(w, <<PTRTAG.OBJ, objs[o].class>>)
  IN  CASE o = Nil -> WritePod(PTRTAG.NIL, w)
        [] o # Nil /\ i > 1 -> Emit(w, <<PTRTAG.CACHED, i - 1>>)
        [] o # Nil /\ i <= 1 /\ objs[o].class = "" -> [named EXCEPT !.bad = TRUE]
        [] OTHER -> WriteObj(o, named)

Write(T, v, w) ==
  IF w.bad THEN w
  ELSE CASE T.t \in {"pod", "bool"} -> WritePod(v, w)
         [] T.t = "str"   -> WriteArr(Pod, v, w)
         [] T.t = "arr"   -> WriteArr(T.of, v, w)
         [] T.t = "fixed" -> WriteArr(T.of, v, w)
         [] T.t = "set"   -> WriteSet(T.of, v, w)
         [] T.t = "grid"  -> WriteGrid(T.of, v, w)
         [] T.t = "pair"  -> Write(T.y, v[2], Write(T.x, v[1], w))
         [] T.t = "own"   -> WritePtr(T.of, v, w)
         [] T.t = "ref"   -> WriteRef(v, w)
         [] T.t = "obj"   -> WriteObj(v, w)

-----------------------------------------------------------------------------
(* The reader: r is [in, cache, made, bad, val]; val is what was read last. *)

Fail(r) == [r EXCEPT !.bad = TRUE]
Give(r, v) == [r EXCEPT !.val = v]

RECURSIVE Read(_, _), ReadEach(_, _, _, _), ReadFields(_, _, _)

\* Elements one by one, onto those that are read.
ReadEach(e, n, vs, r) ==
  IF n = 0 \/ r.bad THEN Give(r, vs)
  ELSE LET x == Read(e, r) IN ReadEach(e, n - 1, Append(vs, x.val), x)

ReadFields(Ts, vs, r) ==
  IF Ts = <<>> \/ r.bad THEN Give(r, vs)
  ELSE LET x == Read(Head(Ts), r) IN ReadFields(Tail(Ts), Append(vs, x.val), x)

\* checked_recv: errstr() when the stream ends too early
ReadPod(r) ==
  IF r.bad \/ r.in = <<>> THEN Fail(r) ELSE [r EXCEPT !.val = Head(r.in), !.in = Tail(r.in)]

\* A block of PODs is received without a check: what is missing stays 0.
ReadBlock(n, r) ==
  [r EXCEPT !.val = [i \in 1..n |-> IF i <= Len(r.in) THEN r.in[i] ELSE 0],
            !.in = IF n < Len(@) THEN SubSeq(@, n + 1, Len(@)) ELSE <<>>]
ReadPairs(n, r) ==
  LET b == ReadBlock(2 * n, r) IN Give(b, [i \in 1..n |-> <<b.val[2 * i - 1], b.val[2 * i]>>])

\* A String is received with a check.
ReadStr(r) ==
  LET n == ReadPod(r)
  IN  IF n.bad \/ n.val > Len(n.in) THEN Fail(n) ELSE ReadBlock(n.val, n)

ReadItems(e, n, r) ==
  CASE r.bad -> r
    [] ~r.bad /\ ~Raw(e) -> ReadEach(e, n, <<>>, r)
    [] ~r.bad /\ Raw(e) -> IF e.t = "pod" THEN ReadBlock(n, r) ELSE ReadPairs(n, r)

ReadArr(e, r) == LET n == ReadPod(r) IN ReadItems(e, n.val, n)

\* T[N]: another length is refused
ReadFixed(e, k, r) ==
  LET n == ReadPod(r) IN IF n.bad \/ n.val # k THEN Fail(n) ELSE ReadItems(e, k, n)

ReadSet(e, r) ==
  LET n == ReadPod(r)
      x == IF n.bad THEN n ELSE ReadEach(e, n.val, <<>>, n)
  IN  IF x.bad THEN x ELSE Give(x, ToSet(x.val))

\* arr_xt: the six sizes, and as many elements
Elements(size) == FoldLeft(LAMBDA a, b : a * b, 1, size)
ReadGrid(e, r) ==
  LET s == ReadBlock(MAX_DIM, r)
      x == ReadItems(e, Elements(s.val), s)
  IN  Give(x, [size |-> s.val, data |-> x.val])

ReadPair(T, r) ==
  LET a == Read(T.x, r)
      b == Read(T.y, a)
  IN  Give(b, <<a.val, b.val>>)

\* serial_ptr: NULL, or a new one of the type that is asked for
ReadPtr(e, r) ==
  LET tag == ReadPod(r)
      x == Read(e, tag)
  IN  CASE tag.bad -> tag
        [] ~tag.bad /\ tag.val = PTRTAG.NIL -> Give(tag, Nil)
        [] ~tag.bad /\ tag.val \notin {PTRTAG.NIL, IF Raw(e) THEN PTRTAG.POD ELSE PTRTAG.CLS} -> Fail(tag)
        [] OTHER -> Give(x, <<x.val>>)

\* Mutant: an object gets its number when it is complete.
ReadObjLate(class, r) ==
  LET o == Len(r.made) + 1
      x == ReadFields(Fields[class], <<>>, [r EXCEPT !.made = Append(@, [class |-> class, fields |-> <<>>])])
  IN  [x EXCEPT !.made[o] = [class |-> class, fields |-> x.val], !.val = o, !.cache = Append(@, o)]

\* serial_switch<3>: the object has its number while its members are read; an exception
\* deletes it, its number stays.
ReadObj(class, r) ==
  LET o == Len(r.made) + 1
      x == ReadFields(Fields[class], <<>>,
             [r EXCEPT !.cache = Append(@, o), !.made = Append(@, [class |-> class, fields |-> <<>>])])
  IN  [x EXCEPT !.made[o] = [class |-> IF x.bad THEN "deleted" ELSE class, fields |-> x.val],
                !.val = o]

\* serial_ptr<3>
ReadRef(r) ==
  LET tag == ReadPod(r)
      i == ReadPod(tag)            \* the number, or the class
  IN  CASE tag.bad -> tag
        [] ~tag.bad /\ tag.val = PTRTAG.NIL -> Give(tag, Nil)
        [] ~tag.bad /\ tag.val \notin {PTRTAG.NIL, PTRTAG.OBJ, PTRTAG.CACHED} -> Fail(tag)
        [] ~tag.bad /\ tag.val \in {PTRTAG.OBJ, PTRTAG.CACHED} /\ i.bad -> i
        [] ~i.bad /\ tag.val = PTRTAG.CACHED ->
             IF i.val \in 1..Len(i.cache) - 1 THEN Give(i, i.cache[i.val + 1]) ELSE Fail(i)
        [] OTHER -> IF i.val \in DOMAIN Fields THEN ReadObj(i.val, i) ELSE Fail(i)

\* An object that is read by value is the next one of the reader.
Read(T, r) ==
  IF r.bad THEN r
  ELSE CASE T.t \in {"pod", "bool"} -> ReadPod(r)
         [] T.t = "str"   -> ReadStr(r)
         [] T.t = "arr"   -> ReadArr(T.of, r)
         [] T.t = "fixed" -> ReadFixed(T.of, T.n, r)
         [] T.t = "set"   -> ReadSet(T.of, r)
         [] T.t = "grid"  -> ReadGrid(T.of, r)
         [] T.t = "pair"  -> ReadPair(T, r)
         [] T.t = "own"   -> ReadPtr(T.of, r)
         [] T.t = "ref"   -> ReadRef(r)
         [] T.t = "obj"   -> ReadObj(T.class, r)

-----------------------------------------------------------------------------
Init ==
  /\ objs \in Graphs
  /\ wcache = <<Nil>> /\ rcache = <<Nil>> /\ made = <<>>
  /\ stream = <<>> /\ sent = <<>> /\ got = <<>>
  /\ wbad = FALSE /\ rbad = FALSE /\ cut = FALSE

\* ar.writer() & record
Send(rec) ==
  LET w == Write(rec.type, rec.value, [out |-> stream, cache |-> wcache, bad |-> FALSE])
  IN /\ ~wbad /\ ~cut /\ Len(sent) < MaxRecords
     /\ rec.type.t = "obj" => Find(wcache, rec.value) = -1 /\ rec.type.class = objs[rec.value].class
     /\ stream' = w.out /\ wcache' = w.cache /\ wbad' = w.bad /\ sent' = Append(sent, rec)
     /\ UNCHANGED <<objs, rcache, made, got, rbad, cut>>

\* ar.reader() & record, with the type of the record that is due
Receive ==
  LET rec == sent[Len(got) + 1]
      r == Read(rec.type, [in |-> stream, cache |-> rcache, made |-> made, bad |-> FALSE, val |-> 0])
  IN /\ ~rbad /\ Len(got) < Len(sent)
     /\ stream' = r.in /\ rcache' = r.cache /\ made' = r.made /\ rbad' = r.bad
     /\ got' = IF r.bad THEN got ELSE Append(got, r.val)
     /\ UNCHANGED <<objs, wcache, sent, wbad, cut>>

\* serializer_cached_objects::clear, by both sides between two records: all numbers are given anew.
Clear ==
  /\ ~wbad /\ ~rbad /\ stream = <<>> /\ Len(wcache) > 1
  /\ wcache' = <<Nil>> /\ rcache' = <<Nil>>
  /\ UNCHANGED <<objs, stream, sent, made, got, wbad, rbad, cut>>

\* A file or a buffer that holds only the beginning of what was written.
Cut ==
  /\ ~cut /\ ~rbad /\ stream # <<>>
  /\ \E n \in 0..Len(stream) - 1 : stream' = SubSeq(stream, 1, n)
  /\ cut' = TRUE
  /\ UNCHANGED <<objs, wcache, sent, rcache, made, got, wbad, rbad>>

Next == (\E rec \in Records : Send(rec)) \/ Receive \/ Clear \/ Cut

Spec == Init /\ [][Next]_vars

-----------------------------------------------------------------------------
(* Properties. *)

\* A value of the writer and one of the reader are alike; name gives the writer's object of a
\* reader's one.
RECURSIVE Alike(_, _, _, _)
Alike(T, v, x, name) ==
  CASE T.t \in {"pod", "bool", "str", "set", "grid"} -> v = x
    [] T.t \in {"arr", "fixed"} -> Len(v) = Len(x) /\ \A i \in DOMAIN v : Alike(T.of, v[i], x[i], name)
    [] T.t = "pair" -> Alike(T.x, v[1], x[1], name) /\ Alike(T.y, v[2], x[2], name)
    [] T.t = "own"  -> IF v = Nil \/ x = Nil THEN v = x ELSE Alike(T.of, v[1], x[1], name)
    [] T.t \in {"ref", "obj"} -> IF v = Nil \/ x = Nil THEN v = x ELSE name[x] = v

\* What is read is what was written: equal values, and new objects of the same classes with the
\* same members, where one object stays one object and a cycle a cycle, over all records until
\* clear() (test_serializer.cpp; serial_ptr<3>, serializer_cached_objects).  Only a record that
\* is cut or that the writer gave up is refused, and one that is cut is accepted only where a
\* block of PODs ends it.
Comes ==
  LET rec == sent[Len(got')]
      name == [o \in {rcache'[i] : i \in 2..Len(rcache')} |-> wcache[Find(rcache', o)]]
  IN  \/ /\ Alike(rec.type, rec.value, Last(got'), name)
         /\ \A o \in DOMAIN name :
              LET is == made'[o]
                  was == objs[name[o]]
              IN  /\ is.class = was.class
                  /\ \A k \in DOMAIN was.fields :
                       Alike(Fields[was.class][k], was.fields[k], is.fields[k], name)
      \/ cut /\ rec.type.t \in {"arr", "fixed", "grid"} /\ Raw(rec.type.of)
GraphsComeBack ==
  [][/\ rbad' /\ ~rbad => cut \/ wbad
     /\ Len(got') > Len(got) => Comes]_vars
=============================================================================
