------------------------------ MODULE MCMemory ------------------------------
(***************************************************************************)
(* Small instances of the memory pool, of the XML documents, of the        *)
(* serializer and of the text files, checked in one run: which says the    *)
(* part that moves, the others stay as they begin.  MemPool is extended,   *)
(* the other ones are instances.                                           *)
(***************************************************************************)
EXTENDS MemPool, TLC

CONSTANTS c, u, Nil,
          Nodes, Programs, MaxDetached,              \* XmlTree
          Pieces, MaxPieces, CharOf,                 \* XmlText
          x1, x2, Graphs, Records, MaxRecords,       \* Serializer
          Codes, MaxChars, Utf8, Gbk, Decimal, GbkTable, Lost  \* TextFile

VARIABLES which,
          docs, alive, next, parent, head, tail, size,                             \* XmlTree
          text, pieces, doc, ok, origin,                                           \* XmlText
          objs, wcache, stream, sent, rcache, rmade, got, wbad, rbad, cut,         \* Serializer
          buf, file, saved                                                         \* TextFile

\* Places for spans, which begin after the middle of a bucket: two spans share a bucket, and the
\* second node of a span of two is in the bucket after the one where the span begins.
ThreeBases == {602112 + i * 1048576 : i \in 0..2}

\* Five blocks fill a cache (nd_nmax is 4 for two nodes in a span).
FiveAndOne == [t \in Threads |-> IF t = c THEN 5 ELSE 1]

\* One thread asks for small blocks, the other one for small and for large ones.
SmallAndAll == [t \in Threads |-> IF t = c THEN {350000} ELSE {350000, 1200000}]

Tree == INSTANCE XmlTree WITH NULL <- Nil
Markup == INSTANCE XmlText
Archive == INSTANCE Serializer WITH Objects <- {x1, x2}, made <- rmade
Files == INSTANCE TextFile

\* Tags, attributes with each kind of quote, text with an entity and a number, and what is not kept.
XmlPieces ==
  {<<"<", "a", ">">>, <<"<", "/", "a", ">">>,
   <<"<", "b", " ", "x", "=", "'", "&", "lt", ";", "\"", "v", "'", " ", "y", "=", "u", "/", ">">>,
   <<"w", " ", "&", "amp", ";">>, <<"&", "#", "65", ";">>, <<"\n">>,
   <<"<", "!", "-", "-", "c", "-", "-", ">">>,
   <<"<", "?", "p", " ", "y", "=", "\"", "\\", "\"", "u", "\"", "?", ">">>, <<"<", "?", "xml", "?", ">">>,
   <<"<", "!", "[", "CDATA", "[", "d", ">", "]", "]", ">">>,
   <<"<", "!", "DOCTYPE", " ", "d", "<", "e", ">", ">">>}
CharOf65 == "65" :> "A"

\* Characters of 2, 3 and 4 bytes in UTF-8, one of them the mark of byte order; one is in GBK.
ThreeCodes == {233, 65279, 128512}
Ascii == [n \in {45, 48, 49, 55, 65} |-> <<n>>]
Utf8Of == Ascii @@ 233 :> <<195, 169>> @@ 65279 :> <<239, 187, 191>>
            @@ 128512 :> <<240, 159, 152, 128>>
GbkOf == Ascii @@ 233 :> <<130, 128>>
TwoEntries == 0 :> 19970 @@ 253 :> 233
ThreeNumbers == 0 :> <<48>> @@ -7 :> <<45, 55>> @@ 10 :> <<49, 48>>

\* Two objects that may point to each other and to themselves.
Pointing == {x1, x2, Nil}
TwoObjects == {x1 :> a @@ x2 :> b :
  a \in {[class |-> "node", fields |-> <<5, p>>] : p \in Pointing}
    \cup {[class |-> "list", fields |-> <<<<p, q>>, <<7>>>>] : p \in {x1, x2}, q \in Pointing},
  b \in {[class |-> "leaf", fields |-> <<3>>], [class |-> "", fields |-> <<>>]}
    \cup {[class |-> "node", fields |-> <<6, p>>] : p \in Pointing}}

\* Records of every type, with an object twice, a cycle and a class that cannot be written.
Of(t, of) == [t |-> t, of |-> of]
EachType ==
  LET Pod == [t |-> "pod"]
      Str == [t |-> "str"]
      Ref == [t |-> "ref"]
      Pair(x, y) == [t |-> "pair", x |-> x, y |-> y]
      Record(type, value) == [type |-> type, value |-> value]
  IN {Record(Of("arr", Pod), <<1, 2>>),
      Record(Pair(Str, [t |-> "bool"]), <<<<8, 9>>, 1>>),
      Record(Of("set", Pair(Pod, Pod)), {<<4, 1>>, <<2, 3>>}),
      Record([t |-> "fixed", of |-> Pair(Pod, Str), n |-> 2], <<<<1, <<>>>>, <<2, <<6>>>>>>),
      Record(Of("grid", Pod), [size |-> <<2, 1, 1, 1, 1, 1>>, data |-> <<4, 5>>]),
      Record(Of("arr", Of("own", Pod)), <<<<3>>, Nil>>),
      Record(Of("arr", Ref), <<x1, x2>>), Record(Of("arr", Ref), <<x2, x2>>),
      Record(Ref, x1), Record(Ref, x2),
      Record([t |-> "obj", class |-> "leaf"], x2), Record([t |-> "obj", class |-> "node"], x1)}

poolVars == <<hdr, mapped, pgmap, heads, spin, cache, held, at, reg, over>>
treeVars == <<docs, alive, next, parent, head, tail, size>>
markupVars == <<text, pieces, doc, ok, origin>>
archiveVars == <<objs, wcache, stream, sent, rcache, rmade, got, wbad, rbad, cut>>
fileVars == <<buf, file, saved>>
allVars == <<which, poolVars, treeVars, markupVars, archiveVars, fileVars>>

Parts == {"pool", "tree", "markup", "archive", "files"}

AnyInit ==
  /\ which \in Parts
  /\ Init /\ Tree!Init /\ Markup!Init /\ Archive!Init /\ Files!Init
  /\ which # "tree" => docs = CHOOSE p \in Programs : TRUE
  /\ which # "archive" => objs = CHOOSE g \in Graphs : TRUE

\* The parts that do not move.
Still(part) ==
  CASE part = "pool"     -> UNCHANGED poolVars
    [] part = "tree"     -> UNCHANGED treeVars
    [] part = "markup"   -> UNCHANGED markupVars
    [] part = "archive"  -> UNCHANGED archiveVars
    [] part = "files"    -> UNCHANGED fileVars

AnyNext ==
  /\ \/ which = "pool" /\ Next
     \/ which = "tree" /\ Tree!Next
     \/ which = "markup" /\ Markup!Next
     \/ which = "archive" /\ Archive!Next
     \/ which = "files" /\ Files!Next
  /\ UNCHANGED which
  /\ \A part \in Parts \ {which} : Still(part)

AnySpec == AnyInit /\ [][AnyNext]_allVars

-----------------------------------------------------------------------------
(* The properties of the instances, and those of MemPool in one. *)

\* MemPool: whatever caches, batches and collections have moved, every node is in one place,
\* the counts of the code agree with its chains, a slot keeps one empty span at most, and the map
\* of the buckets leads from an address to its span.
NodesAccounted ==
  which = "pool" => TypeOK /\ NothingLost /\ CountsAgree /\ OneEmptySpan /\ FindsItsSpan

\* XmlTree: intrusive_list and XmlNode leave the children they are asked for.
ListsKept == Tree!ListsKept

\* Serializer, XmlText: SerializerReader gives the objects that SerializerWriter was given, and a
\* document that was saved is parsed as the same one.
SavedComesBack == Archive!GraphsComeBack /\ Markup!SavedComesBack

\* TextFile: a text in any encoding comes back from its file.
TextComesBack == which = "files" => Files!TextComesBack
=============================================================================
