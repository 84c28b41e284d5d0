------------------------------ MODULE XmlText ------------------------------
(***************************************************************************)
(* XmlParser (src/vhwd/xml/xml_parser.cpp): LoadStr makes the nodes of a   *)
(* document from a text, SaveXml writes them back.                         *)
(*                                                                         *)
(* A text is a sequence of units: a run of letters or digits is one unit,  *)
(* every other character is one of its own.  The end of a text is the      *)
(* unit "".  Left out are the letters of names, upper and lower case, the  *)
(* tables of code pages, and comments like <!-->, whose end lies before    *)
(* their beginning.  Each text is read into a new document.                *)
(***************************************************************************)
EXTENDS Integers, Sequences, SequencesExt, FiniteSetsExt

CONSTANTS Pieces,      \* what an author writes
          MaxPieces,
          CharOf       \* the character of a number in &#...;

VARIABLES text, pieces,
          doc,         \* the document: [type, name, value, attrs, kids]
          ok,          \* what LoadStr has answered
          origin       \* who wrote the text: "author", "saver", or "read" after LoadStr

vars == <<text, pieces, doc, ok, origin>>

Node(type, name, value) ==
  [type |-> type, name |-> name, value |-> value, attrs |-> <<>>, kids |-> <<>>]
Root == Node("ROOT", <<>>, <<>>)
Child(n, k) == [n EXCEPT !.kids = Append(@, k)]

-----------------------------------------------------------------------------
(* Units: the lookup tables and the skip of ParserBase *)

Blank == {" ", "\t", "\n"}
NotName == {"", "=", "!", ">", "<", "?", "/", "\\"} \cup Blank

At(t, i) == IF i \in DOMAIN t THEN t[i] ELSE ""

\* skip<P>: the first position from i whose unit is one of stops, or the end.
SkipTo(t, i, stops) == Min({j \in i..Len(t) + 1 : At(t, j) \in stops \cup {""}})
SkipBlank(t, i) == Min({j \in i..Len(t) + 1 : At(t, j) \notin Blank})
Part(t, i, j) == SubSeq(t, i, j - 1)

\* kerror, kexpected: XError is thrown, LoadStr answers false.
Failed == [ok |-> FALSE]
Got(i, x) == [ok |-> TRUE, i |-> i, x |-> x]

-----------------------------------------------------------------------------
(* string_assign: an entity stands for its character *)

Entity == [amp |-> "&", apos |-> "'", gt |-> ">", lt |-> "<", quot |-> "\""]

\* What begins like a known entity must be one.
LooksKnown == {"a", "amp", "apos", "g", "gt", "l", "lt", "q", "quot"}

\* A number below 0x81 comes out twice: as itself, and once more after the table of code pages.
RECURSIVE Decoded(_)
Decoded(v) ==
  LET more(n, out) == LET d == Decoded(SubSeq(v, n + 1, Len(v)))
                      IN  IF d.ok THEN Got(0, out \o d.x) ELSE Failed
      known == At(v, 2) \in DOMAIN Entity /\ At(v, 3) = ";"
      number == At(v, 2) = "#" /\ At(v, 3) \in DOMAIN CharOf /\ At(v, 4) = ";"
  IN CASE v = <<>> -> Got(0, <<>>)
       [] At(v, 1) # "" /\ At(v, 1) # "&" -> more(1, <<v[1]>>)
       [] At(v, 1) = "&" /\ known -> more(3, <<Entity[v[2]]>>)
       [] At(v, 1) = "&" /\ number -> more(4, <<CharOf[v[3]], CharOf[v[3]]>>)
       [] At(v, 1) = "&" /\ ~known /\ ~number ->
            IF At(v, 2) \in LooksKnown \cup {"#"} THEN Failed ELSE more(1, <<"&">>)

\* The quotes go first; text that begins with a quote loses its last unit with it.
Assigned(v) == Decoded(IF At(v, 1) \in {"'", "\""} THEN SubSeq(v, 2, Len(v) - 1) ELSE v)

-----------------------------------------------------------------------------
(* The parts of a node: each gives the position behind it, and what it is *)

\* parse_string1, parse_string2: to the quote that closes; a backslash takes the next unit along.
RECURSIVE StringEnd(_, _, _)
StringEnd(t, i, q) ==
  LET j == SkipTo(t, i, {q, "\\"})
  IN  CASE At(t, j) = q -> Got(j + 1, <<>>)
        [] At(t, j) = "\\" /\ At(t, j + 1) # "" -> StringEnd(t, j + 2, q)
        [] OTHER -> Failed

\* parse_value
Value(t, i) == IF At(t, i) \in {"'", "\""} THEN StringEnd(t, i + 1, t[i])
               ELSE Got(SkipTo(t, i, NotName), <<>>)

\* parse_attributes
RECURSIVE Attributes(_, _, _)
Attributes(t, i, attrs) ==
  LET a == SkipBlank(t, i)
      b == SkipTo(t, a, NotName)
      eq == SkipBlank(t, b)
      v1 == SkipBlank(t, eq + 1)
      v2 == Value(t, v1)
      v == Assigned(Part(t, v1, v2.i))
  IN  CASE At(t, a) \in NotName -> Got(a, attrs)
        [] At(t, a) \notin NotName /\ At(t, eq) # "=" -> Failed
        [] At(t, a) \notin NotName /\ At(t, eq) = "=" ->
             IF v2.ok /\ v.ok THEN Attributes(t, v2.i, Append(attrs, <<Part(t, a, b), v.x>>)) ELSE Failed

\* parse_comment_node: up to the first ">", which must end a "-->"
Comment(t, i, n) ==
  LET j == SkipTo(t, i + 4, {">"})
  IN  IF At(t, i + 3) = "-" /\ At(t, j) = ">" /\ At(t, j - 1) = "-" /\ At(t, j - 2) = "-"
      THEN Got(j + 1, Child(n, Node("COMMENT", <<>>, Part(t, i + 4, j - 2)))) ELSE Failed

\* parse_doctype_node: to the ">" that closes, over what is nested; nothing is kept.
RECURSIVE DoctypeEnd(_, _, _)
DoctypeEnd(t, i, depth) ==
  LET j == SkipTo(t, i, {"<", ">"})
  IN  CASE depth = 0 -> Got(i, <<>>)
        [] depth > 0 /\ At(t, j) = ">" -> DoctypeEnd(t, j + 1, depth - 1)
        [] depth > 0 /\ At(t, j) = "<" -> DoctypeEnd(t, j + 1, depth + 1)
        [] depth > 0 /\ At(t, j) = "" -> Failed
Doctype(t, i, n) ==
  LET e == DoctypeEnd(t, i + 3, 1)
  IN  IF At(t, i + 2) = "DOCTYPE" /\ e.ok THEN Got(e.i, n) ELSE Failed

\* parse_cdata: to the first "]]>"
CData(t, i, n) ==
  LET from == i + 5
      ends == {j \in from..Len(t) : t[j] = ">" /\ t[j - 1] = "]" /\ t[j - 2] = "]"}
  IN  IF At(t, i + 3) = "CDATA" /\ At(t, i + 4) = "[" /\ ends # {}
      THEN Got(Min(ends) + 1, Child(n, Node("CDATA", <<>>, Part(t, from, Min(ends) - 2)))) ELSE Failed

\* parse_instruction_node
Instruction(t, i, n) ==
  LET j == SkipTo(t, i + 2, NotName)
      a == Attributes(t, j, <<>>)
  IN  IF a.ok /\ At(t, a.i) = "?" /\ At(t, a.i + 1) = ">"
      THEN Got(a.i + 2, Child(n, [Node("PI", Part(t, i + 2, j), <<>>) EXCEPT !.attrs = a.x])) ELSE Failed

\* The text before the next "<": a node of its own, and the first one is the value of its parent.
Data(t, i, j, n) ==
  LET v == Part(t, i, j)
      d == IF n.value = <<>> THEN Assigned(v) ELSE Got(0, n.value)
  IN  IF d.ok THEN Got(j, Child([n EXCEPT !.value = d.x], Node("DATA", <<>>, v))) ELSE Failed

RECURSIVE Element(_, _, _), Subnodes(_, _, _)

\* parse_element_node: "<a x=y/>" or "<a x=y>" with its children
Element(t, i, n) ==
  LET j == SkipTo(t, i + 1, NotName)
      a == Attributes(t, j, <<>>)
      e == [Node("ELEMENT", Part(t, i + 1, j), <<>>) EXCEPT !.attrs = a.x]
      s == Subnodes(t, a.i + 1, e)
  IN  CASE ~a.ok -> Failed
        [] a.ok /\ At(t, a.i) = "/" /\ At(t, a.i + 1) = ">" -> Got(a.i + 2, Child(n, e))
        [] a.ok /\ At(t, a.i) = ">" -> IF s.ok THEN Got(s.i, Child(n, s.x)) ELSE Failed
        [] OTHER -> Failed

\* parse_subnodes: the children of n; any closing tag ends them, and so does the end of the text.
Subnodes(t, i, n) ==
  LET j == SkipBlank(t, i)
      close == SkipBlank(t, SkipTo(t, j + 2, NotName))
      d == SkipTo(t, j, {"<"})
      next == CASE At(t, j) # "<" -> Data(t, i, d, n)
                [] At(t, j) = "<" /\ At(t, j + 1) = "!" /\ At(t, j + 2) = "-" -> Comment(t, j, n)
                [] At(t, j) = "<" /\ At(t, j + 1) = "!" /\ At(t, j + 2) = "DOCTYPE" -> Doctype(t, j, n)
                [] At(t, j) = "<" /\ At(t, j + 1) = "!" /\ At(t, j + 2) = "[" -> CData(t, j, n)
                [] At(t, j) = "<" /\ At(t, j + 1) = "?" -> Instruction(t, j, n)
                [] At(t, j) = "<" /\ At(t, j + 1) \notin {"!", "?", "/"} -> Element(t, j, n)
                [] OTHER -> Failed
  IN  CASE At(t, j) = "<" /\ At(t, j + 1) = "/" ->
             IF At(t, close) = ">" THEN Got(close + 1, n) ELSE Failed
        [] At(t, d) = "" -> Got(d, n)
        [] OTHER -> IF next.ok THEN Subnodes(t, next.i, next.x) ELSE Failed

-----------------------------------------------------------------------------
(* SaveXml: savenode at a depth *)

Tabs(n) == [i \in 1..n |-> "\t"]

\* savestring: only the quote is escaped.
Escaped(v) == FlattenSeq([i \in DOMAIN v |-> IF v[i] = "\"" THEN <<"&", "quot", ";">> ELSE <<v[i]>>])

AttributesOf(n) ==
  FlattenSeq([i \in DOMAIN n.attrs |->
    <<" ">> \o n.attrs[i][1] \o <<"=", "\"">> \o Escaped(n.attrs[i][2]) \o <<"\"">>])

RECURSIVE Saved(_, _)
Saved(n, lv) ==
  LET kids(d) == FlattenSeq([i \in DOMAIN n.kids |-> Saved(n.kids[i], d)])
      inner == IF Len(n.kids) = 1 /\ n.kids[1].type = "DATA" THEN kids(0)
               ELSE (IF n.kids[1].type = "ELEMENT" THEN <<"\n">> ELSE <<>>) \o kids(lv + 1) \o Tabs(lv)
  IN CASE n.type = "DATA" -> n.value
       [] n.type = "CDATA" -> <<"\n", "<", "!", "[", "CDATA", "[", "[">> \o n.value \o <<"]", "]", ">", "\n">>
       [] n.type = "COMMENT" -> Tabs(lv) \o <<"<", "!", "-", "-">> \o n.value \o <<"-", "-", ">", "\n">>
       [] n.type = "PI" ->
            Tabs(lv) \o (IF n.name = <<"xml">> THEN <<>>
                         ELSE <<"<", "?">> \o n.name \o AttributesOf(n) \o <<"?", ">", "\n">>)
       [] n.type = "ELEMENT" ->
            Tabs(lv) \o <<"<">> \o n.name \o AttributesOf(n)
            \o (IF n.kids = <<>> THEN <<" ", "/", ">", "\n">>
                ELSE <<">">> \o inner \o <<"<", "/">> \o n.name \o <<">", "\n">>)

Header == <<"<", "?", "xml", " ", "version", "=", "\"", "1.0", "\"", " ", "encoding", "=", "\"", "UTF-8",
            "\"", "?", ">", "\n">>

-----------------------------------------------------------------------------
Init == text = <<>> /\ pieces = 0 /\ doc = Root /\ ok = TRUE /\ origin = "author"

\* An author writes on.
Author(p) ==
  /\ origin = "author" /\ pieces < MaxPieces
  /\ text' = text \o p /\ pieces' = pieces + 1
  /\ UNCHANGED <<doc, ok, origin>>

\* LoadStr, LoadXml: parse_document; what was read before an error stays, and is left out here.
LoadStr ==
  LET p == Subnodes(text, 1, Root)
  IN /\ origin \in {"author", "saver"}
     /\ ok' = p.ok /\ doc' = IF p.ok THEN p.x ELSE Root
     /\ origin' = IF origin = "author" THEN "read" ELSE "again"
     /\ UNCHANGED <<text, pieces>>

SaveXml ==
  /\ origin = "read" /\ ok
  /\ text' = Header \o FlattenSeq([i \in DOMAIN doc.kids |-> Saved(doc.kids[i], 0)])
  /\ origin' = "saver"
  /\ UNCHANGED <<pieces, doc, ok>>

Next == (\E p \in Pieces : Author(p)) \/ LoadStr \/ SaveXml

Spec == Init /\ [][Next]_vars

-----------------------------------------------------------------------------
(* Properties. *)

\* A node whose text comes back: savenode puts white space between text and other children, writes a
\* CDATA with a bracket too many, and leaves & and \ in a value as they are.
RECURSIVE Plain(_)
Plain(n) ==
  /\ \A i \in DOMAIN n.kids : n.kids[i].type = "DATA" => Len(n.kids) = 1 /\ n.type = "ELEMENT"
  /\ \A i \in DOMAIN n.kids : n.kids[i].type # "CDATA" /\ Plain(n.kids[i])
  /\ \A i \in DOMAIN n.attrs : \A c \in ToSet(n.attrs[i][2]) : c \notin {"&", "\\"}

\* SaveXml leaves out the declarations <?xml ...?>.
RECURSIVE Undeclared(_)
Undeclared(n) ==
  LET kept == SelectSeq(n.kids, LAMBDA k : ~(k.type = "PI" /\ k.name = <<"xml">>))
  IN  [n EXCEPT !.kids = [i \in DOMAIN kept |-> Undeclared(kept[i])]]

\* A document that was saved is read again as it was: the same nodes in the same places with the same
\* names, attributes and values, whatever text it came from (LoadXml, SaveXml).
SavedComesBack ==
  [][origin = "saver" /\ Plain(doc) => ok' /\ Undeclared(doc') = Undeclared(doc)]_vars
=============================================================================
