---------------------------- MODULE LinearBuffer ----------------------------
(***************************************************************************)
(* LinearBuffer<T> (inc/vhwd/collection/linear_buffer.h): characters are   *)
(* put in at wr_pos and taken out at rd_pos; parse() reads a table of      *)
(* numbers, of complex numbers or of words from all that was put in.       *)
(*                                                                         *)
(* A text is a sequence of characters.  Numbers stay below 2^63, and a     *)
(* number is its digits and a power of ten.                                *)
(***************************************************************************)
EXTENDS Integers, Sequences, SequencesExt, FiniteSetsExt

CONSTANTS Pieces, MaxPieces,  \* what a program puts in, and how often
          Sizes,              \* the sizes it asks for
          Written             \* of a kind: what its elements are written like, and what they are

VARIABLES data,    \* what is before wr_pos: wr_pos is its length
          rd_pos, sz_buf,
          ext,     \* pBuffer is not the one of aBuff
          puts,    \* the pieces put in
          table    \* what the last call, if it was parse(), has given

vars == <<data, rd_pos, sz_buf, ext, puts, table>>

Kinds == DOMAIN Written
None == [ok |-> FALSE, kind |-> ""]
Blank == {"\t", " "}
Newline == {"\r", "\n"}

-----------------------------------------------------------------------------
(* parse(): the state s of a scan is [ok, i, ...], where i is the next character. *)

\* "" after the end
At(t, i) == IF i \in DOMAIN t THEN t[i] ELSE ""
To(t, i, stops) == Min({j \in i..Len(t) + 1 : At(t, j) \in stops \cup {""}})
Over(t, i, these) == Min({j \in i..Len(t) + 1 : At(t, j) \notin these})
Fail(i) == [ok |-> FALSE, i |-> i]

\* d>10 lets the character after "9" through.
Digit == <<"0", "1", "2", "3", "4", "5", "6", "7", "8", "9", ":">>
ValueOf == [c \in ToSet(Digit) |-> CHOOSE d \in 0..10 : Digit[d + 1] = c]

\* read_integer: the digits without the dot, and gg, the number of them after the dot; the end
\* of the text returns before the sign is applied and before an empty number is refused.
read_integer(t, i) ==
  LET from == IF At(t, i) \in {"+", "-"} THEN i + 1 ELSE i
      to == Over(t, from, ToSet(Digit) \cup {"."})
      dots == {k \in from..to - 1 : t[k] = "."}
      digits == SelectSeq(SubSeq(t, from, to - 1), LAMBDA c : c # ".")
      v == FoldLeft(LAMBDA n, c : 10 * n + ValueOf[c], 0, digits)
      closed == to <= Len(t)
  IN  CASE Cardinality(dots) > 1 -> Fail(Min(dots \ {Min(dots)}) + 1)
        [] Cardinality(dots) <= 1 /\ closed /\ digits = <<>> -> Fail(to)
        [] OTHER -> [ok |-> TRUE, i |-> to, v |-> IF closed /\ At(t, i) = "-" THEN -v ELSE v,
                     gg |-> Cardinality({k \in from..to - 1 : \E d \in dots : d < k})]

\* read_element of a number: with an exponent, or without
WithExponent(p, q) ==
  IF q.ok /\ q.gg = 0 THEN [ok |-> TRUE, i |-> q.i, el |-> <<p.v, q.v - p.gg>>] ELSE Fail(q.i)
Scaled(t, p) ==
  CASE ~p.ok -> p
    [] p.ok /\ At(t, p.i) \in {"d", "D", "e", "E"} -> WithExponent(p, read_integer(t, p.i + 1))
    [] OTHER -> [ok |-> TRUE, i |-> p.i, el |-> <<p.v, -p.gg>>]
ReadNumber(t, i) == Scaled(t, read_integer(t, i))

\* read_element of a String
ReadWord(t, i) ==
  LET to == To(t, i, Blank \cup Newline) IN [ok |-> TRUE, i |-> to, el |-> SubSeq(t, i, to - 1)]

\* read_element of a complex number: (re,im), or re and im and an i; at the end of the text
\* get() takes nothing and unget() goes back all the same.
Unexpected(t, k) == Fail(IF At(t, k) = "" THEN k - 1 ELSE k)
Closed(t, re, im, close, ends) ==
  CASE ~im.ok -> im
    [] im.ok /\ At(t, close) \in ends -> [ok |-> TRUE, i |-> close + 1, el |-> <<re.el, im.el>>]
    [] OTHER -> Unexpected(t, close)
InBrackets(t, re, im) == Closed(t, re, im, Over(t, im.i, Blank), {")"})
WithI(t, re, im) == Closed(t, re, im, im.i, {"i", "j"})
Imaginary(t, bracket, re, comma) ==
  CASE ~re.ok -> re
    [] re.ok /\ bracket /\ At(t, comma) # "," -> Unexpected(t, comma)
    [] re.ok /\ bracket /\ At(t, comma) = "," -> InBrackets(t, re, ReadNumber(t, Over(t, comma + 1, Blank)))
    [] re.ok /\ ~bracket -> WithI(t, re, ReadNumber(t, comma))
Part(t, bracket, re) == Imaginary(t, bracket, re, Over(t, re.i, Blank))
ReadComplex(t, i) ==
  IF At(t, i) = "(" THEN Part(t, TRUE, ReadNumber(t, Over(t, i + 1, Blank)))
  ELSE Part(t, FALSE, ReadNumber(t, i))

read_element(kind, t, i) ==
  CASE kind = "number" -> ReadNumber(t, i)
    [] kind = "complex" -> ReadComplex(t, i)
    [] kind = "word" -> ReadWord(t, i)

\* Mutant: a row that differs from the first one starts the count again.
CountAgain(ln, tn) == IF tn = 0 THEN ln ELSE tn

\* The length of the rows when one of tn elements ends: -1 when they differ.
RowLength(ln, tn) ==
  CASE tn = 0 -> ln
    [] tn # 0 /\ ln = 0 -> tn
    [] tn # 0 /\ ln # 0 -> IF ln = tn THEN ln ELSE -1

\* parse(arr_1t): comments, blanks, ends of lines and elements in any order.
RECURSIVE Scan(_, _, _)
Scan(kind, t, s) ==
  LET c == At(t, s.i)
      comment == c = "%" \/ (c = "/" /\ At(t, s.i + 1) = "/")
      e == read_element(kind, t, s.i)
  IN  CASE c = "" -> s
        [] c = "/" /\ ~comment -> Fail(IF At(t, s.i + 1) = "" THEN s.i + 1 ELSE s.i + 2)
        [] comment -> Scan(kind, t, [s EXCEPT !.i = To(t, s.i, Newline)])
        [] c \in Blank -> Scan(kind, t, [s EXCEPT !.i = Over(t, s.i, Blank)])
        [] c \in Newline -> Scan(kind, t, [s EXCEPT !.i = @ + 1, !.tn = 0, !.ln = RowLength(@, s.tn)])
        [] c \notin {"", "/", "%"} \cup Blank \cup Newline ->
             IF e.ok THEN Scan(kind, t, [s EXCEPT !.i = e.i, !.tn = @ + 1, !.els = Append(@, e.el)])
             ELSE Fail(e.i)

Parsed(kind) == Scan(kind, data, [ok |-> TRUE, i |-> 1, tn |-> 0, ln |-> 0, els |-> <<>>])

-----------------------------------------------------------------------------
Init == data = <<>> /\ rd_pos = 0 /\ sz_buf = 0 /\ ext = FALSE /\ puts = 0 /\ table = None

\* _grow: a power of two; an external buffer does not grow.
n2p(n) == CHOOSE k \in {2 ^ j : j \in 0..n} : k >= n /\ (k = 1 \/ k \div 2 < n)
Grown(n) == LET s == n2p(n + n \div 4) IN IF s <= n THEN 2 * n ELSE s

send(p) ==
  LET n == Len(data) + Len(p)
  IN /\ puts < MaxPieces /\ puts' = puts + 1 /\ table' = None
     /\ data' = IF n > sz_buf /\ ext THEN data ELSE data \o p
     /\ sz_buf' = IF n > sz_buf /\ ~ext THEN Grown(n) ELSE sz_buf
     /\ UNCHANGED <<rd_pos, ext>>

\* The program puts it in at gend() itself, and calls wr_flip.
wr_flip(p) ==
  /\ puts < MaxPieces /\ puts' = puts + 1 /\ table' = None
  /\ Len(data) + Len(p) <= sz_buf
  /\ data' = data \o p
  /\ UNCHANGED <<rd_pos, sz_buf, ext>>

\* recv, get, and rd_flip over what there is
recv(n) ==
  /\ rd_pos' = Min({rd_pos + n, Len(data)}) /\ table' = None
  /\ UNCHANGED <<data, sz_buf, ext, puts>>

\* unget; before the first character it throws.
unget ==
  /\ rd_pos > 0 /\ rd_pos' = rd_pos - 1 /\ table' = None
  /\ UNCHANGED <<data, sz_buf, ext, puts>>

\* rewind(), skip()
rewind ==
  /\ data' = <<>> /\ rd_pos' = 0 /\ table' = None
  /\ UNCHANGED <<sz_buf, ext, puts>>

\* alloc(n), rewind(n): aBuff is used again; assign(p, n): an external buffer is.
alloc(n, external) ==
  /\ data' = <<>> /\ rd_pos' = 0 /\ sz_buf' = n /\ ext' = external /\ table' = None
  /\ UNCHANGED puts

load(p) ==
  /\ puts < MaxPieces /\ puts' = puts + 1 /\ table' = None
  /\ data' = p /\ rd_pos' = 0 /\ sz_buf' = Len(p) /\ ext' = FALSE

\* parse(arr_xt): rows of one length, and a number of elements they divide.
Shape(ln, els) ==
  IF ln <= 0 \/ Len(els) % ln # 0 THEN <<>> ELSE <<ln, Len(els) \div ln>>

\* Both parse(); of an empty buffer parse(arr_1t) does not give the length of the rows that
\* parse(arr_xt) goes on with.
parse(kind) ==
  LET s == Parsed(kind)
  IN /\ rd_pos' = s.i - 1
     /\ IF s.ok THEN \E ln \in IF data = <<>> THEN {-1, 1} ELSE {s.ln} :
                       table' = [ok |-> TRUE, kind |-> kind, els |-> s.els, ln |-> ln, shape |-> Shape(ln, s.els)]
        ELSE table' = [ok |-> FALSE, kind |-> kind]
     /\ UNCHANGED <<data, sz_buf, ext, puts>>

Next ==
  \/ \E p \in Pieces : send(p) \/ wr_flip(p) \/ load(p)
  \/ \E n \in 1..2 : recv(n)
  \/ unget \/ rewind
  \/ \E n \in Sizes, external \in BOOLEAN : alloc(n, external)
  \/ \E kind \in Kinds : parse(kind)

Spec == Init /\ [][Next]_vars

-----------------------------------------------------------------------------
(* Properties. *)

\* The parts of t between characters of seps.
Split(t, seps) ==
  LET ends == {<<i, j>> \in (DOMAIN t) \X (DOMAIN t) :
                 /\ i <= j /\ \A k \in i..j : t[k] \notin seps
                 /\ At(t, i - 1) \in seps \cup {""} /\ At(t, j + 1) \in seps \cup {""}}
      sorted == SetToSortSeq(ends, LAMBDA a, b : a[1] < b[1])
  IN  [n \in DOMAIN sorted |-> SubSeq(t, sorted[n][1], sorted[n][2])]

\* The elements of a line as they are written: up to a comment, which a word may hold.
Comments(t, i) == At(t, i) = "%" \/ (At(t, i) = "/" /\ At(t, i + 1) = "/")
Row(kind, line) ==
  LET starts == {i \in DOMAIN line : Comments(line, i) /\ (kind = "word" => At(line, i - 1) \in Blank \cup {""})}
  IN  Split(IF starts = {} THEN line ELSE SubSeq(line, 1, Min(starts) - 1), Blank)
Rows(kind) ==
  LET lines == Split(data, Newline) IN SelectSeq([n \in DOMAIN lines |-> Row(kind, lines[n])], LAMBDA r : r # <<>>)

Known(kind, w) == w \in DOMAIN Written[kind]

\* A table whose lines end comes out as it is written, whatever else was done with the buffer
\* before: its elements one after the other, the length of its rows, and the shape of an arr_xt
\* when they are equally long; and one with a strange character is refused (parse).
TableComesOut ==
  table # None /\ data # <<>> =>
    LET kind == table.kind
        rows == Rows(kind)
        words == FlattenSeq(rows)
        lengths == {Len(rows[r]) : r \in DOMAIN rows}
        n == IF Cardinality(lengths) = 1 THEN Max(lengths) ELSE 0
    IN  /\ Last(data) \in Newline /\ (\A k \in DOMAIN words : Known(kind, words[k])) =>
             /\ table.ok
             /\ table.els = [k \in DOMAIN words |-> Written[kind][words[k]]]
             /\ table.ln = IF Cardinality(lengths) > 1 THEN -1 ELSE n
             /\ table.shape = IF n = 0 THEN <<>> ELSE <<n, Len(rows)>>
        /\ kind # "word" /\ (\E k \in DOMAIN words : "x" \in ToSet(words[k])) => ~table.ok
=============================================================================
