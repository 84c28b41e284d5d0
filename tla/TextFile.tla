------------------------------ MODULE TextFile ------------------------------
(***************************************************************************)
(* StringBuffer<T> with a T of 1, 2 or 4 bytes (src/vhwd/basic/            *)
(* stringbuffer.cpp), its save() and load() to a File, and the conversions *)
(* of IConv (codecvt.cpp) between UTF-8, Unicode and GBK, as built on      *)
(* Linux, where the narrow encoding is UTF-8.                              *)
(*                                                                         *)
(* There is one buffer and one file; the disk is never full.  A program    *)
(* saves, and goes on with, a text it knows.  Not among the steps is the   *)
(* reading of a text that ends within a character, which the code reads    *)
(* past its end.                                                           *)
(***************************************************************************)
EXTENDS Integers, Sequences, SequencesExt, FiniteSetsExt

CONSTANTS Codes, MaxChars,  \* the characters there are, and how many a text has
          Utf8, Gbk,        \* their bytes by the standards; Gbk does not know all of them
          Decimal,          \* the numbers put in, and their characters
          GbkTable,         \* g_gkb_table: the code of an index
          None, Lost        \* no file; nothing is said of what this means

VARIABLES buf,    \* [w, units, enc, text]: the size of T, what is in it, and what that means
          file,   \* its bytes, or None
          saved   \* [how, size, bom, text]: how the file was written, and what it means

vars == <<buf, file, saved>>

Widths == {1, 2, 4}
\* What is put in at a time
Texts == {<<>>} \cup {<<code>> : code \in Codes}
Types == {"binary", "ansi", "text", "utf8", "utf16be", "utf16le"}

Flat(f(_), s) == FlattenSeq([i \in DOMAIN s |-> f(s[i])])

-----------------------------------------------------------------------------
(* IConv. *)

\* Bytes 10xxxxxx
Cont(code) == 128 + (code % 64)

Utf8Of(code) ==
  CASE code < 128 -> <<code>>
    [] code \in 128..2047 -> <<192 + code \div 64, Cont(code)>>
    [] code \in 2048..65535 -> <<224 + code \div 4096, Cont(code \div 64), Cont(code)>>
    [] code > 65535 -> <<240 + code \div 262144, Cont(code \div 4096), Cont(code \div 64), Cont(code)>>

\* Its caller tests first that every character is one of Unicode.
unicode_to_utf8(units) == Flat(Utf8Of, units)
IsUnicode(units) == \A i \in DOMAIN units : units[i] < 1114112

LengthAt(b) == CASE b < 192 -> 1 [] b \in 192..223 -> 2 [] b \in 224..239 -> 3 [] b > 239 -> 4

\* The mask of the first byte is 0x3F whatever its length, and the unit keeps w bytes of it.
RECURSIVE FromUtf8(_, _, _)
FromUtf8(w, b, i) ==
  LET n == IF i > Len(b) THEN 0 ELSE LengthAt(b[i])
      low(k) == b[i + k] % 64
      code == CASE n = 1 -> b[i]
                [] n = 2 -> low(0) * 64 + low(1)
                [] n = 3 -> low(0) * 4096 + low(1) * 64 + low(2)
                [] n = 4 -> low(0) * 262144 + low(1) * 4096 + low(2) * 64 + low(3)
  IN  IF n = 0 THEN <<>> ELSE <<IF w = 2 THEN code % 65536 ELSE code>> \o FromUtf8(w, b, i + n)

utf8_to_unicode(w, b) == FromUtf8(w, b, 1)

\* No character of b ends after b.
RECURSIVE WholeFrom(_, _)
WholeFrom(b, i) == IF i > Len(b) THEN i = Len(b) + 1 ELSE WholeFrom(b, i + LengthAt(b[i]))
Whole(b) == WholeFrom(b, 1)

\* GBKTable_init: the two bytes of an index, 127 not being the second of them.
gbk_ke2 == 190
PairOf(i) == LET b2 == 64 + (i % gbk_ke2) IN <<i \div gbk_ke2 + 129, IF b2 > 126 THEN b2 + 1 ELSE b2>>
IndexOf(b1, b2) == (b1 - 129) * gbk_ke2 + IF b2 > 126 THEN b2 - 65 ELSE b2 - 64

GbkOf(code) ==
  LET at == {i \in DOMAIN GbkTable : GbkTable[i] = code}
  IN  CASE code < 129 -> <<code>>
        [] code >= 129 /\ at # {} -> PairOf(Max(at))
        [] code >= 129 /\ at = {} -> <<code % 128>>

unicode_to_gbk(units) == Flat(GbkOf, units)

RECURSIVE FromGbk(_, _)
FromGbk(b, i) ==
  CASE i > Len(b) -> <<>>
    [] i <= Len(b) /\ b[i] < 129 -> <<b[i]>> \o FromGbk(b, i + 1)
    [] i <= Len(b) /\ b[i] > 128 -> <<GbkTable[IndexOf(b[i], b[i + 1])]>> \o FromGbk(b, i + 2)

gbk_to_unicode(b) == FromGbk(b, 1)

-----------------------------------------------------------------------------
(* Bytes in memory and in the file *)

Bytes(w, units) == LET Low(u) == [k \in 1..w |-> (u \div 256 ^ (k - 1)) % 256] IN Flat(Low, units)
Units(w, b) ==
  [n \in 1..Len(b) \div w |-> FoldLeft(LAMBDA u, k : u * 256 + b[(n - 1) * w + k], 0, Reverse([k \in 1..w |-> k]))]
\* The w bytes of every unit the other way round
Swapped(w, b) == [i \in DOMAIN b |-> b[w * ((i - 1) \div w) + w - ((i - 1) % w)]]

bom_utf8 == <<239, 187, 191>>
bom_utf16_le == <<255, 254>>
bom_utf16_be == <<254, 255>>
bom_utf32_be == <<0, 0, 254, 255>>

After(n) == SubSeq(file, n + 1, Len(file))

-----------------------------------------------------------------------------
(* What a text is by the standards, for the properties *)

Reference(enc, w, text) ==
  CASE w > 1 -> text
    [] w = 1 /\ enc = "utf8" -> Flat(LAMBDA c : Utf8[c], text)
    [] w = 1 /\ enc = "gbk" -> Flat(LAMBDA c : Gbk[c], text)

Below(text, n) == text # Lost /\ \A i \in DOMAIN text : text[i] < n
TextIf(known, text) == IF known THEN text ELSE Lost

\* The characters that come through utf8_to_unicode: a unit of 2 bytes holds no more than it
\* does, and the mask spoils what three or four bytes give a unit of 4.
Limit(w) == CASE w = 1 -> 1114112 [] w = 2 -> 65536 [] w = 4 -> 2048

-----------------------------------------------------------------------------
Init == buf = [w |-> 1, units |-> <<>>, enc |-> "utf8", text |-> <<>>] /\ file = None /\ saved = None

\* A buffer of another type, with a text assigned to it as units
assign(w, text) ==
  /\ w = 2 => Below(text, 65536)
  /\ buf' = [w |-> w, units |-> Reference("utf8", w, text), enc |-> "utf8", text |-> text]
  /\ UNCHANGED <<file, saved>>

\* operator= and operator+= (<<) with a String: StringBufferHelper
ansi(w, text) == LET b == Reference("utf8", 1, text) IN IF w = 1 THEN b ELSE utf8_to_unicode(w, b)
equal(text) ==
  /\ buf' = [buf EXCEPT !.units = ansi(buf.w, text), !.enc = "utf8", !.text = TextIf(Below(text, Limit(buf.w)), text)]
  /\ UNCHANGED <<file, saved>>
eqadd(text) ==
  /\ buf.enc = "utf8" /\ buf.text # Lost /\ Len(buf.text) + Len(text) <= MaxChars
  /\ buf' = [buf EXCEPT !.units = @ \o ansi(buf.w, text),
                        !.text = TextIf(Below(text, Limit(buf.w)), @ \o text)]
  /\ UNCHANGED <<file, saved>>

\* operator<< with a number: _do_format_integer; the smallest one comes out as "-".
RECURSIVE Digits(_)
Digits(n) == IF n = 0 THEN <<>> ELSE Append(Digits(n \div 10), 48 + (n % 10))
_do_format_integer(v) ==
  CASE v = 0 -> <<48>> [] v < 0 -> <<45>> \o Digits(-v) [] v > 0 -> Digits(v)
append_number(v) ==
  /\ buf.enc = "utf8" /\ buf.text # Lost /\ Len(buf.text) + Len(Decimal[v]) <= MaxChars
  /\ buf' = [buf EXCEPT !.units = @ \o _do_format_integer(v), !.text = @ \o Decimal[v]]
  /\ UNCHANGED <<file, saved>>

\* utf8_to_gbk and gbk_to_utf8, by way of units of 2 bytes
utf8_to_gbk ==
  /\ buf.w = 1 /\ buf.enc = "utf8" /\ buf.text # Lost
  /\ buf' = [buf EXCEPT !.units = unicode_to_gbk(utf8_to_unicode(2, @)), !.enc = "gbk",
                        !.text = TextIf(ToSet(@) \subseteq DOMAIN Gbk, @)]
  /\ UNCHANGED <<file, saved>>
gbk_to_utf8 ==
  /\ buf.enc = "gbk" /\ buf.text # Lost
  /\ buf' = [buf EXCEPT !.units = unicode_to_utf8(gbk_to_unicode(@)), !.enc = "utf8"]
  /\ UNCHANGED <<file, saved>>

-----------------------------------------------------------------------------
\* save(): the file is emptied before anything is converted.
Written(b, how) == file' = b /\ saved' = how /\ UNCHANGED buf
Refused == Written(<<>>, None)

HowBytes == [how |-> buf.enc, size |-> 1, bom |-> FALSE, text |-> buf.text]

save_binary == Written(Bytes(buf.w, buf.units), [HowBytes EXCEPT !.size = buf.w])

save_ansi ==
  CASE buf.w = 1 -> Written(buf.units, HowBytes)
    [] buf.w > 1 /\ IsUnicode(buf.units) -> Written(unicode_to_utf8(buf.units), HowBytes)
    [] buf.w > 1 /\ ~IsUnicode(buf.units) -> Refused

\* Units of 2 bytes are not converted, and nothing but the mark is written.
save_utf8(writebom) ==
  CASE buf.w = 1 -> Written(buf.units, HowBytes)
    [] buf.w = 2 -> Written(IF writebom THEN bom_utf8 ELSE <<>>, None)
    [] buf.w = 4 /\ IsUnicode(buf.units) ->
         Written((IF writebom THEN bom_utf8 ELSE <<>>) \o unicode_to_utf8(buf.units), [HowBytes EXCEPT !.bom = writebom])
    [] buf.w = 4 /\ ~IsUnicode(buf.units) -> Refused

save_utf16(type, writebom) ==
  LET wb == Bytes(2, IF buf.w = 1 THEN utf8_to_unicode(2, buf.units) ELSE buf.units)
      mark == IF type = "utf16be" THEN bom_utf16_be ELSE bom_utf16_le
  IN  IF buf.w = 4 THEN Refused
      ELSE Written((IF writebom THEN mark ELSE <<>>) \o (IF type = "utf16be" THEN Swapped(2, wb) ELSE wb),
                   [how |-> type, size |-> 1, bom |-> writebom,
                    text |-> TextIf(buf.enc = "utf8" /\ Below(buf.text, 65536), buf.text)])

save(type, writebom) ==
  /\ buf.text # Lost
  /\ CASE type = "binary" -> save_binary
       [] type = "ansi" -> save_ansi
       [] type \in {"text", "utf8"} -> save_utf8(writebom)
       [] type \in {"utf16be", "utf16le"} -> (buf.w = 1 => Whole(buf.units)) /\ save_utf16(type, writebom)

RemoveFile == file # None /\ file' = None /\ saved' = None /\ UNCHANGED buf

\* A file of another program, with one of the marks load() knows
Foreign(how, text) ==
  /\ saved' = [how |-> how, size |-> 1, bom |-> TRUE, text |-> text] /\ UNCHANGED buf
  /\ file' = CASE how = "utf8" -> bom_utf8 \o Reference("utf8", 1, text)
               [] how = "utf32be" -> bom_utf32_be \o Swapped(4, Bytes(4, text))

-----------------------------------------------------------------------------
(* load(): enc is what a narrow buffer then holds. *)

Loads(w, units, enc, text) ==
  buf' = [w |-> w, units |-> units, enc |-> IF w = 1 THEN enc ELSE "utf8", text |-> text] /\ UNCHANGED <<file, saved>>

\* The buffer is there, with what it held.
Fails == UNCHANGED vars

\* Bytes of the narrow encoding into units of w bytes
FromAnsi(w, b, enc, text) ==
  IF w = 1 THEN Loads(1, b, enc, text)
  ELSE Whole(b) /\ Loads(w, utf8_to_unicode(w, b), enc, TextIf(enc = "utf8" /\ Below(text, Limit(w)), text))

\* Units of 2 or 4 bytes from the file into units of w bytes
FromUnits(w, n, units, text) ==
  CASE w = n -> Loads(w, units, "utf8", text)
    [] w # n /\ IsUnicode(units) -> FromAnsi(w, unicode_to_utf8(units), "utf8", text)
    [] w # n /\ ~IsUnicode(units) -> Fails

\* The program knows how it saved the file.
Meaning(hows, size, bom) ==
  IF saved # None /\ saved.how \in hows /\ saved.size = size /\ saved.bom = bom THEN saved.text ELSE Lost
EncOf == IF saved # None /\ saved.how = "gbk" THEN "gbk" ELSE "utf8"

load_binary(w) ==
  IF Len(file) % w # 0 THEN Fails ELSE Loads(w, Units(w, file), EncOf, Meaning({"utf8", "gbk"}, w, FALSE))

\* FF FE at the start is taken for UTF-16 before UTF-32 (LE) is looked at.
HasBom(bom) == Len(file) >= Len(bom) /\ SubSeq(file, 1, Len(bom)) = bom
load_utf8(w) == HasBom(bom_utf8) /\ FromAnsi(w, After(3), "utf8", Meaning({"utf8"}, 1, TRUE))

\* Mutant: the bytes are turned round in the other order's file.
TurnsLittle(be, b) == IF be THEN b ELSE Swapped(2, b)
Turns(be, b) == IF be THEN Swapped(2, b) ELSE b

load_utf16(w) ==
  /\ HasBom(bom_utf16_be) \/ HasBom(bom_utf16_le)
  /\ IF Len(file) % 2 # 0 THEN Fails
     ELSE FromUnits(w, 2, Units(2, Turns(HasBom(bom_utf16_be), After(2))),
                    Meaning({"utf16be", "utf16le"}, 1, TRUE))

load_utf32(w) ==
  /\ HasBom(bom_utf32_be)
  /\ IF Len(file) % 4 # 0 THEN Fails ELSE FromUnits(w, 4, Units(4, Swapped(4, After(4))), Meaning({"utf32be"}, 1, TRUE))

\* Without a mark the bytes are of the narrow encoding; that it looks for UTF-8 in them
\* changes nothing in this build.
load_plain(w) ==
  /\ \A bom \in {bom_utf8, bom_utf16_be, bom_utf16_le, bom_utf32_be} : ~HasBom(bom)
  /\ FromAnsi(w, file, EncOf, Meaning({"utf8", "gbk"}, 1, FALSE))

\* The units of 4 bytes of a binary file stay below 2^31.
load(w, type) ==
  CASE file = None -> Fails
    [] file # None /\ type = "binary" ->
         (w = 4 => \A i \in DOMAIN file : i % 4 = 0 => file[i] < 128) /\ load_binary(w)
    [] file # None /\ type # "binary" -> load_utf8(w) \/ load_utf16(w) \/ load_utf32(w) \/ load_plain(w)

Next ==
  \/ \E w \in Widths, text \in Texts : assign(w, text)
  \/ \E text \in Texts : equal(text) \/ eqadd(text)
  \/ \E v \in DOMAIN Decimal : append_number(v)
  \/ utf8_to_gbk \/ gbk_to_utf8
  \/ \E type \in Types, writebom \in BOOLEAN : save(type, writebom)
  \/ RemoveFile
  \/ \E how \in {"utf8", "utf32be"}, text \in Texts : Foreign(how, text)
  \/ \E w \in Widths, type \in {"binary", "text"} : load(w, type)

Spec == Init /\ [][Next]_vars

-----------------------------------------------------------------------------
(* Properties. *)

\* A text that was saved in any encoding, or written by another program, and loaded into a
\* buffer of any size of unit is the text it was, as far as that encoding carries it: the
\* buffer holds the text it stands for (StringBuffer::save, StringBuffer::load, IConv).
TextComesBack == buf.text # Lost => buf.units = Reference(buf.enc, buf.w, buf.text)
=============================================================================
