------------------------------ MODULE Scanner ------------------------------
(***************************************************************************)
(* Scanner (src/vhwd/scripting/scanner.cpp): parse() cuts the text of a    *)
(* script into tokens; each step is one turn of its loop.  A text is a     *)
(* sequence of characters, a token its type and its word.                  *)
(*                                                                         *)
(* An author writes lexemes one after the other.  Left out are the line    *)
(* and the position of a token, hexadecimal numbers, which come out twice, *)
(* and numbers with an exponent and no dot, which come out as integers.    *)
(***************************************************************************)
EXTENDS Integers, Sequences, SequencesExt, FiniteSetsExt

CONSTANTS Lexemes,     \* what is written: [text, type, word, class]
          Gaps,        \* what may be between two of them
          MaxLexemes,
          Letters, Digits

VARIABLES text,
          written,     \* the lexemes of the text, and the gaps behind them
          pcur,        \* the next character; 0 before parse() is called
          aTokens,
          status       \* "writing", "scanning", "done" or "error"

vars == <<text, written, pcur, aTokens, status>>

Blank == {" ", "\t", "\r", "\n"}
NameStart == Letters \cup {"_"}
Name == NameStart \cup Digits
Keywords == {<<"i", "f">>, <<"i", "n">>, <<"d", "o">>, <<"e", "n", "d">>}

At(i) == IF i \in DOMAIN text THEN text[i] ELSE ""
Over(i, these) == Min({j \in i..Len(text) + 1 : At(j) \notin these})
To(i, stops) == Min({j \in i..Len(text) + 1 : At(j) \in stops \cup {""}})
Part(i, j) == SubSeq(text, i, j - 1)

Tok(type, word) == [type |-> type, word |-> word]

\* skip_whitespace: where the next token begins, and its first characters
From == Over(pcur, Blank)
Ch == At(From)
Ch2 == At(From + 1)

\* add_item, gen_item, new_item: a token up to j
Take(type, j) ==
  /\ aTokens' = Append(aTokens, Tok(type, Part(From, j))) /\ pcur' = j
  /\ UNCHANGED <<text, written, status>>

\* kerror throws; the place it reports is left out.
Error == status' = "error" /\ pcur' = From /\ UNCHANGED <<text, written, aTokens>>

Scanning == status = "scanning"

-----------------------------------------------------------------------------
Init == text = <<>> /\ written = <<>> /\ pcur = 0 /\ aTokens = <<>> /\ status = "writing"

\* b may stand right behind a: together they are no other token.
Apart(a, b) ==
  \/ a.class = "mark"
  \/ b.class = "mark" /\ ~(a.word \in {<<"/">>, <<".">>} /\ b.type = "COMMENT")
  \/ {a.class, b.class} = {"word", "op"} /\ ~(a.type \in {"INTEGER", "DOUBLE"} /\ b.text[1] = ".")

Write(lexeme, gap) ==
  /\ status = "writing" /\ Len(written) < MaxLexemes
  /\ written # <<>> /\ Last(written).gap = <<>> => Apart(Last(written).lexeme, lexeme)
  /\ text' = text \o lexeme.text \o gap
  /\ written' = Append(written, [lexeme |-> lexeme, gap |-> gap])
  /\ UNCHANGED <<pcur, aTokens, status>>

\* parse() is called.
Parse ==
  /\ status = "writing" /\ status' = "scanning" /\ pcur' = 1 /\ aTokens' = <<>>
  /\ UNCHANGED <<text, written>>

read_name ==
  LET j == Over(From, Name)
  IN Scanning /\ Ch \in NameStart /\ Take(IF Part(From, j) \in Keywords THEN "KEY" ELSE "ID", j)

Exponent(i) ==
  IF At(i) = "e" THEN Over(IF At(i + 1) \in {"+", "-"} THEN i + 2 ELSE i + 1, Digits) ELSE i

read_number ==
  LET whole == Over(From, Digits)
      dot == At(whole) = "."
  IN /\ Scanning /\ Ch \in Digits
     /\ IF dot THEN Take("DOUBLE", Exponent(Over(whole + 1, Digits))) ELSE Take("INTEGER", Exponent(whole))

\* The strings that follow each other are one token; f is [ok, i, sb].
Escape == [n |-> "\n", t |-> "\t", r |-> "\r"]
RECURSIVE Chars(_, _)
Chars(i, sb) ==
  LET j == To(i, {"\"", "\\"})
      more == sb \o Part(i, j)
      c == At(j + 1)
      next == Over(j + 1, Blank)
  IN  CASE At(j) = "" -> [ok |-> FALSE]
        [] At(j) = "\"" -> IF At(next) = "\"" THEN Chars(next + 1, more) ELSE [ok |-> TRUE, i |-> next, sb |-> more]
        [] At(j) = "\\" /\ c \in DOMAIN Escape -> Chars(j + 2, Append(more, Escape[c]))
        [] At(j) = "\\" /\ c \in {"\\", "\""} -> Chars(j + 2, Append(more, c))
        [] At(j) = "\\" /\ c = "\n" -> Chars(j + 2, more)
        [] OTHER -> [ok |-> FALSE]

read_string ==
  LET f == Chars(From + 1, <<>>)
  IN /\ Scanning /\ Ch = "\""
     /\ IF ~f.ok THEN Error
        ELSE /\ aTokens' = Append(aTokens, Tok("STRING", f.sb)) /\ pcur' = f.i
             /\ UNCHANGED <<text, written, status>>

\* A comment, to the end of the line, which the text must have.
read_comment1 ==
  LET j == To(From + 2, {"\n"})
  IN /\ Scanning /\ Ch = "/" /\ Ch2 = "/"
     /\ IF At(j) = "" THEN Error ELSE pcur' = j + 1 /\ UNCHANGED <<text, written, aTokens, status>>

\* A comment, to the first "*/" behind the character that follows its beginning.
read_comment2 ==
  LET ends == {j \in From + 3..Len(text) : At(j) = "/" /\ At(j - 1) = "*"}
  IN /\ Scanning /\ Ch = "/" /\ Ch2 = "*"
     /\ IF ends = {} THEN Error ELSE pcur' = Min(ends) + 1 /\ UNCHANGED <<text, written, aTokens, status>>

\* An operator, and the one with "=" behind it.
read_op2_a ==
  /\ Scanning /\ Ch \in {"/", "*", "%", ">", "<", "!", "="} /\ (Ch = "/" => Ch2 \notin {"/", "*"})
  /\ Take("OP", IF Ch2 = "=" THEN From + 2 ELSE From + 1)

\* "+" and "-", doubled or with "="
read_op2_b ==
  /\ Scanning /\ Ch \in {"+", "-"} /\ ~(Ch = "-" /\ Ch2 = ">")
  /\ Take("OP", IF Ch2 \in {Ch, "="} THEN From + 2 ELSE From + 1)

read_ptr == Scanning /\ Ch = "-" /\ Ch2 = ">" /\ Take("PTR", From + 2)

\* "|", "&" and "^", doubled, and with "="
read_op2_c ==
  LET j == IF Ch2 = Ch THEN From + 2 ELSE From + 1
  IN /\ Scanning /\ Ch \in {"|", "&", "^"}
     /\ Take("OP", IF At(j) = "=" THEN j + 1 ELSE j)

read_dot ==
  /\ Scanning /\ Ch = "."
  /\ CASE Ch2 \in {"*", "/"} -> Take("OP", From + 2)
       [] Ch2 = "." -> IF At(From + 2) = "." THEN Take("ID", From + 3) ELSE Take("OP", From + 2)
       [] Ch2 \notin {"*", "/", "."} -> Take("DOT", From + 1)

Mark == [c \in {"~", "(", ")", "[", "]", "{", "}", "?", ":", ";", ","} |->
  CASE c = "~" -> "OP"     [] c = "(" -> "BRA1"  [] c = ")" -> "KET1"     [] c = "[" -> "BRA2"
    [] c = "]" -> "KET2"   [] c = "{" -> "BRA3"  [] c = "}" -> "KET3"     [] c = "?" -> "QUESTION"
    [] c = ":" -> "COLON"  [] c = ";" -> "SEMICOLON"  [] c = "," -> "COMMA"]
read_mark == Scanning /\ Ch \in DOMAIN Mark /\ Take(Mark[Ch], From + 1)

read_end ==
  /\ Scanning /\ Ch = ""
  /\ status' = "done" /\ aTokens' = Append(aTokens, Tok("END", <<>>)) /\ pcur' = From
  /\ UNCHANGED <<text, written>>

Unexpected ==
  /\ Scanning /\ Error
  /\ Ch \notin Name \cup DOMAIN Mark \cup {"", "\"", "/", "*", "%", ">", "<", "!", "=", "+", "-", "|", "&", "^", "."}

Next ==
  \/ \E lexeme \in Lexemes, gap \in Gaps : Write(lexeme, gap)
  \/ Parse
  \/ read_name \/ read_number \/ read_string \/ read_comment1 \/ read_comment2 \/ read_op2_a
  \/ read_op2_b \/ read_ptr \/ read_op2_c \/ read_dot \/ read_mark \/ read_end \/ Unexpected

Spec == Init /\ [][Next]_vars

-----------------------------------------------------------------------------
(* Properties. *)

\* The tokens of an author: comments are none, and strings are one when nothing but a gap is
\* between them.
Meant ==
  LET Joined(toks, w, before) ==
        LET x == w.lexeme
        IN  CASE x.type = "COMMENT" -> toks
              [] x.type = "STRING" /\ before = "STRING" ->
                   [toks EXCEPT ![Len(toks)].word = @ \o x.word]
              [] OTHER -> Append(toks, Tok(x.type, x.word))
      f[n \in 0..Len(written)] ==
        IF n = 0 THEN <<>>
        ELSE Joined(f[n - 1], written[n], IF n = 1 THEN "" ELSE written[n - 1].lexeme.type)
  IN  f[Len(written)]

\* A script comes apart into the tokens it was written with, whatever stands next to each other,
\* and one that closes its strings and comments is not refused (Scanner::parse).
TokensAreMeant ==
  /\ status = "done" => aTokens = Append(Meant, Tok("END", <<>>))
  /\ status = "error" => \E n \in DOMAIN written : written[n].lexeme.type = "BROKEN"
=============================================================================
