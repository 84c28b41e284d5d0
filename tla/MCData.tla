------------------------------- MODULE MCData -------------------------------
(***************************************************************************)
(* Small instances of the counted pointers, of the containers, of the      *)
(* cutters of streams and of texts, and of the scripts, checked in one     *)
(* run: which says the part that moves, the others stay as they begin.     *)
(* Pointers, Indexer, Arr, RingBuffer and Q2Packet are extended, the other *)
(* ones are instances.                                                     *)
(***************************************************************************)
EXTENDS Pointers, Indexer, Arr, RingBuffer, Q2Packet, TLC

CONSTANTS t1, t2,                                                         \* Pointers
          Policies, MaxSize,                                              \* BstTree
          Pieces, MaxPieces, LineSizes, Written,                          \* LinearBuffer
          Lexemes, Gaps, MaxLexemes, Letters, Digits,                     \* Scanner
          IntOf, Natives, MaxStack                                        \* Scripts

VARIABLES which,
          policy, multi, tree,                                        \* BstTree
          data, at, sz_buf, ext, puts, result,                        \* LinearBuffer
          text, lexemes, pcur, aTokens, scan,                         \* Scanner
          code, frames, stack, nsp, vbp, table, heap, status, want    \* Scripts

\* The pointers of each thread.
TwoAndOne == [t \in Threads |-> IF t = t1 THEN {"p", "q"} ELSE {"p"}]

ASSUME ReferencesAssumption == PointersAssumption

\* Sets of up to seven keys; bags of two keys with two values.
TreeKeys == FALSE :> 1..7 @@ TRUE :> 1..2
TreeVals == FALSE :> {1} @@ TRUE :> {1, 2}

\* Numbers, complex numbers and words in pieces, and what they are.
TablePieces ==
  {<<"7">>, <<"-", "1">>, <<".", "5">>, <<"e", "2">>, <<"(", "7", ",">>, <<")", "\n">>, <<" ">>, <<"\n">>,
   <<"/", "/">>, <<"x">>, <<"7", "\n", "7">>, <<" ", "7", "\n">>}
NumbersAs == <<"7">> :> <<7, 0>> @@ <<"-", "1">> :> <<-1, 0>> @@ <<"-", "1", ".", "5">> :> <<-15, -1>>
  @@ <<"7", "e", "2">> :> <<7, 2>> @@ <<"-", "1", "e", "2">> :> <<-1, 2>> @@ <<"7", ".", "5", "e", "2">> :> <<75, 1>>
ComplexesAs == <<"(", "7", ",", "-", "1", ")">> :> <<<<7, 0>>, <<-1, 0>>>>
  @@ <<"(", "7", ",", ".", "5", ")">> :> <<<<7, 0>>, <<5, -1>>>>
WordsAs == [w \in {<<"7">>, <<"x">>, <<"7", "/", "/", "x">>, <<"-", "1">>} |-> w]
WrittenAs == [number |-> NumbersAs, complex |-> ComplexesAs, word |-> WordsAs]

\* Lexemes of each kind, and two that are none.
Lexeme(t, type, class) == [text |-> t, type |-> type, word |-> t, class |-> class]
EachLexeme ==
  {Lexeme(<<"x", "1">>, "ID", "word"), Lexeme(<<"i", "f">>, "KEY", "word"),
   Lexeme(<<"1", "2">>, "INTEGER", "word"), Lexeme(<<"1", ".", "e", "-", "2">>, "DOUBLE", "word"),
   [Lexeme(<<"\"", "i", "\\", "n", "\\", "\"", "\"">>, "STRING", "mark") EXCEPT !.word = <<"i", "\n", "\"">>],
   Lexeme(<<"/", "/", "x", "\n">>, "COMMENT", "mark"), Lexeme(<<"/", "*", "/", "*", "/">>, "COMMENT", "mark"),
   Lexeme(<<"/">>, "OP", "op"), Lexeme(<<"<", "=">>, "OP", "op"), Lexeme(<<"-">>, "OP", "op"),
   Lexeme(<<"-", ">">>, "PTR", "op"), Lexeme(<<"|", "|", "=">>, "OP", "op"), Lexeme(<<".">>, "DOT", "op"),
   Lexeme(<<".", ".", ".">>, "ID", "op"), Lexeme(<<".", "*">>, "OP", "op"), Lexeme(<<"(">>, "BRA1", "mark"),
   [Lexeme(<<"$">>, "BROKEN", "mark") EXCEPT !.word = <<>>],
   Lexeme(<<"\"", "x", "\\", "q", "\"">>, "BROKEN", "mark")}
NoneOrBoth == {<<>>, <<" ", "\n">>}

\* The numbers that scripts are written with, and the functions of the library.
Numerals == [w \in {ToString(n) : n \in 0..12} |-> CHOOSE n \in 0..12 : ToString(n) = w]
LibraryNames == {"table", "metatable", "get_iterator", "is_nil", "table_size"}

Tree == INSTANCE BstTree WITH Keys <- TreeKeys, Vals <- TreeVals
Buffer == INSTANCE LinearBuffer WITH Sizes <- LineSizes, rd_pos <- at, table <- result
Tokens == INSTANCE Scanner WITH written <- lexemes, status <- scan
Language == INSTANCE Scripts

treeVars == <<policy, multi, tree>>
bufferVars == <<data, at, sz_buf, ext, puts, result>>
tokenVars == <<text, lexemes, pcur, aTokens, scan>>
scriptVars == <<code, frames, stack, nsp, vbp, table, heap, status, want>>
refVars == <<counts, made, gone, ptr, group, todo, reads>>
allVars == <<which, refVars, treeVars, indexerVars, arrayVars, packetVars, ringVars,
             bufferVars, tokenVars, scriptVars>>

Parts == {"pointers", "tree", "index", "array", "packets", "ring", "buffer", "tokens", "script"}

AnyInit ==
  /\ which \in Parts
  /\ Init /\ Tree!Init /\ IndexerInit /\ ArrayInit /\ PacketInit /\ RingInit
  /\ Buffer!Init /\ Tokens!Init
  /\ which # "pointers" => gone = CHOOSE b \in Before : TRUE
  /\ which # "tree" => policy = "rbt" /\ ~multi
  /\ which # "index" => load = CHOOSE z \in Loads : TRUE
  /\ IF which = "script" THEN Language!Init ELSE Language!Load(<<>>) /\ want = <<>>

\* The parts that do not move.
Still(part) ==
  CASE part = "pointers" -> UNCHANGED refVars
    [] part = "tree"     -> UNCHANGED treeVars
    [] part = "index"    -> UNCHANGED indexerVars
    [] part = "array"    -> UNCHANGED arrayVars
    [] part = "packets"  -> UNCHANGED packetVars
    [] part = "ring"     -> UNCHANGED ringVars
    [] part = "buffer"   -> UNCHANGED bufferVars
    [] part = "tokens"   -> UNCHANGED tokenVars
    [] part = "script"   -> UNCHANGED scriptVars

AnyNext ==
  /\ \/ which = "pointers" /\ Next
     \/ which = "tree" /\ Tree!Next
     \/ which = "index" /\ IndexerNext
     \/ which = "array" /\ ArrayNext
     \/ which = "packets" /\ PacketNext
     \/ which = "ring" /\ RingNext
     \/ which = "buffer" /\ Buffer!Next
     \/ which = "tokens" /\ Tokens!Next
     \/ which = "script" /\ Language!Next
  /\ UNCHANGED which
  /\ \A part \in Parts \ {which} : Still(part)

AnySpec == AnyInit /\ [][AnyNext]_allVars

-----------------------------------------------------------------------------
(* The properties of the instances; those of the other modules have their names. *)

\* BstTree: bst_map, bst_set, bst_multimap and bst_multiset are sorted bags, rbt_tree_policy and
\* avl_tree_policy keep the tree balanced, and find, lower_bound, upper_bound and the iterators
\* agree with the order.
TreesKeep ==
  /\ Tree!Bag!Init /\ [][which = "tree" => Tree!Bag!Next]_<<Tree!Items, multi>>
  /\ [](which = "tree" => Tree!Balanced /\ Tree!SearchesAgree)

\* LinearBuffer, Scanner: parse() gives the table that was written, and the lexemes that were
\* written, or refuses what is none.
TextsAreRead ==
  /\ which = "buffer" => Buffer!TableComesOut
  /\ which = "tokens" => Tokens!TokensAreMeant

\* Scripts: the parser, the code generator and the executor do what a script says, and each
\* call takes back what it has put on the stack of the executor.
ScriptMeansItsProgram ==
  which = "script" => Language!ScriptMeansItsProgram /\ Language!MarksTakenBack
=============================================================================
