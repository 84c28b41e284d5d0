--------------------------- MODULE ScriptCompiler ---------------------------
(***************************************************************************)
(* Parser (src/vhwd/scripting/parser.cpp): from the tokens of a script to  *)
(* its tree, by recursive descent.  A reader takes the position of the     *)
(* next token and returns the node it read and the position behind it.     *)
(* Position 0 stands for a thrown error; it stays 0.                       *)
(*                                                                         *)
(* CodeGen (src/vhwd/scripting/codegen*.cpp): from the tree of a script to *)
(* its instructions.  A generator g is a record; a visitor returns the     *)
(* generator after the node was visited.  Constants stand in the           *)
(* instructions instead of in a pool.                                      *)
(*                                                                         *)
(* Not modelled: doubles and strings, a[...] and a:b:c (library arrays),   *)
(* a->f(...).                                                              *)
(***************************************************************************)
EXTENDS Integers, Sequences, SequencesExt, FiniteSetsExt, TLC

CONSTANTS IntOf,     \* the integer tokens, with their values
          Natives    \* the names in Executor::ggvar that scripts use

Keywords == {"if", "else", "do", "while", "for", "switch", "global", "local", "break", "continue",
             "continue2", "break2", "break3", "return", "class", "function", "case",
             "default", "true", "false", "nil", "end", "for_each", "in"}

\* op2priority_map
Priority ==
  [w \in {"++", "--", "~", "!"} |-> 10] @@ [w \in {"&", "|", "^"} |-> 8]
    @@ [w \in {".*", "./", "*", "/"} |-> 7] @@ [w \in {"%"} |-> 6] @@ [w \in {"+", "-"} |-> 5]
    @@ [w \in {">", "<", ">=", "<=", "==", "!="} |-> 3] @@ [w \in {"&&", "||", "^^", ".."} |-> 2]
    @@ [w \in {"=", "+=", "-=", "*=", "/=", "&=", "|=", "^="} |-> 0]
Assignments == {w \in DOMAIN Priority : Priority[w] = 0}

Marks == {"(", ")", "[", "]", "{", "}", ";", ",", ":", ".", "eof"}
IsOp(w) == w \in DOMAIN Priority
IsId(w) == w \notin Keywords \cup Marks \cup DOMAIN Priority \cup DOMAIN IntOf \cup {"error"}

\* The token at position p of ts, which ends with "eof"
Tok(ts, p) == IF p = 0 THEN "error" ELSE ts[p]

\* ++pcur; match: an error unless the token is w; kerror
Adv(p) == IF p = 0 THEN 0 ELSE p + 1
Match(ts, p, w) == IF Tok(ts, p) = w THEN p + 1 ELSE 0
Read(node, p) == [n |-> node, p |-> p]
Error == Read([k |-> "none"], 0)
None == [k |-> "none"]

StmtEnd(w) == w \in {"case", "default", "eof", ")", "]", "}", "error"}
ExprEnd(w) == w \in {"eof", ")", "]", "}", ";", "error"}

-----------------------------------------------------------------------------
(* Nodes *)

Var(name)      == [k |-> "var", name |-> name, local |-> FALSE]
Nil            == [k |-> "nil"]
List(es)       == [k |-> "list", list |-> es]
Assign(op, l, r) == [k |-> "assign", op |-> op, l |-> l, r |-> r]
Localised(node) ==
  CASE node.k = "var"  -> [node EXCEPT !.local = TRUE]
    [] node.k = "vars" -> [node EXCEPT !.list = [i \in DOMAIN @ |-> [@[i] EXCEPT !.local = TRUE]]]
    [] OTHER           -> node

-----------------------------------------------------------------------------
RECURSIVE UnaryOps(_, _), Ids(_, _, _)
\* the operators in front of an operand
UnaryOps(ts, p) ==
  IF ~IsOp(Tok(ts, p)) THEN [n |-> <<>>, p |-> p]
  ELSE IF Tok(ts, p) \notin {"+", "-", "!", "~", "++", "--"} THEN [n |-> <<>>, p |-> 0]
  ELSE LET more == UnaryOps(ts, p + 1) IN [more EXCEPT !.n = <<Tok(ts, p)>> \o @]

\* TNode_variable_list
Ids(ts, p, vs) ==
  IF ~IsId(Tok(ts, p)) THEN Read([k |-> "vars", list |-> vs], p)
  ELSE LET vs2 == Append(vs, Var(Tok(ts, p)))
       IN  IF Tok(ts, p + 1) # "," THEN Read([k |-> "vars", list |-> vs2], p + 1)
           ELSE IF IsId(Tok(ts, p + 2)) THEN Ids(ts, p + 2, vs2)
           ELSE Read([k |-> "vars", list |-> vs2], 0)
VarList(ts, p) == Ids(ts, p, <<>>)

\* The rules that call each other; the others call only themselves and what is above them.
RECURSIVE Rule(_, _, _, _)
Level(N, ts, p) == Rule("level", N, ts, p)
Exprs(ts, p)    == Rule("exprs", 0, ts, p)
Stmt(ts, p)     == Rule("stmt", 0, ts, p)

\* Statements of a block
RECURSIVE Stmts(_, _, _)
Stmts(ts, p, ss) ==
  LET After(s) == Stmts(ts, s.p, Append(ss, s.n))
  IN  IF StmtEnd(Tok(ts, p)) THEN Read([k |-> "stmts", list |-> ss], p) ELSE After(Stmt(ts, p))

Block(ts, p) ==
  LET Of(b) == Read([b.n EXCEPT !.k = "block"], Match(ts, b.p, "}"))
  IN  Of(Stmts(ts, Match(ts, p, "{"), <<>>))

\* TNode_val_function, TNode_val_class
Name(ts, p) == IF IsId(Tok(ts, p)) THEN Tok(ts, p) ELSE ""
BehindName(ts, p) == IF IsId(Tok(ts, p)) THEN p + 1 ELSE p

Function(ts, p) ==
  LET Of(vs, b) == Read([k |-> "function", name |-> Name(ts, Adv(p)), parms |-> vs.n.list, body |-> b.n], b.p)
      After(vs) == Of(vs, Block(ts, Match(ts, vs.p, ")")))
  IN  After(VarList(ts, Match(ts, BehindName(ts, Adv(p)), "(")))

Class(ts, p) ==
  LET Of(b) == Read([k |-> "class", name |-> Name(ts, Adv(p)), body |-> b.n], b.p)
  IN  Of(Block(ts, BehindName(ts, Adv(p))))

\* TNode_item
Item(ts, p) ==
  LET w == Tok(ts, p)
  IN  CASE IsId(w)              -> Read(Var(w), p + 1)
        [] w \in DOMAIN IntOf   -> Read([k |-> "int", v |-> IntOf[w]], p + 1)
        [] w \in {"true", "false"} -> Read([k |-> "bool", v |-> w = "true"], p + 1)
        [] w = "nil"            -> Read(Nil, p + 1)
        [] w = "function"       -> Function(ts, p)
        [] w = "class"          -> Class(ts, p)
        [] OTHER                -> Error

RECURSIVE Selected(_, _, _)
\* read_expr_handler<9>, its loop over .id and (list), and the postfix operators
Selected(ts, p, node) ==
  CASE Tok(ts, p) = "." ->
         IF IsId(Tok(ts, p + 1))
           THEN Selected(ts, p + 2, [k |-> "dot", tbl |-> node, name |-> Tok(ts, p + 1)])
           ELSE Error
    [] Tok(ts, p) = "(" ->
         LET ps == Exprs(ts, p + 1)
         IN  Selected(ts, Match(ts, ps.p, ")"), [k |-> "call", tbl |-> node, parm |-> ps.n])
    [] OTHER -> Read(node, p)

Op1(op, node, post) == [k |-> "op1", op |-> op, parm |-> node, post |-> post]

RECURSIVE Postfixes(_, _, _)
Postfixes(ts, p, node) ==
  IF Tok(ts, p) \in {"++", "--"} THEN Postfixes(ts, p + 1, Op1(Tok(ts, p), node, TRUE))
  ELSE Read(node, p)

Operand(ts, p) ==
  LET ops == UnaryOps(ts, p)
      in  == Level(2, ts, ops.p + 1)
      Of(b) == Postfixes(ts, b.p, FoldRight(LAMBDA op, n : Op1(op, n, FALSE), ops.n, b.n))
      After(a) == Of(Selected(ts, a.p, a.n))
  IN  After(IF Tok(ts, ops.p) = "(" THEN Read(in.n, Match(ts, in.p, ")")) ELSE Item(ts, ops.p))

RECURSIVE Chain(_, _, _, _)
\* read_expr_handler<N>: left-associative operators of priority N
Chain(N, ts, p, node) ==
  IF ~IsOp(Tok(ts, p)) \/ Priority[Tok(ts, p)] # N THEN Read(node, p)
  ELSE LET r == Level(N + 1, ts, p + 1)
       IN  Chain(N, ts, r.p, [k |-> "op2", op |-> Tok(ts, p), l |-> node, r |-> r.n])

ReadLevel(N, ts, p) ==
  IF p = 0 THEN Error
  ELSE IF N = 9 THEN Operand(ts, p)
  ELSE LET l == Level(N + 1, ts, p) IN Chain(N, ts, l.p, l.n)

\* read_expr_handler<1>: the expressions of a list; each lonely comma stands for a nil
RECURSIVE Commas(_, _)
Commas(ts, p) == IF Tok(ts, p) = "," THEN Commas(ts, p + 1) ELSE p

RECURSIVE ListFrom(_, _, _)
ListFrom(ts, p, es) ==
  LET q   == Commas(ts, p)
      es2 == es \o [i \in 1..q - p |-> Nil]
      e   == Level(2, ts, q)
  IN  IF Tok(ts, q) \in Assignments \/ ExprEnd(Tok(ts, q)) THEN Read(List(es2), q)
      ELSE IF Tok(ts, e.p) = "," THEN ListFrom(ts, e.p + 1, Append(es2, e.n))
      ELSE Read(List(Append(es2, e.n)), e.p)

Expr1(ts, p, local) ==
  CASE Tok(ts, p) = "function" -> Function(ts, p)
    [] Tok(ts, p) = "class"    -> Class(ts, p)
    [] OTHER ->
         LET vs == VarList(ts, p)
         IN  IF local THEN Read(Localised(vs.n), vs.p) ELSE ListFrom(ts, p, <<>>)

\* TNode_expression_list
ReadExprs(ts, p) ==
  LET Of(e) == IF e.n.k = "list" THEN e ELSE Read(List(<<e.n>>), e.p)
  IN  IF ExprEnd(Tok(ts, p)) THEN Read(List(<<>>), p) ELSE Of(Expr1(ts, p, FALSE))

RECURSIVE Assigned(_, _, _)
\* read_expr_handler<0>: a function or class with its name, assignments, or a bare expression
Assigned(ts, p, node) ==
  LET After(r) == Assigned(ts, r.p, Assign(Tok(ts, p), node, r.n))
  IN  IF Tok(ts, p) \notin Assignments THEN Read(node, p) ELSE After(Expr1(ts, p + 1, FALSE))

Expr0(ts, p) ==
  LET local == Tok(ts, p) = "local"
      Named(e) == IF local THEN Localised(Var(e.n.name)) ELSE Var(e.n.name)
      After(e) ==
        CASE e.n.k \in {"function", "class"} -> Read(Assign("=", Named(e), [e.n EXCEPT !.name = ""]), e.p)
          [] e.n.k \notin {"function", "class"} /\ Tok(ts, e.p) \in Assignments ->
               Assigned(ts, e.p, e.n)
          [] OTHER -> Read(IF local THEN Assign("=", e.n, Nil) ELSE Assign("=", Nil, e.n), e.p)
  IN  After(Expr1(ts, IF local THEN p + 1 ELSE p, local))

-----------------------------------------------------------------------------
(* Statements *)

If(ts, p) ==
  LET c  == Level(2, ts, Match(ts, Adv(p), "("))
      s1 == Stmt(ts, Match(ts, c.p, ")"))
      s0 == Stmt(ts, Adv(s1.p))
  IN  IF Tok(ts, s1.p) = "else"
        THEN Read([k |-> "if", cond |-> c.n, s1 |-> s1.n, s0 |-> s0.n], s0.p)
        ELSE Read([k |-> "if", cond |-> c.n, s1 |-> s1.n, s0 |-> None], s1.p)

Loop(name, init, cond, fini, body) ==
  [k |-> "loop", name |-> name, init |-> init, cond |-> cond, fini |-> fini, body |-> body]

\* an expression, or none in front of end
Cond(ts, p, end) == IF Tok(ts, p) = end THEN Read(None, p) ELSE Level(2, ts, p)

Do(ts, p) ==
  LET b == Stmt(ts, Adv(p))
      c == Cond(ts, Match(ts, Match(ts, b.p, "while"), "("), ")")
  IN  Read(Loop("do", None, c.n, None, b.n), Match(ts, c.p, ")"))

While(ts, p) ==
  LET c == Cond(ts, Match(ts, Adv(p), "("), ")")
      b == Stmt(ts, Match(ts, c.p, ")"))
  IN  Read(Loop("while", None, c.n, None, b.n), b.p)

For(ts, p) ==
  LET i == Stmt(ts, Match(ts, Adv(p), "("))
      c == Cond(ts, i.p, ";")
      f == Stmt(ts, Match(ts, c.p, ";"))
      b == Stmt(ts, Match(ts, f.p, ")"))
  IN  Read(Loop("for", i.n, c.n, f.n, b.n), b.p)

ForEach(ts, p) ==
  LET vs == VarList(ts, Match(ts, Adv(p), "("))
      c  == Level(2, ts, Match(ts, vs.p, "in"))
      b  == Stmt(ts, Match(ts, c.p, ")"))
  IN  Read([k |-> "for_each", vars |-> vs.n.list, container |-> c.n, body |-> b.n], b.p)

RECURSIVE CaseVals(_, _, _), Cases(_, _, _)
\* The cases of a switch; a default has no values
CaseVals(ts, p, vs) ==
  LET After(v) == CASE Tok(ts, v.p) = ":" -> Read(Append(vs, v.n), v.p + 1)
                    [] Tok(ts, v.p) = "," -> CaseVals(ts, v.p + 1, Append(vs, v.n))
                    [] OTHER -> Read(vs, 0)
  IN  After(Item(ts, p))

Cases(ts, p, cs) ==
  LET Of(vs, b) == Cases(ts, b.p, Append(cs, [vals |-> vs.n, body |-> b.n]))
      After(vs) == Of(vs, Stmts(ts, vs.p, <<>>))
  IN  CASE Tok(ts, p) = "case"    -> After(CaseVals(ts, p + 1, <<>>))
        [] Tok(ts, p) = "default" -> After(Read(<<>>, Match(ts, Adv(p), ":")))
        [] OTHER -> Read(cs, p)

Switch(ts, p) ==
  LET c == Level(2, ts, Match(ts, Adv(p), "("))
      Of(cs) == Read([k |-> "switch", cond |-> c.n, cases |-> cs.n], Match(ts, cs.p, "}"))
  IN  Of(Cases(ts, Match(ts, Match(ts, c.p, ")"), "{"), <<>>))

\* read_node_handler<TNode_statement>.  No case takes the other keywords: the caller reads
\* them again and again, here an error.
Statement(ts, p) ==
  LET w == Tok(ts, p)
      Eval(e) == Read([k |-> "eval", value |-> e.n], e.p)
      Return(e) == Read([k |-> "return", value |-> e.n], e.p)
  IN  CASE w = ";" \/ (StmtEnd(w) /\ w \notin Keywords) -> Read([k |-> "nop"], p)
        [] w = "if"     -> If(ts, p)
        [] w = "do"     -> Do(ts, p)
        [] w = "while"  -> While(ts, p)
        [] w = "for"    -> For(ts, p)
        [] w = "for_each" -> ForEach(ts, p)
        [] w = "switch" -> Switch(ts, p)
        [] w = "{"      -> Block(ts, p)
        [] w \in {"break", "continue", "continue2", "break2", "break3"} ->
             Read([k |-> "control", name |-> w], p + 1)
        [] w = "return" -> Return(Exprs(ts, Adv(p)))
        [] w \in Keywords \ {"function", "local", "class"} -> Error
        [] OTHER        -> Eval(Expr0(ts, p))

ReadStmt(ts, p) ==
  LET Of(s) == Read(s.n, IF Tok(ts, s.p) = ";" THEN s.p + 1 ELSE s.p)
  IN  IF p = 0 THEN Error ELSE Of(Statement(ts, p))

Rule(name, N, ts, p) ==
  CASE name = "level" -> ReadLevel(N, ts, p)
    [] name = "exprs" -> ReadExprs(ts, p)
    [] name = "stmt"  -> ReadStmt(ts, p)

\* Parser::parse
Parse(ts) == Stmts(ts, 1, <<>>)

-----------------------------------------------------------------------------
(* The code generator *)

Lists == {"vars", "list"}

\* syn_scope_function: instructions; blocks of locals; parameters; open jumps of breaks
\* (l1) and continues (l2); number of locals; slot of this.  funs: all code objects.
NewScope(g) ==
  [g EXCEPT !.ins = <<>>, !.parms = <<>>, !.l1 = <<>>, !.l2 = <<>>, !.nl = 0, !.this = 0,
            !.blocks = <<[base |-> 0, vars |-> <<>>], [base |-> 0, vars |-> <<>>]>>]
NewGen == NewScope([ins |-> 0, parms |-> 0, l1 |-> 0, l2 |-> 0, nl |-> 0, this |-> 0,
                    blocks |-> 0, funs |-> <<>>, case |-> <<>>, err |-> FALSE])

Emit(g, op, pm) == [g EXCEPT !.ins = Append(@, <<op, pm>>)]
kerror(g) == [g EXCEPT !.err = TRUE]
Here(g) == Len(g.ins)
SetParm(g, at, pm) == [g EXCEPT !.ins[at + 1][2] = pm]
SetParms(g, ats, pm) == FoldLeft(LAMBDA h, at : SetParm(h, at, pm), g, ats)

\* lock_block, unlock_block
LocalNum(b) == b.base + Len(b.vars)
\* Mutant: the locals of a block take the slots of the outer ones
OpenBlockAtZero(g) == [g EXCEPT !.blocks = Append(@, [base |-> 0, vars |-> <<>>])]
OpenBlock(g) == [g EXCEPT !.blocks = Append(@, [base |-> LocalNum(Last(@)), vars |-> <<>>])]
CloseBlock(g) == [g EXCEPT !.nl = Max({@, LocalNum(Last(g.blocks))}), !.blocks = Front(@)]

\* lock_loop1/2, add_loop1/2, set_loop1/2 with unlock_loop1/2
OpenLoop1(g)  == [g EXCEPT !.l1 = Append(@, <<>>)]
OpenLoop2(g)  == [g EXCEPT !.l2 = Append(@, <<>>)]
AddLoop1(g, up, at) == [g EXCEPT !.l1[Len(g.l1) - up] = Append(@, at)]
AddLoop2(g, up, at) == [g EXCEPT !.l2[Len(g.l2) - up] = Append(@, at)]
CloseLoop1(g, at) == [SetParms(g, Last(g.l1), at) EXCEPT !.l1 = Front(@)]
CloseLoop2(g, at) == [SetParms(g, Last(g.l2), at) EXCEPT !.l2 = Front(@)]

Pos(vars, name) == SelectInSeq(vars, LAMBDA v : v = name)

\* find_local: the slot of a visible local, 0 if there is none
find_local(g, name) ==
  LET bs == {b \in DOMAIN g.blocks : Pos(g.blocks[b].vars, name) # 0}
  IN  IF bs = {} THEN 0 ELSE g.blocks[Max(bs)].base + Pos(g.blocks[Max(bs)].vars, name)

\* indexer_map::find2 on the variables of the last block
Declare(g, name) ==
  IF Pos(Last(g.blocks).vars, name) # 0 THEN g
  ELSE [g EXCEPT !.blocks[Len(g.blocks)].vars = Append(@, name)]

\* add_local: the slot it returns does not count the locals of the outer blocks
add_local(g, name) == Pos(Last(Declare(g, name).blocks).vars, name)

-----------------------------------------------------------------------------
\* pmc: how many values a node leaves on the stack, -1 if unknown
RECURSIVE pmc(_)
pmc(n) ==
  CASE n.k \in Lists ->
         LET cs == [i \in DOMAIN n.list |-> pmc(n.list[i])]
         IN  IF \E i \in DOMAIN cs : cs[i] < 0 THEN -1 ELSE FoldLeft(LAMBDA a, b : a + b, 0, cs)
    [] n.k = "assign" -> pmc(n.l)
    [] n.k = "call"   -> -1
    [] OTHER          -> 1

\* TNodeVisitorCG_Analyzer: x += e becomes x = x + e
OpOf == [w \in {"+=", "-=", "*=", "/=", "&=", "|=", "^="} |->
           CASE w = "+=" -> "+" [] w = "-=" -> "-" [] w = "*=" -> "*" [] w = "/=" -> "/"
             [] w = "&=" -> "&" [] w = "|=" -> "|" [] w = "^=" -> "^"]
Expanded(n) ==
  IF n.op = "=" THEN n
  ELSE [n EXCEPT !.op = "=", !.r = [k |-> "op2", op |-> OpOf[n.op], l |-> n.l, r |-> n.r]]

\* Whether a function's body names this: TNodeVisitorCG_Analyzer counts it, but not in the
\* functions inside.
RECURSIVE UsesThis(_)
UsesThis(n) ==
  LET InSome(ns) == \E i \in DOMAIN ns : UsesThis(ns[i])
  IN  CASE n.k = "var"      -> n.name = "this"
        [] n.k \in {"stmts", "block", "list", "vars"} -> InSome(n.list)
        [] n.k = "eval"     -> UsesThis(n.value)
        [] n.k = "return"   -> UsesThis(n.value)
        [] n.k = "assign"   -> UsesThis(n.l) \/ UsesThis(n.r)
        [] n.k = "op1"      -> UsesThis(n.parm)
        [] n.k = "op2"      -> UsesThis(n.l) \/ UsesThis(n.r)
        [] n.k = "call"     -> UsesThis(n.tbl) \/ UsesThis(n.parm)
        [] n.k = "dot"      -> UsesThis(n.tbl)
        [] n.k = "if"       -> UsesThis(n.cond) \/ UsesThis(n.s1) \/ UsesThis(n.s0)
        [] n.k = "loop"     -> InSome(<<n.init, n.cond, n.fini, n.body>>)
        [] n.k = "for_each" -> UsesThis(n.container) \/ UsesThis(n.body)
        [] n.k = "switch"   -> UsesThis(n.cond) \/ \E i \in DOMAIN n.cases : UsesThis(n.cases[i].body)
        [] OTHER            -> FALSE

Const(n) == CASE n.k = "int"  -> <<"int", n.v>>
              [] n.k = "bool" -> <<"bool", n.v>>
              [] n.k = "nil"  -> <<"nil">>
              [] OTHER        -> <<"none">>

-----------------------------------------------------------------------------
\* The two visitors: a node as a value, and as the target of an assignment
RECURSIVE Visit(_, _, _)
Rv(n, g) == Visit("right", n, g)
Lv(n, g) == Visit("left", n, g)

RECURSIVE RvAll(_, _), LvAll(_, _), CasesAll(_, _)

\* from the first to the last, from the last to the first; an error ends it
RvAll(ns, g) == IF ns = <<>> \/ g.err THEN g ELSE RvAll(Tail(ns), Rv(Head(ns), g))
LvAll(ns, g) == IF ns = <<>> \/ g.err THEN g ELSE LvAll(Front(ns), Lv(Last(ns), g))

\* pmadj: exactly pm values of node n
pmadj(n, g, pm) ==
  IF pmc(n) = pm THEN Rv(n, g)
  ELSE Emit(Emit(Rv(n, Emit(g, "PROG1", 0)), "PMADJ", pm), "PROG2", 0)

RvVar(n, g0) ==
  LET g    == IF n.local THEN Declare(g0, n.name) ELSE g0
      slot == find_local(g, n.name)
      parm == Pos(g.parms, n.name)
  IN  CASE slot > 0 -> Emit(g, "GET_LOCAL", slot)
        [] slot = 0 /\ parm > 0 -> Emit(g, "GET_PARAM", parm)
        [] slot = 0 /\ parm = 0 /\ n.name \in Natives -> Emit(g, "GET_GGVAR", n.name)
        [] OTHER -> Emit(g, "GET_TABLE", n.name)

LvVar(n, g0) ==
  LET g    == IF n.local THEN Declare(g0, n.name) ELSE g0
      slot == find_local(g, n.name)
      parm == Pos(g.parms, n.name)
  IN  CASE slot > 0 -> Emit(g, "SET_LOCAL", slot)
        [] slot = 0 /\ parm > 0 -> Emit(g, "SET_PARAM", parm)
        [] slot = 0 /\ parm = 0 /\ n.name \in Natives -> kerror(g)
        [] OTHER -> Emit(g, "SET_TABLE", n.name)

\* ++ and --: the old value stays on the stack after the postfix form, the new one after
\* the prefix form
Step_(n, g) ==
  LET op  == IF n.op = "++" THEN "+" ELSE "-"
      old == Rv(n.parm, g)
      g1  == IF n.post THEN Emit(old, "GET_STACK", 0) ELSE old
      g2  == Emit(Emit(g1, "PUSH", <<"int", 1>>), "OP2", op)
  IN  IF pmc(n.parm) # 1 THEN kerror(g)
      ELSE Lv(n.parm, IF n.post THEN g2 ELSE Emit(g2, "GET_STACK", 0))

Op1_(n, g) == CASE n.op = "+" -> Rv(n.parm, g)
                [] n.op \in {"++", "--"} -> Step_(n, g)
                [] OTHER -> Emit(pmadj(n.parm, g, 1), "OP1", n.op)

\* n2 values for n1 targets: nils for the missing, the others dropped
Adjusted(g, n1, n2) ==
  CASE n2 < 0             -> Emit(g, "PMADJ", n1)
    [] n2 >= 0 /\ n1 > n2 -> Emit(g, "PUSH_NIL", n1 - n2)
    [] n2 > n1            -> Emit(g, "SPADJ", n1 - n2)
    [] OTHER              -> g

\* The values of r, adjusted to as many as l takes; l = r = e assigns e to r, then r to l
Assign_(n0, g) ==
  LET n     == Expanded(n0)
      chain == n.l.k = "assign"
      l     == IF chain THEN Expanded(n.l).r ELSE n.l
      n1    == pmc(l)
      n2    == pmc(n.r)
      g1    == Rv(n.r, IF n2 < 0 THEN Emit(g, "PROG1", 0) ELSE g)
      g3    == Lv(l, Adjusted(g1, n1, n2))
      g4    == IF n2 < 0 THEN Emit(g3, "PROG2", 0) ELSE g3
  IN  IF n1 < 0 THEN kerror(g) ELSE IF chain THEN Rv(n.l, g4) ELSE g4

Call_(n, g) == Emit(Rv(n.tbl, Rv(n.parm, Emit(g, "PROG1", 0))), "CALL", 0)
CallNative(name, g) == Emit(Emit(Emit(g, "PROG1", 0), "GET_GGVAR", name), "CALL", 0)

If_(n, g) ==
  LET id1 == Here(Rv(n.cond, g))
      g1  == Rv(n.s1, Emit(Rv(n.cond, g), "JUMP_FALSE", -1))
      g2  == SetParm(Emit(g1, "JUMP", -1), id1, Here(g1) + 1)
      g3  == IF n.s0.k = "none" THEN g2 ELSE Rv(n.s0, g2)
  IN  SetParm(g3, Here(g1), Here(g3))

\* break, continue, break2, continue2 leave or go on with the enclosing loops.  The test of
\* break3 has the name of break2, so break3 is never known.
Control_(n, g) ==
  LET g1 == Emit(g, "JUMP", 0)
      up == IF n.name \in {"break2", "continue2"} THEN 1 ELSE 0
  IN  CASE n.name \in {"break", "break2"} /\ Len(g.l1) > up -> AddLoop1(g1, up, Here(g))
        [] n.name \in {"continue", "continue2"} /\ Len(g.l2) > up -> AddLoop2(g1, up, Here(g))
        [] OTHER -> kerror(g)

ForEach_(n, g0) ==
  LET g1 == Declare(OpenBlock(g0), "#iterator")
      id == add_local(g1, "#iterator")
      g2 == FoldLeft(LAMBDA h, v : Declare(h, v.name), g1, n.vars)
      g3 == Emit(Rv(n.container, Emit(g2, "PROG1", 0)), "PUSH", <<"int", Len(n.vars)>>)
      g4 == Emit(Emit(Emit(g3, "GET_GGVAR", "get_iterator"), "CALL", 0), "SET_LOCAL", id)
      g5 == Emit(Emit(Emit(g4, "PROG1", 0), "GET_LOCAL", id), "CALL", 0)
      g6 == Emit(AddLoop1(OpenLoop2(OpenLoop1(g5)), 0, Here(g5)), "JUMP_FALSE", 0)
      g7 == Emit(Rv(n.body, LvAll(n.vars, g6)), "JUMP", Here(g4))
  IN  CloseBlock(CloseLoop2(CloseLoop1(g7, Here(g7)), Here(g4)))

\* while, for, do: the condition stands behind the body; all but do jump there first
Loop_(n, g0) ==
  LET g1 == OpenBlock(g0)
      g2 == IF n.init.k = "none" THEN g1 ELSE Rv(n.init, g1)
      g3 == IF n.name = "do" THEN OpenLoop2(OpenLoop1(g2))
            ELSE Emit(OpenLoop2(OpenLoop1(g2)), "JUMP", 0)
      g4 == Rv(n.body, g3)
      g5 == IF n.fini.k = "none" THEN g4 ELSE Rv(n.fini, g4)
      g6 == IF n.name = "do" THEN g5 ELSE SetParm(g5, Here(g3) - 1, Here(g5))
      g7 == IF n.cond.k = "none" THEN Emit(g6, "JUMP", Here(g3))
            ELSE Emit(Rv(n.cond, g6), "JUMP_TRUE", Here(g3))
  IN  CloseBlock(CloseLoop2(CloseLoop1(g7, Here(g7)), Here(g4)))

\* A switch calls an object that turns the value into the address of its case.
AddCases(c, g) ==
  LET vals == [i \in DOMAIN c.vals |-> Const(c.vals[i])]
      twice == \/ \E i \in DOMAIN vals : vals[i] = <<"none">>
                    \/ \E e \in ToSet(g.case.jpm) : e[1] = vals[i]
                    \/ \E j \in 1..i - 1 : vals[j] = vals[i]
               \/ vals = <<>> /\ g.case.jpd # -1
      g1   == IF twice THEN kerror(g)
              ELSE IF vals = <<>> THEN [g EXCEPT !.case.jpd = Here(g)]
              ELSE [g EXCEPT !.case.jpm = @ \o [i \in DOMAIN vals |-> <<vals[i], Here(g)>>]]
      g2   == Rv(c.body, g1)
  IN  Emit(AddLoop1(g2, 0, Here(g2)), "JUMP", 0)

CasesAll(cs, g) == IF cs = <<>> \/ g.err THEN g ELSE CasesAll(Tail(cs), AddCases(Head(cs), g))

Switch_(n, g0) ==
  LET g1 == Emit(Rv(n.cond, Emit(OpenBlock(g0), "PROG1", 0)), "PMADJ", 1)
      id == Len(g1.funs) + 1
      g2 == [g1 EXCEPT !.funs = Append(@, [kind |-> "switch"])]
      g3 == Emit(Emit(Emit(g2, "PUSH", <<"fn", id>>), "CALL", 0), "JUMP_N", 0)
      g4 == CasesAll(n.cases, [OpenLoop1(g3) EXCEPT !.case = [jpm |-> <<>>, jpd |-> -1]])
      g5 == CloseLoop1(g4, Here(g4))
      jt == [kind |-> "switch", jpm |-> g5.case.jpm,
             jpd |-> IF g5.case.jpd = -1 THEN Here(g4) ELSE g5.case.jpd]
  IN  CloseBlock([g5 EXCEPT !.funs[id] = jt, !.case = g0.case])

\* The code object of the scope in g, appended to funs
Code(g) == [kind |-> "code", ins |-> Append(g.ins, <<"HALT", 0>>), nl |-> g.nl, this |-> g.this]

\* A function is generated in a scope of its own; the outer scope goes on behind it.  The
\* analyzer refuses a function value with a name.
Function_(n, g) ==
  LET g1 == NewScope(g)
      g2 == IF UsesThis(n.body) THEN [Declare(g1, "this") EXCEPT !.this = 1] ELSE g1
      g3 == RvAll(n.body.list, [g2 EXCEPT !.parms = [i \in DOMAIN n.parms |-> n.parms[i].name]])
      g4 == [g EXCEPT !.funs = Append(g3.funs, Code(CloseBlock(g3))), !.err = g3.err \/ n.name # ""]
  IN  Emit(g4, "PUSH", <<"fn", Len(g4.funs)>>)

Class_(n, g) ==
  LET g1  == Declare(Declare(OpenBlock(g), "member"), "static")
      id1 == add_local(g1, "member")
      id2 == add_local(g1, "static")
      g2  == Emit(CallNative("table", g1), "SET_LOCAL", id1)
      g3  == RvAll(n.body.list, Emit(CallNative("table", g2), "SET_LOCAL", id2))
      g4  == Emit(Emit(Emit(g3, "PROG1", 0), "GET_LOCAL", id1), "GET_LOCAL", id2)
  IN  CloseBlock(Emit(Emit(g4, "GET_GGVAR", "metatable"), "CALL", 0))

\* TNodeVisitorCG_GeneratorRValue
VisitRight(n, g) ==
  CASE n.k \in {"stmts", "list", "vars"} -> RvAll(n.list, g)
    [] n.k = "block"    -> CloseBlock(RvAll(n.list, OpenBlock(g)))
    [] n.k = "var"      -> RvVar(n, g)
    [] n.k = "nil"      -> Emit(g, "PUSH_NIL", 1)
    [] n.k \in {"int", "bool"} -> Emit(g, "PUSH", Const(n))
    [] n.k = "op1"      -> Op1_(n, g)
    [] n.k = "op2"      -> Emit(Rv(n.r, Rv(n.l, g)), "OP2", n.op)
    [] n.k = "assign"   -> Assign_(n, g)
    [] n.k = "call"     -> Call_(n, g)
    [] n.k = "dot"      -> Emit(Rv(n.tbl, g), "GET_INDEX", n.name)
    [] n.k = "eval"     -> Rv(n.value, g)
    [] n.k = "nop"      -> g
    [] n.k = "if"       -> If_(n, g)
    [] n.k = "loop"     -> Loop_(n, g)
    [] n.k = "for_each" -> ForEach_(n, g)
    [] n.k = "control"  -> Control_(n, g)
    [] n.k = "return"   -> Emit(Rv(n.value, Emit(g, "PROG1", 0)), "RETURN", 0)
    [] n.k = "switch"   -> Switch_(n, g)
    [] n.k = "function" -> Function_(n, g)
    [] n.k = "class"    -> Class_(n, g)

\* TNodeVisitorCG_GeneratorLValue: the last value goes to the last name
VisitLeft(n, g) ==
  CASE n.k = "var"              -> LvVar(n, g)
    [] n.k = "nil"              -> Emit(g, "SPADJ", -1)
    [] n.k \in Lists            -> LvAll(n.list, g)
    [] n.k = "dot"              -> Emit(Rv(n.tbl, g), "SET_INDEX", n.name)
    [] OTHER                    -> kerror(g)

Visit(side, n, g) == IF side = "right" THEN VisitRight(n, g) ELSE VisitLeft(n, g)

\* CodeGen::parse: the code objects of a script, its main program the last; none if the
\* parser or the generator throws
Compile(ts) ==
  LET t == Parse(ts)
      g == RvAll(t.n.list, NewGen)
  IN  IF t.p = 0 \/ g.err THEN <<>> ELSE Append(g.funs, Code(CloseBlock(g)))
=============================================================================
