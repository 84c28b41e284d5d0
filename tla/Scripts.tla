------------------------------ MODULE Scripts ------------------------------
(***************************************************************************)
(* What a script means, by structural induction on its tree, without code  *)
(* or stack; how it is written; and the scripts the runs execute: each is  *)
(* written, read by the parser, compiled, run to its end and compared with *)
(* what it means.                                                          *)
(*                                                                         *)
(* An environment has the globals g, the heap h, and the scopes ls of the  *)
(* function that runs, the innermost last.                                 *)
(*                                                                         *)
(* The scripts keep to a part of the language in which the compiler works: *)
(* for_each and class do not stand below a local of an outer block, every  *)
(* function is called with all its arguments, a call that is an operand or *)
(* a condition has one result, no "<=", no break3.                         *)
(***************************************************************************)
EXTENDS ScriptMachine

VARIABLE want        \* what the script means: [stops, globals]

Bind(vs, names) == [x \in ToSet(names) |->
                      LET i == SelectInSeq(names, LAMBDA n : n = x)
                      IN  IF i <= Len(vs) THEN vs[i] ELSE NilV]
Adjust(vs, n) == [i \in 1..n |-> IF i <= Len(vs) THEN vs[i] ELSE NilV]

Scopes(e, x) == {i \in DOMAIN e.ls : x \in DOMAIN e.ls[i]}
Lookup(e, x) ==
  IF Scopes(e, x) # {} THEN e.ls[Max(Scopes(e, x))][x]
  ELSE IF x \in Natives THEN <<"nat", x>> ELSE Entry(e.g, x)
Enter(e) == [e EXCEPT !.ls = Append(@, <<>>)]
Leave(e) == [e EXCEPT !.ls = Front(@)]
Define(e, x, v) == [e EXCEPT !.ls[Len(e.ls)] = With(@, x, v)]
New(e, o) == [e EXCEPT !.h = Append(@, o)]

\* the object of the heap that has the entry x of object o
Owner(e, o, x) == IF e.h[o].k = "inst" /\ x \notin DOMAIN e.h[o].vals THEN e.h[o].meta ELSE o

V(vs, e) == [v |-> vs, e |-> e]
S(sig, vs, e) == [sig |-> sig, v |-> vs, e |-> e]

Targets(l) == IF l.k \in Lists THEN l.list ELSE <<l>>

\* The value of an expression, and what a statement does
RECURSIVE Run(_, _, _)
Ev(n, e) == Run("value", n, e)
Ex(n, e) == Run("effect", n, e)

\* the values of a sequence of expressions, from left to right
RECURSIVE EvAll(_, _), ExAll(_, _)
EvAll(ns, e) ==
  IF ns = <<>> THEN V(<<>>, e)
  ELSE LET a == Ev(Head(ns), e)
           b == EvAll(Tail(ns), a.e)
       IN  V(a.v \o b.v, b.e)

\* statements, up to the one that leaves them
ExAll(ss, e) ==
  IF ss = <<>> THEN S("next", <<>>, e)
  ELSE LET a == Ex(Head(ss), e) IN IF a.sig = "next" THEN ExAll(Tail(ss), a.e) ELSE a

Store(n, v, e) ==
  CASE n.k = "nil" -> e
    [] n.k = "var" /\ n.local -> Define(e, n.name, v)
    [] n.k = "var" /\ ~n.local /\ Scopes(e, n.name) # {} ->
         [e EXCEPT !.ls[Max(Scopes(e, n.name))][n.name] = v]
    [] n.k = "var" /\ ~n.local /\ Scopes(e, n.name) = {} -> [e EXCEPT !.g = With(@, n.name, v)]
    [] n.k = "dot" ->
         LET o == Ev(n.tbl, e)
         IN  [o.e EXCEPT !.h[Owner(o.e, o.v[1][2], n.name)].vals = With(@, n.name, v)]

\* ++ and --
Stepped(n, e) ==
  LET a == Ev(n.parm, e)
      b == BinaryValue(IF n.op = "++" THEN "+" ELSE "-", a.v[1], IntV(1))
  IN  V(IF n.post THEN a.v ELSE <<b>>, Store(n.parm, b, a.e))

\* the results of calling f with the values as; o: the object whose function it is
Apply(f, as, o, e) ==
  CASE f[1] = "fn" ->
         LET this == IF o = <<>> THEN <<>> ELSE [x \in {"this"} |-> o[1]]
             body == [f[2].body EXCEPT !.k = "stmts"]
             r    == Ex(body, [e EXCEPT !.ls = <<this @@ Bind(as, [i \in DOMAIN f[2].parms |-> f[2].parms[i].name]), <<>>>>])
         IN  V(r.v, [r.e EXCEPT !.ls = e.ls])
    [] f = <<"nat", "table">> -> V(<<<<"ref", Len(e.h) + 1>>>>, New(e, [k |-> "table", vals |-> <<>>]))
    [] f = <<"nat", "is_nil">> -> V(<<BoolV(as[1] = NilV)>>, e)
    [] f = <<"nat", "table_size">> -> V(<<IntV(Cardinality(DOMAIN e.h[as[1][2]].vals))>>, e)
    [] f[1] = "ref" -> V(<<<<"ref", Len(e.h) + 1>>>>,
                         New(e, [k |-> "inst", meta |-> f[2], vals |-> e.h[f[2]].member]))

ValueOf(n, e) ==
  CASE n.k = "var"  -> V(<<Lookup(e, n.name)>>, e)
    [] n.k = "int"  -> V(<<IntV(n.v)>>, e)
    [] n.k = "bool" -> V(<<BoolV(n.v)>>, e)
    [] n.k = "nil"  -> V(<<NilV>>, e)
    [] n.k \in Lists -> EvAll(n.list, e)
    [] n.k = "op1" /\ n.op \in {"++", "--"} -> Stepped(n, e)
    [] n.k = "op1" /\ n.op \notin {"++", "--"} ->
         LET a == Ev(n.parm, e) IN V(<<UnaryValue(n.op, a.v[1])>>, a.e)
    [] n.k = "op2"  ->
         LET a == EvAll(<<n.l, n.r>>, e) IN V(<<BinaryValue(n.op, a.v[1], a.v[2])>>, a.e)
    [] n.k = "dot"  ->
         LET o == Ev(n.tbl, e)
         IN  V(<<Entry(o.e.h[Owner(o.e, o.v[1][2], n.name)].vals, n.name)>>, o.e)
    [] n.k = "assign" ->
         LET l  == IF n.l.k = "assign" THEN n.l.r ELSE n.l
             r  == IF n.op = "=" THEN Ev(n.r, e)
                   ELSE LET a == EvAll(<<n.l, n.r>>, e)
                        IN  V(<<BinaryValue(OpOf[n.op], a.v[1], a.v[2])>>, a.e)
             vs == Adjust(r.v, Len(Targets(l)))
             e2 == FoldLeft(LAMBDA a, i : Store(Targets(l)[i], vs[i], a), r.e,
                            [i \in 1..Len(vs) |-> i])
         IN  IF n.l.k = "assign" THEN Ev(n.l, e2) ELSE V(<<>>, e2)
    [] n.k = "call" ->
         LET as == Ev(n.parm, e)
             o  == IF n.tbl.k = "dot" THEN Ev(n.tbl.tbl, as.e).v ELSE <<>>
             f  == Ev(n.tbl, as.e)
         IN  Apply(f.v[1], as.v, o, f.e)
    [] n.k = "function" -> V(<<<<"fn", n>>>>, e)
    [] n.k = "class" ->
         LET m  == Len(e.h) + 1
             e1 == Ex([n.body EXCEPT !.k = "stmts"],
                      Define(Define(Enter(New(New(e, [k |-> "table", vals |-> <<>>]),
                                              [k |-> "table", vals |-> <<>>])),
                                    "member", <<"ref", m>>), "static", <<"ref", m + 1>>)).e
             o  == [k |-> "meta", member |-> e1.h[m].vals, vals |-> e1.h[m + 1].vals]
         IN  V(<<<<"ref", Len(e1.h) + 1>>>>, New(Leave(e1), o))

\* How a loop goes on after its body ended with a signal
LoopGoesOn(sig) == sig \in {"next", "continue"}
LoopEnds(r) == [r EXCEPT !.sig = CASE @ = "break" -> "next" [] @ = "break2" -> "break"
                                   [] @ = "continue2" -> "continue" [] OTHER -> @]

RECURSIVE Turn(_, _), Each(_, _, _, _)

\* the turns of a loop that still stands in front of its condition
Turn(n, e) ==
  LET c == IF n.cond.k = "none" THEN V(<<BoolV(TRUE)>>, e) ELSE Ev(n.cond, e)
      b == Ex(n.body, c.e)
      f == IF n.fini.k = "none" THEN S("next", <<>>, b.e) ELSE Ex(n.fini, b.e)
  IN  IF ~Truth(c.v[1]) THEN S("next", <<>>, c.e)
      ELSE IF LoopGoesOn(b.sig) THEN Turn(n, f.e) ELSE LoopEnds(b)

\* for_each over the entries names of a table
Each(n, names, t, e) ==
  LET e1 == Store(Last(n.vars), t[Head(names)], e)
      e2 == IF Len(n.vars) = 1 THEN e1 ELSE Store(n.vars[1], <<"str", Head(names)>>, e1)
      b  == Ex(n.body, e2)
  IN  IF names = <<>> THEN S("next", <<>>, e)
      ELSE IF LoopGoesOn(b.sig) THEN Each(n, Tail(names), t, b.e) ELSE LoopEnds(b)

SwitchEnds(r) == [r EXCEPT !.sig = CASE @ = "break" -> "next" [] @ = "break2" -> "break"
                                     [] OTHER -> @]
Ended(r) == [r EXCEPT !.e = Leave(@)]

EffectOf(n, e) ==
  CASE n.k = "stmts" -> ExAll(n.list, e)
    [] n.k = "block" -> Ended(Ex([n EXCEPT !.k = "stmts"], Enter(e)))
    [] n.k = "eval"  -> S("next", <<>>, Ev(n.value, e).e)
    [] n.k = "nop"   -> S("next", <<>>, e)
    [] n.k = "if"    ->
         LET c == Ev(n.cond, e)
         IN  IF Truth(c.v[1]) THEN Ex(n.s1, c.e)
             ELSE IF n.s0.k = "none" THEN S("next", <<>>, c.e) ELSE Ex(n.s0, c.e)
    [] n.k = "control" -> S(n.name, <<>>, e)
    [] n.k = "return"  -> LET r == Ev(n.value, e) IN S("return", r.v, r.e)
    [] n.k = "loop"    ->
         LET e1 == IF n.init.k = "none" THEN Enter(e) ELSE Ex(n.init, Enter(e)).e
             b  == Ex(n.body, e1)
         IN  Ended(IF n.name # "do" THEN Turn(n, e1)
                   ELSE IF LoopGoesOn(b.sig) THEN Turn(n, b.e) ELSE LoopEnds(b))
    [] n.k = "for_each" ->
         LET c  == Ev(n.container, e)
             t  == c.e.h[c.v[1][2]].vals
             e1 == FoldLeft(LAMBDA a, v : Define(a, v.name, NilV), Enter(c.e), n.vars)
         IN  Ended(Each(n, Order(t), t, e1))
    [] n.k = "switch" ->
         LET c  == Ev(n.cond, e)
             Has(i) == \E j \in DOMAIN n.cases[i].vals : Const(n.cases[i].vals[j]) = c.v[1]
             is == {i \in DOMAIN n.cases : Has(i)}
             ds == {i \in DOMAIN n.cases : n.cases[i].vals = <<>>}
             at == IF is # {} THEN is ELSE ds
         IN  IF at = {} THEN S("next", <<>>, c.e)
             ELSE Ended(SwitchEnds(Ex(n.cases[Max(at)].body, Enter(c.e))))

Run(what, n, e) == IF what = "value" THEN ValueOf(n, e) ELSE EffectOf(n, e)

\* the globals after the script t
Meaning(t) == Ex(t, [g |-> <<>>, h |-> <<>>, ls |-> <<<<>>>>]).e.g

\* numbers and truth values are compared, objects only as objects
Seen(v) == IF v[1] \in {"int", "bool", "nil"} THEN v ELSE <<"object">>

-----------------------------------------------------------------------------
(* How a tree is written: brackets only where the priorities ask for them. *)

Word(n) == CHOOSE w \in DOMAIN IntOf : IntOf[w] = n
Strength == [w \in {"&&", "||", "^^"} |-> 2] @@ [w \in {"<", ">", ">=", "==", "!="} |-> 3]
              @@ [w \in {"+", "-"} |-> 5] @@ [w \in {"%"} |-> 6] @@ [w \in {"*", "/"} |-> 7]

RECURSIVE Text(_, _), Lines(_), Texts(_), AllLines(_), CaseLines(_)
Texts(ns) == IF ns = <<>> THEN <<>>
             ELSE Text(Head(ns), 2) \o (IF Len(ns) > 1 THEN <<",">> ELSE <<>>) \o Texts(Tail(ns))
AllLines(ss) == IF ss = <<>> THEN <<>> ELSE Lines(Head(ss)) \o AllLines(Tail(ss))
CaseLines(cs) ==
  IF cs = <<>> THEN <<>>
  ELSE (IF Head(cs).vals = <<>> THEN <<"default">> ELSE <<"case">> \o Texts(Head(cs).vals))
         \o <<":">> \o Lines(Head(cs).body) \o CaseLines(Tail(cs))

\* the tokens of expression n where an operator of at least priority p is wanted
Text(n, p) ==
  LET In(ts, own) == IF own < p THEN <<"(">> \o ts \o <<")">> ELSE ts
  IN  CASE n.k = "var"  -> <<n.name>>
        [] n.k = "int"  -> <<Word(n.v)>>
        [] n.k = "bool" -> <<IF n.v THEN "true" ELSE "false">>
        [] n.k = "nil"  -> <<"nil">>
        [] n.k \in Lists -> Texts(n.list)
        [] n.k = "op1"  -> In(IF n.post THEN Text(n.parm, 10) \o <<n.op>>
                              ELSE <<n.op>> \o Text(n.parm, 10), 9)
        [] n.k = "op2"  -> In(Text(n.l, Strength[n.op]) \o <<n.op>> \o Text(n.r, Strength[n.op] + 1),
                              Strength[n.op])
        [] n.k = "dot"  -> Text(n.tbl, 10) \o <<".", n.name>>
        [] n.k = "call" -> Text(n.tbl, 10) \o <<"(">> \o Text(n.parm, 2) \o <<")">>
        [] n.k = "assign" -> Text(n.l, 2) \o <<n.op>> \o Text(n.r, 2)
        [] n.k = "function" -> <<"function", "(">> \o Texts(n.parms) \o <<")">> \o Lines(n.body)
        [] n.k = "class" -> <<"class">> \o Lines(n.body)

Local(l) == l.k = "vars" /\ l.list[1].local

\* the tokens of a statement
Lines(n) ==
  CASE n.k = "stmts" -> AllLines(n.list)
    [] n.k = "block" -> <<"{">> \o Lines([n EXCEPT !.k = "stmts"]) \o <<"}">>
    [] n.k = "nop"   -> <<";">>
    [] n.k = "eval"  ->
         LET a == n.value
         IN  (IF Local(a.l) THEN <<"local">> ELSE <<>>)
               \o (IF a.l.k = "nil" THEN Text(a.r, 2) ELSE Text(a, 2)) \o <<";">>
    [] n.k = "if"    -> <<"if", "(">> \o Text(n.cond, 2) \o <<")">> \o Lines(n.s1)
                          \o (IF n.s0.k = "none" THEN <<>> ELSE <<"else">> \o Lines(n.s0))
    [] n.k = "control" -> <<n.name, ";">>
    [] n.k = "return"  -> <<"return">> \o Text(n.value, 2) \o <<";">>
    [] n.k = "loop" /\ n.name = "while" -> <<"while", "(">> \o Text(n.cond, 2) \o <<")">> \o Lines(n.body)
    [] n.k = "loop" /\ n.name = "do" ->
         <<"do">> \o Lines(n.body) \o <<"while", "(">> \o Text(n.cond, 2) \o <<")", ";">>
    [] n.k = "loop" /\ n.name = "for" ->
         <<"for", "(">> \o Lines(n.init) \o Text(n.cond, 2) \o <<";">>
           \o Front(Lines(n.fini)) \o <<")">> \o Lines(n.body)
    [] n.k = "for_each" -> <<"for_each", "(">> \o Texts(n.vars) \o <<"in">> \o Text(n.container, 2)
                             \o <<")">> \o Lines(n.body)
    [] n.k = "switch" ->
         <<"switch", "(">> \o Text(n.cond, 2) \o <<")", "{">>
           \o CaseLines(n.cases) \o <<"}">>

Script(t) == Lines(t) \o <<"eof">>

-----------------------------------------------------------------------------
(* Scripts to execute *)

Id(x) == Var(x)
Num_(n) == [k |-> "int", v |-> n]
Bin(op, l, r) == [k |-> "op2", op |-> op, l |-> l, r |-> r]
Block_(ss) == [k |-> "block", list |-> ss]
Set(x, op, e) == [k |-> "eval", value |-> Assign(op, List(<<Id(x)>>), List(<<e>>))]
SetAll(ls, es) == [k |-> "eval", value |-> Assign("=", List(ls), List(es))]
LocalVar(x, e) == [k |-> "eval",
                   value |-> Assign("=", Localised([k |-> "vars", list |-> <<Id(x)>>]), List(<<e>>))]
Do_(e) == [k |-> "eval", value |-> Assign("=", Nil, List(<<e>>))]
If1(c, s) == [k |-> "if", cond |-> c, s1 |-> s, s0 |-> None]
Ctl(c) == [k |-> "control", name |-> c]
Ret(es) == [k |-> "return", value |-> List(es)]
Call(f, es) == [k |-> "call", tbl |-> f, parm |-> List(es)]
Dot(o, x) == [k |-> "dot", tbl |-> o, name |-> x]
Fun(ps, ss) == [k |-> "function", name |-> "", parms |-> [i \in DOMAIN ps |-> Id(ps[i])], body |-> Block_(ss)]
Cls(ss) == [k |-> "class", name |-> "", body |-> Block_(ss)]
EachIn(xs, c, s) == [k |-> "for_each", vars |-> [i \in DOMAIN xs |-> Id(xs[i])], container |-> c, body |-> s]
Inc(x) == Op1("++", Id(x), TRUE)
Prog(ss) == [k |-> "stmts", list |-> ss]

-----------------------------------------------------------------------------
(* Expressions: all trees over the numbers 7, 2, 3, 5 in this order *)

RECURSIVE Trees(_)
Trees(ns) ==
  IF Len(ns) = 1 THEN {Num_(ns[1])}
  ELSE UNION {{Bin(op, l, r) : op \in {"-", "*", "<", "&&"}, l \in Trees(SubSeq(ns, 1, i)),
                               r \in Trees(SubSeq(ns, i + 1, Len(ns)))} : i \in 1..Len(ns) - 1}

Unaries == LET a == {Op1(u, t, FALSE) : u \in {"-", "!"}, t \in Trees(<<2, 3>>)}
           IN  UNION {{Bin(op, Num_(7), t), Bin(op, t, Num_(5))} : op \in {"-", "*", "<"}, t \in a}

Expressions == {Prog(<<Set("x", "=", t)>>) : t \in Trees(<<7, 2, 3, 5>>) \cup Unaries}

\* steps and assignments: x++ and ++x have different values; chains; swaps; too many and too
\* few values
Assignments_ ==
  {Prog(<<Set("x", "=", Num_(3)), Set("y", "=", Bin("-", Op1(o1, Id("x"), p), Op1(o2, Id("x"), q))),
          Set("x", a, Num_(2)), SetAll(l, r)>>)
     : o1 \in {"++", "--"}, o2 \in {"++", "--"}, p \in BOOLEAN, q \in BOOLEAN, a \in {"-=", "*="},
       l \in {<<Id("x"), Id("y")>>, <<Id("y"), Id("x"), Id("z")>>, <<Id("x")>>},
       r \in {<<Id("y"), Id("x")>>}}
  \cup {Prog(<<[k |-> "eval", value |-> Assign("=", Assign("=", List(<<Id("x")>>), List(<<Id("y")>>)),
                                               List(<<Num_(4)>>))]>>)}

-----------------------------------------------------------------------------
(* Loops in loops, with each way to leave or go on with them *)

Looping(kind, x, body) ==
  LET c == Bin("<", Id(x), Num_(3))
  IN  CASE kind = "for"   -> <<Loop("for", Set(x, "=", Num_(0)), c, Do_(Inc(x)), Block_(body))>>
        [] kind = "local" -> <<Loop("for", LocalVar(x, Num_(0)), c, Do_(Inc(x)), Block_(body))>>
        [] kind = "while" -> <<Set(x, "=", Num_(0)),
                               Loop("while", None, c, None, Block_(<<Do_(Inc(x))>> \o body))>>
        [] kind = "do"    -> <<Set(x, "=", Num_(0)),
                               Loop("do", None, c, None, Block_(<<Do_(Inc(x))>> \o body))>>

Leaving(x, y, ctl) ==
  If1(Bin("&&", Bin("==", Id(x), Num_(1)), Bin("==", Id(y), Num_(1))), Ctl(ctl))
Count(n) == Set("s", "+=", Num_(n))

Kinds == {"for", "local", "while", "do"}
Loops ==
  {Prog(<<Set("s", "=", Num_(0))>>
          \o Looping(a, "i", Looping(b, "j", <<LocalVar("m", Id("j")), Leaving("i", "m", ctl), Count(1)>>)
                               \o <<Count(10)>>))
     : a \in Kinds, b \in Kinds, ctl \in {"break", "continue", "break2", "continue2"}}

Switches ==
  {Prog(<<Set("s", "=", Num_(0))>>
          \o Looping(a, "i",
               <<[k |-> "switch", cond |-> Bin("*", Id("i"), Num_(1)),
                  cases |-> <<[vals |-> <<Num_(1)>>, body |-> Prog(<<If1(Bin("<", Id("s"), Num_(2)), Ctl(ctl)), Count(1)>>)],
                              [vals |-> v, body |-> Prog(<<LocalVar("m", Num_(3)), Set("s", "+=", Id("m"))>>)],
                              [vals |-> d, body |-> Prog(<<Count(5)>>)]>>],
                 Count(10)>>))
     : a \in Kinds, ctl \in {"break", "continue", "break2"}, v \in {<<Num_(0), Num_(2)>>, <<Num_(0)>>},
       d \in {<<>>, <<Num_(4)>>}}

-----------------------------------------------------------------------------
(* Functions: left from inside loops, blocks and a switch, with 0 to 2 results for 0 to 3      *)
(* targets; a recursive one; locals whose slots are used again                                   *)

Bodies(ret) ==
  {<<LocalVar("a", Id("x"))>> \o Looping("while", "y", <<LocalVar("b", Bin("+", Id("y"), Id("a"))),
       If1(Bin("==", Id("y"), Num_(2)), Ret(ret))>>) \o <<Ret(<<Id("a"), Num_(8)>>)>>,
   <<Block_(<<LocalVar("a", Num_(4)), Set("x", "+=", Id("a"))>>),
     Block_(<<LocalVar("b", Id("x")),
              [k |-> "switch", cond |-> Id("b"),
               cases |-> <<[vals |-> <<Num_(6)>>, body |-> Prog(<<Ret(ret)>>)],
                           [vals |-> <<>>, body |-> Prog(<<Set("y", "=", Num_(9))>>)]>>]>>),
     Ret(ret)>>}

Functions_ ==
  {Prog(<<Set("f", "=", Fun(<<"x", "y">>, b)), SetAll(l, <<Call(Id("f"), <<Num_(n), Num_(1)>>)>>),
          SetAll(<<Id("w")>>, <<Call(Id("f"), <<Num_(0), Num_(1)>>), Num_(5)>>)>>)
     : b \in UNION {Bodies(ret) : ret \in {<<>>, <<Id("y")>>, <<Id("x"), Id("y")>>,
                                           <<Bin("*", Id("x"), Num_(2)), Id("x")>>}},
       l \in {<<Id("p")>>, <<Id("p"), Id("q")>>, <<Id("p"), Id("q"), Id("r")>>}, n \in {1, 2}}
  \cup {Prog(<<Set("g", "=", Fun(<<"n">>, <<If1(Bin("<", Id("n"), Num_(1)), Ret(<<Num_(1)>>)),
                 LocalVar("m", Id("n")),
                 Ret(<<Bin("*", Call(Id("g"), <<Bin("-", Id("n"), Num_(1))>>), Id("m"))>>)>>)),
               Set("x", "=", Call(Id("g"), <<Num_(4)>>)),
               Do_(Call(Id("g"), <<Num_(2)>>))>>)}

-----------------------------------------------------------------------------
(* Tables, for_each, classes and this *)

MakeTable == <<Set("t", "=", Call(Id("table"), <<>>)),
               SetAll(<<Dot(Id("t"), "a"), Dot(Id("t"), "b")>>, <<Num_(1), Num_(2)>>),
               SetAll(<<Dot(Id("t"), "c")>>, <<Num_(4)>>)>>
Tables ==
  {Prog(MakeTable \o <<Set("s", "=", Num_(0)),
          EachIn(xs, Id("t"), Block_(<<LocalVar("m", Id("v")), Count(1),
                                       If1(Bin(op, Id("m"), Num_(2)), Ctl("continue")),
                                       Set("s", "+=", Bin("*", Id("m"), Num_(10)))>>)),
          Set("n", "=", Call(Id("table_size"), <<Id("t")>>)),
          Set("z", "=", Call(Id("is_nil"), <<Dot(Id("t"), "d")>>))>>)
     : xs \in {<<"v">>, <<"u", "v">>}, op \in {"==", "<", "!="}}
  \cup {Prog(MakeTable \o <<Set("f", "=", Fun(<<"t", "n">>, <<EachIn(<<"v">>, Id("t"),
                 If1(Bin("==", Id("v"), Id("n")), Ret(<<Bin("*", Id("v"), Num_(3))>>))), Ret(<<Num_(0)>>)>>)),
               Set("x", "=", Bin("-", Call(Id("f"), <<Id("t"), Num_(2)>>), Call(Id("f"), <<Id("t"), Num_(4)>>)))>>)}

Member(x) == Dot(Id("this"), x)
Classes ==
  {Prog(<<Set("R", "=", Cls(<<SetAll(<<Dot(Id("member"), "x")>>, <<Num_(1)>>),
                              SetAll(<<Dot(Id("member"), "y")>>, <<Num_(2)>>),
                              SetAll(<<Dot(Id("static"), "n")>>, <<Num_(0)>>),
                              SetAll(<<Dot(Id("static"), "area")>>,
                                     <<Fun(<<"k">>, <<LocalVar("m", Bin("*", Member("x"), Member("y"))),
                                           SetAll(<<Member("n")>>, <<Bin("+", Member("n"), Id("k"))>>),
                                           Ret(<<Id("m")>>)>>)>>)>>)),
          Set("a", "=", Call(Id("R"), <<>>)), Set("b", "=", Call(Id("R"), <<>>)),
          SetAll(<<Dot(Id(o), "x")>>, <<Num_(5)>>),
          Set("p", "=", Bin("-", Call(Dot(Id("a"), "area"), <<Num_(1)>>),
                            Call(Dot(Id("b"), "area"), <<Call(Dot(Id("a"), "area"), <<Num_(2)>>)>>))),
          Set("n", "=", Dot(Id("b"), "n"))>>)
     : o \in {"a", "b"}}

Programs == Expressions \cup Assignments_ \cup Loops \cup Switches \cup Functions_ \cup Tables \cup Classes

\* Scripts that must be stopped, by the compiler or at the statement that is wrong: y is 9
\* if one goes on after it
Wrong ==
  {Prog(<<Set("x", "=", Num_(1)), s, Set("y", "=", Num_(9))>>) :
     s \in {Do_(Call(Id("x"), <<Num_(1)>>)),
            Do_(Call(Call(Id("table"), <<>>), <<>>)),
            Do_(Call(Call(Id("is_nil"), <<Id("x")>>), <<>>)),
            Do_(Call(Id("table"), <<Num_(1)>>)),
            Set("z", "=", Bin("+", Id("x"), Id("u"))),
            Set("z", "=", Op1("-", Id("u"), FALSE)),
            Set("z", "=", Dot(Id("x"), "a")),
            SetAll(<<Dot(Id("x"), "a")>>, <<Num_(2)>>),
            Set("table", "=", Num_(1)),
            Do_(Op1("++", Num_(1), TRUE)),
            If1(Id("f"), Set("x", "=", Num_(2))),
            Ctl("break"), Ctl("continue"),
            Block_(Looping("while", "i", <<Ctl("continue2")>>)),
            [k |-> "switch", cond |-> Id("x"),
             cases |-> <<[vals |-> <<Num_(1)>>, body |-> Prog(<<>>)],
                         [vals |-> <<Num_(2), Num_(1)>>, body |-> Prog(<<>>)]>>],
            [k |-> "switch", cond |-> Id("x"),
             cases |-> <<[vals |-> <<>>, body |-> Prog(<<>>)], [vals |-> <<>>, body |-> Prog(<<>>)]>>]}}

-----------------------------------------------------------------------------
Init ==
  \/ \E t \in Programs : Load(Compile(Script(t))) /\ want = [stops |-> FALSE, globals |-> Meaning(t)]
  \/ \E t \in Wrong : Load(Compile(Script(t))) /\ want = [stops |-> TRUE, globals |-> <<>>]
Next == Step /\ UNCHANGED want
Spec == Init /\ [][Next]_<<vars, want>>

\* A script that the parser, the code generator and the executor have taken to its end leaves
\* the globals that its tree means, and one that is wrong is stopped before it goes on
\* (test_scripting.cpp); no other is refused on the way.
ScriptMeansItsProgram ==
  /\ (status = "thrown") => want.stops
  /\ want.stops => status # "done" /\ Entry(table, "y") = NilV
  /\ (status = "done") =>
       \A x \in DOMAIN want.globals \cup DOMAIN table :
         Seen(Entry(table, x)) = Seen(Entry(want.globals, x))

\* The stack is shared by all calls without a check: when a function ends, all marks set in
\* it are taken back, down to the one under its arguments, and at its last instruction
\* nothing is left above its locals (CallableCode::__fun_call, Executor::callx).
MarksTakenBack ==
  status = "run" =>
    /\ Op = "HALT" => Last(vbp) = Top.nbp /\ nsp = Top.nsp + code[Top.fn].nl
    /\ Op = "RETURN" => Last(Front(vbp)) = Top.nbp /\ Last(vbp) >= Top.nsp + code[Top.fn].nl
=============================================================================
