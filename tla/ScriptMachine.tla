---------------------------- MODULE ScriptMachine ----------------------------
(***************************************************************************)
(* Executor (src/vhwd/scripting/executor.cpp, variant_code.cpp): the stack *)
(* machine that runs a script's code objects.  One action per kind of      *)
(* instruction.                                                            *)
(*                                                                         *)
(* A value is <<"nil">>, <<"bool", b>>, <<"int", n>>, <<"fn", i>> (a code   *)
(* object), <<"nat", name>> (a function of the library), <<"str", s>> (the *)
(* name of an entry) or <<"ref", i>> (an object of the heap: a table,      *)
(* metatable, instance or iterator).                                       *)
(*                                                                         *)
(* Bound: MaxStack slots, 64K in the code, which never tests the bound.    *)
(* Integers do not wrap here.  Not modelled: doubles, strings, arrays, the *)
(* operators on bits.                                                      *)
(***************************************************************************)
EXTENDS ScriptCompiler

CONSTANT MaxStack

VARIABLES code,      \* the code objects, the main program the last
          frames,    \* of __fun_call: [fn, cur, nbp, nsp]
          stack,     \* kvar_stack::tbl
          nsp,       \* its top
          vbp,       \* marks under arguments and results
          table,     \* Executor::table, the global variables
          heap,
          status     \* "run", "done", "thrown"
vars == <<code, frames, stack, nsp, vbp, table, heap, status>>

NilV == <<"nil">>
BoolV(b) == <<"bool", b>>
IntV(n) == <<"int", n>>

Top == frames[Len(frames)]
Inst == code[Top.fn].ins[Top.cur + 1]
Op == Inst[1]
Parm == Inst[2]

Goto(at) == frames' = [frames EXCEPT ![Len(frames)].cur = at]
Next_ == Goto(Top.cur + 1)
Throw == status' = "thrown" /\ UNCHANGED <<code, frames, stack, nsp, vbp, table, heap>>

\* an entry of a table, created by a look: kvar_table is a map of the names it was asked for
Entry(t, name) == IF name \in DOMAIN t THEN t[name] ELSE NilV
With(t, name, v) == (name :> v) @@ t

-----------------------------------------------------------------------------
(* Operators *)

\* The number of a bool or an int, for PL2_num1
Num(v) == IF v[1] = "bool" THEN (IF v[2] THEN 1 ELSE 0) ELSE v[2]
Truth(v) == Num(v) # 0
IsNum(v) == v[1] \in {"bool", "int"}

\* C's division, towards zero
Quot(a, b) == LET q == (IF a < 0 THEN -a ELSE a) \div (IF b < 0 THEN -b ELSE b)
              IN  IF (a < 0) = (b < 0) THEN q ELSE -q

\* kvar_helper<N>::g2.  "<=" is computed as "<".
BinaryValue(op, a, b) ==
  CASE op = "+"  -> IntV(Num(a) + Num(b))
    [] op = "-"  -> IntV(Num(a) - Num(b))
    [] op \in {"*", ".*"} -> IntV(Num(a) * Num(b))
    [] op \in {"/", "./"} -> IntV(Quot(Num(a), Num(b)))
    [] op = "%"  -> IntV(Num(a) - Quot(Num(a), Num(b)) * Num(b))
    [] op = "==" -> BoolV(Num(a) = Num(b))
    [] op = "!=" -> BoolV(Num(a) # Num(b))
    [] op = ">"  -> BoolV(Num(a) > Num(b))
    [] op = ">=" -> BoolV(Num(a) >= Num(b))
    [] op \in {"<", "<="} -> BoolV(Num(a) < Num(b))
    [] op = "&&" -> BoolV(Truth(a) /\ Truth(b))
    [] op = "||" -> BoolV(Truth(a) \/ Truth(b))
    [] op = "^^" -> BoolV(Truth(a) # Truth(b))

\* kvar_helper<N>::g1
UnaryValue(op, a) == IF op = "!" THEN BoolV(~Truth(a)) ELSE IntV(-Num(a))

-----------------------------------------------------------------------------
(* Instructions *)

Running(ops) == status = "run" /\ Op \in ops

Put(v) ==
  /\ nsp' = nsp + 1
  /\ stack' = [stack EXCEPT ![nsp + 1] = v]

Push ==
  /\ Running({"PUSH", "GET_GGVAR", "GET_PARAM", "GET_LOCAL", "GET_STACK"})
  /\ Put(CASE Op = "PUSH"      -> Parm
           [] Op = "GET_GGVAR" -> <<"nat", Parm>>
           [] Op = "GET_PARAM" -> stack[Top.nbp + Parm]
           [] Op = "GET_LOCAL" -> stack[Top.nsp + Parm]
           [] Op = "GET_STACK" -> stack[nsp + Parm])
  /\ Next_
  /\ UNCHANGED <<code, vbp, table, heap, status>>

\* values below nsp + n that are not there yet are nil
FillTo(n) == stack' = [i \in DOMAIN stack |-> IF i \in nsp + 1..n THEN NilV ELSE stack[i]]

PushNil ==
  /\ Running({"PUSH_NIL"})
  /\ FillTo(nsp + Parm)
  /\ nsp' = nsp + Parm
  /\ Next_
  /\ UNCHANGED <<code, vbp, table, heap, status>>

GetTable ==
  /\ Running({"GET_TABLE"})
  /\ Put(Entry(table, Parm))
  /\ table' = With(table, Parm, Entry(table, Parm))
  /\ Next_
  /\ UNCHANGED <<code, vbp, heap, status>>

SetTable ==
  /\ Running({"SET_TABLE"})
  /\ table' = With(table, Parm, stack[nsp])
  /\ nsp' = nsp - 1
  /\ Next_
  /\ UNCHANGED <<code, stack, vbp, heap, status>>

SetLocal ==
  /\ Running({"SET_PARAM", "SET_LOCAL"})
  /\ stack' = [stack EXCEPT ![(IF Op = "SET_PARAM" THEN Top.nbp ELSE Top.nsp) + Parm] = stack[nsp]]
  /\ nsp' = nsp - 1
  /\ Next_
  /\ UNCHANGED <<code, vbp, table, heap, status>>

Spadj ==
  /\ Running({"SPADJ"})
  /\ nsp' = nsp + Parm
  /\ Next_
  /\ UNCHANGED <<code, stack, vbp, table, heap, status>>

\* exactly Parm values above the last mark
Pmadj ==
  /\ Running({"PMADJ"})
  /\ nsp' = Last(vbp) + Parm
  /\ FillTo(Last(vbp) + Parm)
  /\ Next_
  /\ UNCHANGED <<code, vbp, table, heap, status>>

Prog1 ==
  /\ Running({"PROG1"})
  /\ vbp' = Append(vbp, nsp)
  /\ Next_
  /\ UNCHANGED <<code, stack, nsp, table, heap, status>>

Prog2 ==
  /\ Running({"PROG2"})
  /\ vbp' = Front(vbp)
  /\ Next_
  /\ UNCHANGED <<code, stack, nsp, table, heap, status>>

Unary ==
  /\ Running({"OP1"})
  /\ IF IsNum(stack[nsp])
       THEN /\ stack' = [stack EXCEPT ![nsp] = UnaryValue(Parm, @)]
            /\ Next_
            /\ UNCHANGED <<code, nsp, vbp, table, heap, status>>
       ELSE Throw

Binary ==
  /\ Running({"OP2"})
  /\ IF IsNum(stack[nsp]) /\ IsNum(stack[nsp - 1])
       THEN /\ stack' = [stack EXCEPT ![nsp - 1] = BinaryValue(Parm, @, stack[nsp])]
            /\ nsp' = nsp - 1
            /\ Next_
            /\ UNCHANGED <<code, vbp, table, heap, status>>
       ELSE Throw

Jump ==
  /\ Running({"JUMP"})
  /\ Goto(Parm)
  /\ UNCHANGED <<code, stack, nsp, vbp, table, heap, status>>

JumpN ==
  /\ Running({"JUMP_N"})
  /\ Goto(stack[nsp][2])
  /\ nsp' = nsp - 1
  /\ UNCHANGED <<code, stack, vbp, table, heap, status>>

JumpIf ==
  /\ Running({"JUMP_TRUE", "JUMP_FALSE"})
  /\ IF IsNum(stack[nsp])
       THEN /\ IF Truth(stack[nsp]) = (Op = "JUMP_TRUE") THEN Goto(Parm) ELSE Next_
            /\ nsp' = nsp - 1
            /\ UNCHANGED <<code, stack, vbp, table, heap, status>>
       ELSE Throw

-----------------------------------------------------------------------------
(* Objects *)

\* Where object o keeps the value of name: a table and a metatable in themselves, an
\* instance in itself if its class has such a member, else among the statics of its class
Holder(o, name) ==
  CASE heap[o].k \in {"table", "meta"} -> o
    [] heap[o].k = "inst" /\ name \in DOMAIN heap[o].vals -> o
    [] heap[o].k = "inst" /\ name \notin DOMAIN heap[o].vals
         /\ name \in DOMAIN heap[heap[o].meta].vals -> heap[o].meta
    [] OTHER -> 0

\* kptr2: the object is moved to slot 0, which holds this for the next call
GetIndex ==
  /\ Running({"GET_INDEX"})
  /\ LET o == stack[nsp]
         h == IF o[1] = "ref" THEN Holder(o[2], Parm) ELSE 0
     IN  IF h = 0 THEN Throw
         ELSE /\ stack' = [stack EXCEPT ![0] = o, ![nsp] = Entry(heap[h].vals, Parm)]
              /\ heap' = [heap EXCEPT ![h].vals = With(@, Parm, Entry(@, Parm))]
              /\ Next_
              /\ UNCHANGED <<code, nsp, vbp, table, status>>

SetIndex ==
  /\ Running({"SET_INDEX"})
  /\ LET o == stack[nsp]
         h == IF o[1] = "ref" THEN Holder(o[2], Parm) ELSE 0
     IN  IF h = 0 THEN Throw
         ELSE /\ stack' = [stack EXCEPT ![0] = o]
              /\ heap' = [heap EXCEPT ![h].vals = With(@, Parm, stack[nsp - 1])]
              /\ nsp' = nsp - 2
              /\ Next_
              /\ UNCHANGED <<code, vbp, table, status>>

-----------------------------------------------------------------------------
(* Calls.  The callee is on the top, its arguments between the last mark and it. *)

\* the end of callx: n results stand above the mark, which goes
Results(vs) ==
  /\ stack' = [i \in DOMAIN stack |->
                 IF i \in Last(vbp) + 1..Last(vbp) + Len(vs) THEN vs[i - Last(vbp)] ELSE stack[i]]
  /\ nsp' = Last(vbp) + Len(vs)
  /\ vbp' = Front(vbp)

CallCode ==
  /\ Running({"CALL"}) /\ stack[nsp][1] = "fn"
  /\ code[stack[nsp][2]].kind = "code"
  /\ LET c == code[stack[nsp][2]]
     IN  /\ frames' = Append(frames, [fn |-> stack[nsp][2], cur |-> 0, nbp |-> Last(vbp), nsp |-> nsp - 1])
         /\ stack' = IF c.this > 0 THEN [stack EXCEPT ![nsp - 1 + c.this] = stack[0]] ELSE stack
         /\ nsp' = nsp - 1 + c.nl
  /\ UNCHANGED <<code, vbp, table, heap, status>>

\* CallableSwitch::__fun_call
CallSwitch ==
  /\ Running({"CALL"}) /\ stack[nsp][1] = "fn"
  /\ LET c  == code[stack[nsp][2]]
         at == {i \in DOMAIN c.jpm : c.jpm[i][1] = stack[nsp - 1]}
     IN  /\ c.kind = "switch"
         /\ Results(<<IntV(IF at = {} THEN c.jpd ELSE c.jpm[CHOOSE i \in at : TRUE][2])>>)
  /\ Next_
  /\ UNCHANGED <<code, table, heap, status>>

Args == SubSeq([i \in 1..nsp - 1 |-> stack[i]], Last(vbp) + 1, nsp - 1)
IsRef(v, k) == v[1] = "ref" /\ heap[v[2]].k = k
NewRef == <<"ref", Len(heap) + 1>>

\* Some order of the entries; in the code they stand in the order they came in
Order(t) == SetToSeq(DOMAIN t)

\* the functions of the library: their results and the objects they make
Library(name, as) ==
  CASE name = "table" /\ as = <<>> ->
         [res |-> <<NewRef>>, new |-> <<[k |-> "table", vals |-> <<>>]>>, lost |-> {}]
    [] name = "metatable" /\ Len(as) = 2 /\ IsRef(as[1], "table") /\ IsRef(as[2], "table") ->
         [res |-> <<NewRef>>, lost |-> {as[1][2], as[2][2]},
          new |-> <<[k |-> "meta", member |-> heap[as[1][2]].vals, vals |-> heap[as[2][2]].vals]>>]
    [] name = "get_iterator" /\ Len(as) = 2 ->
         [res |-> <<IF as[1][1] \in {"ref", "fn", "nat"} THEN NewRef ELSE NilV>>, lost |-> {},
          new |-> CASE as[1][1] = "ref" /\ heap[as[1][2]].k # "iter" ->
                         <<[k |-> "iter", of |-> as[1][2], at |-> 0, n |-> as[2][2]]>>
                    [] as[1][1] \in {"bool", "int", "nil"} -> <<>>
                    [] OTHER -> <<[k |-> "iter", of |-> 0, at |-> 0, n |-> 0]>>]
    [] name = "is_nil" /\ Len(as) = 1 -> [res |-> <<BoolV(as[1] = NilV)>>, new |-> <<>>, lost |-> {}]
    [] name = "table_size" /\ Len(as) = 1 /\ as[1][1] = "ref" /\ heap[as[1][2]].k \in {"table", "meta"} ->
         [res |-> <<IntV(Cardinality(DOMAIN heap[as[1][2]].vals))>>, new |-> <<>>, lost |-> {}]
    [] OTHER -> [res |-> <<>>, new |-> <<>>, lost |-> {-1}]

\* metatable() takes the entries of its two tables away
CallLibrary ==
  /\ Running({"CALL"}) /\ stack[nsp][1] = "nat"
  /\ LET r == Library(stack[nsp][2], Args)
     IN  IF r.lost = {-1} THEN Throw
         ELSE /\ heap' = [i \in DOMAIN heap |->
                            IF i \in r.lost THEN [heap[i] EXCEPT !.vals = <<>>] ELSE heap[i]] \o r.new
              /\ Results(r.res)
              /\ Next_
              /\ UNCHANGED <<code, table, status>>

\* CallableMetatable::__fun_call: an instance with the members' first values
CallMetatable ==
  /\ Running({"CALL"}) /\ IsRef(stack[nsp], "meta")
  /\ heap' = Append(heap, [k |-> "inst", meta |-> stack[nsp][2], vals |-> heap[stack[nsp][2]].member])
  /\ Results(<<NewRef>>)
  /\ Next_
  /\ UNCHANGED <<code, table, status>>

\* CallableIterator_Table1/2::__fun_call
CallIterator ==
  /\ Running({"CALL"}) /\ IsRef(stack[nsp], "iter")
  /\ LET it   == heap[stack[nsp][2]]
         t    == IF it.of = 0 THEN <<>> ELSE heap[it.of].vals
         more == it.n \in 1..2 /\ it.at < Cardinality(DOMAIN t)
         name == Order(t)[it.at + 1]
     IN  IF more
           THEN /\ Results((IF it.n = 2 THEN <<<<"str", name>>>> ELSE <<>>) \o <<t[name], BoolV(TRUE)>>)
                /\ heap' = [heap EXCEPT ![stack[nsp][2]].at = @ + 1]
           ELSE Results(<<BoolV(FALSE)>>) /\ UNCHANGED heap
  /\ Next_
  /\ UNCHANGED <<code, table, status>>

CallOther ==
  /\ Running({"CALL"})
  /\ \/ stack[nsp][1] \notin {"fn", "nat", "ref"}
     \/ stack[nsp][1] = "ref" /\ heap[stack[nsp][2]].k \in {"table", "inst"}
  /\ Throw

\* RETURN copies the values above its mark to where the arguments were, HALT returns none;
\* __fun_call returns to callx, or to calln and execute.
Return ==
  /\ Running({"RETURN", "HALT"})
  /\ LET bp == Last(vbp)
         n  == IF Op = "HALT" THEN 0 ELSE nsp - bp
         up == IF Op = "HALT" THEN vbp ELSE Front(vbp)
     IN  /\ stack' = [i \in DOMAIN stack |->
                        IF i \in Top.nbp + 1..Top.nbp + n THEN stack[bp + i - Top.nbp] ELSE stack[i]]
         /\ nsp' = Last(up) + n
         /\ vbp' = Front(up)
  /\ IF Len(frames) = 1
       THEN frames' = frames /\ status' = "done"
       ELSE LET f == Front(frames)
            IN  frames' = [f EXCEPT ![Len(f)].cur = @ + 1] /\ UNCHANGED status
  /\ UNCHANGED <<code, table, heap>>

-----------------------------------------------------------------------------
\* Executor::execute in a fresh executor: compiled, pushed and called with no arguments
Load(c) ==
  /\ code = c
  /\ stack = [i \in 0..MaxStack |-> NilV]
  /\ vbp = <<0, 0>>
  /\ table = <<>>
  /\ heap = <<>>
  /\ IF c = <<>> THEN frames = <<>> /\ nsp = 0 /\ status = "thrown"
     ELSE /\ frames = <<[fn |-> Len(c), cur |-> 0, nbp |-> 0, nsp |-> 0]>>
          /\ nsp = Last(c).nl
          /\ status = "run"

Step == \/ Push \/ PushNil \/ GetTable \/ SetTable \/ SetLocal \/ Spadj \/ Pmadj
        \/ Prog1 \/ Prog2 \/ Unary \/ Binary \/ Jump \/ JumpN \/ JumpIf \/ GetIndex \/ SetIndex
        \/ CallCode \/ CallSwitch \/ CallLibrary \/ CallMetatable \/ CallIterator \/ CallOther
        \/ Return
=============================================================================
