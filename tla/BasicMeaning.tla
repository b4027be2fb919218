---------------------------- MODULE BasicMeaning ----------------------------
(***************************************************************************)
(* What a BASIC program prints, said on the parse trees alone: no stack,   *)
(* no addresses, no code.  It is the reference the compiled code is        *)
(* compared with.  The order of evaluation is the code's: arguments as the *)
(* call lists them (the parser reverses the source's), left operands       *)
(* before right ones.  The handlers of io.bas mean what they print.        *)
(*                                                                         *)
(* A state has the values of the globals, the cells of the arrays, the     *)
(* arguments and locals of the running function, what has been printed,    *)
(* the input left, and `ret', the value a RETURN under way carries out.    *)
(***************************************************************************)
EXTENDS CodeGen

Value(v, s) == [v |-> v, s |-> s]

\* The definition of a name among the program's events.
Definition(p, k, x) == p.events[SelectInSeq(p.events, LAMBDA e : e.k = k /\ e.x = x)]

Assign(s, x, v) == IF x \in DOMAIN s.loc THEN [s EXCEPT !.loc[x] = v]
                                         ELSE [s EXCEPT !.vars = With(@, x, v)]

Look(s, x) == IF x \in DOMAIN s.loc THEN s.loc[x]
              ELSE IF x \in DOMAIN s.vars THEN s.vars[x] ELSE 0

Emit(s, items) == [s EXCEPT !.out = @ \o items]

Handlers == {"printStr", "printInt", "printTab", "printNL", "putChar"}

\* What a handler does with the arguments the call lists.
Handle(x, args, s) ==
  CASE x = "printStr" -> Emit(s, [i \in DOMAIN args[1] |-> Char(args[1][i])])
    [] x = "printInt" -> Emit(s, <<[int |-> args[1]]>>)
    [] x = "printTab" -> Emit(s, Sent(9))
    [] x = "printNL"  -> Emit(s, Sent(10))
    [] x = "putChar"  -> Emit(s, Sent(args[1]))

RECURSIVE Eval(_, _, _), EvalList(_, _, _, _), Decide(_, _, _, _), Run(_, _, _), Loop(_, _, _, _)

\* A call binds the arguments, the last one listed to the first name.
Apply(p, s, x, args) ==
  LET fn   == Definition(p, "function", x)
      n    == Len(fn.f.args)
      bind == [y \in ToSet(fn.f.args) \cup ToSet(fn.f.locals) |->
                 IF y \in ToSet(fn.f.locals) THEN 0
                 ELSE args[n + 1 - SelectInSeq(fn.f.args, LAMBDA z : z = y)]]
  IN Then([s EXCEPT !.loc = bind], LAMBDA called :
     Then(Run(p, called, fn.body), LAMBDA done :
       Value(IF done.ret = <<>> THEN 0 ELSE done.ret[1],
             [done EXCEPT !.loc = s.loc, !.ret = <<>>])))

Eval(p, s, e) ==
  CASE e.k = "lit" -> Value(e.n, s)
    [] e.k = "str" -> Value(e.s, s)
    [] e.k = "var" -> Value(Look(s, e.x), s)
    [] e.k = "at"  -> Then(Eval(p, s, e.i), LAMBDA i : Value(i.s.cells[e.x][i.v + 1], i.s))
    [] e.k = "un"  -> Then(Eval(p, s, e.e), LAMBDA a : Value(Unary(e.o, a.v), a.s))
    [] e.k = "bin" -> Then(Eval(p, s, e.a), LAMBDA a :
                      Then(Eval(p, a.s, e.b), LAMBDA b : Value(Binary(e.o, a.v, b.v), b.s)))
    [] e.k \in {"any", "all"} -> Decide(p, s, e.es, e.k = "any")
    [] e.k = "call" ->
         Then(EvalList(p, s, e.args, <<>>), LAMBDA args :
           IF e.x = "readChar" THEN Value(NextChar(s.input), [s EXCEPT !.input = RestOf(@)])
           ELSE IF e.x \in Handlers THEN Value(0, Handle(e.x, args.v, args.s))
           ELSE Apply(p, args.s, e.x, args.v))

EvalList(p, s, es, vs) ==
  IF es = <<>> THEN Value(vs, s)
  ELSE Then(Eval(p, s, Head(es)), LAMBDA v : EvalList(p, v.s, Tail(es), Append(vs, v.v)))

\* OR stops at the first value that is not zero, AND at the first that is.
Decide(p, s, es, stop) ==
  Then(Eval(p, s, Head(es)), LAMBDA v :
    IF Len(es) = 1 \/ (v.v # 0) = stop THEN v ELSE Decide(p, v.s, Tail(es), stop))

\* One turn of a loop: does it go on, in which state, with which value.
Stop(s) == [go |-> FALSE, s |-> s, v |-> 0]

\* FOR: the variable has its value before the limit is looked at, each time.
ForTurn(p, s, f, v) ==
  Then(Assign(s, f.x, v), LAMBDA set :
  Then(Eval(p, set, f.b), LAMBDA limit :
    IF v > limit.v THEN Stop(limit.s)
    ELSE Then(Run(p, limit.s, f.body), LAMBDA body :
      IF body.ret # <<>> THEN Stop(body)
      ELSE Then(Eval(p, body, f.s), LAMBDA step :
             [go |-> TRUE, s |-> step.s, v |-> Wrap(Look(body, f.x) + step.v)]))))

\* One turn of a DO: the test at the top, the body, the test at the bottom.
Again(p, s, d, tests) ==
  IF d.test \notin tests THEN Value(TRUE, s)
  ELSE Then(Eval(p, s, d.e), LAMBDA v :
         Value((v.v # 0) = (d.test \in {"do while", "loop while"}), v.s))

DoTurn(p, s, d) ==
  Then(Again(p, s, d, {"do while", "do until"}), LAMBDA top :
    IF ~top.v THEN Stop(top.s)
    ELSE Then(Run(p, top.s, d.body), LAMBDA body :
      IF body.ret # <<>> THEN Stop(body)
      ELSE Then(Again(p, body, d, {"loop while", "loop until"}), LAMBDA bottom :
             [go |-> bottom.v, s |-> bottom.s, v |-> 0])))

Loop(p, s, l, v) ==
  Then(IF l.k = "for" THEN ForTurn(p, s, l, v) ELSE DoTurn(p, s, l), LAMBDA turn :
    IF turn.go THEN Loop(p, turn.s, l, turn.v) ELSE turn.s)

Perform(p, s, t) ==
  CASE t.k = "let" ->
         Then(Eval(p, s, t.e), LAMBDA v :
           IF t.v.k = "var" THEN Assign(v.s, t.v.x, v.v)
           ELSE Then(Eval(p, v.s, t.v.i), LAMBDA i : [i.s EXCEPT !.cells[t.v.x][i.v + 1] = v.v]))
    [] t.k = "if"       -> Then(Eval(p, s, t.e), LAMBDA v : Run(p, v.s, IF v.v # 0 THEN t.a ELSE t.b))
    [] t.k = "for"      -> Then(Eval(p, s, t.a), LAMBDA v : Loop(p, v.s, t, v.v))
    [] t.k = "do"       -> Loop(p, s, t, 0)
    [] t.k = "return"   -> Then(Eval(p, s, t.e), LAMBDA v : [v.s EXCEPT !.ret = <<v.v>>])
    [] t.k = "returnz"  -> [s EXCEPT !.ret = <<0>>]
    [] t.k = "end"      -> s
    [] t.k = "callstmt" -> Eval(p, s, t.e).s

Run(p, s, ts) ==
  IF ts = <<>> \/ s.ret # <<>> THEN s
  ELSE Then(Perform(p, s, Head(ts)), LAMBDA d : Run(p, d, Tail(ts)))

\* What the whole program prints for an input.
Declared(p, isArray) == {i \in DOMAIN p.events : p.events[i].k = "dim" /\ p.events[i].isArray = isArray}
NamesOf(p, is) == {p.events[i].x : i \in is}

Prints(p, keys) ==
  Run(p, [vars  |-> [x \in NamesOf(p, Declared(p, FALSE)) |-> Definition(p, "dim", x).init[1]],
          cells |-> [x \in NamesOf(p, Declared(p, TRUE)) |-> Definition(p, "dim", x).init],
          loc   |-> <<>>,
          out   |-> <<>>,
          input |-> keys,
          ret   |-> <<>>], p.main).out
=============================================================================
