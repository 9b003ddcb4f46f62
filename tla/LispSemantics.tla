--------------------------- MODULE LispSemantics ---------------------------
(***************************************************************************)
(* What the programs mean: an evaluator for the language of the README     *)
(* (definitions, conditionals, arithmetic, functions), independent of the  *)
(* compiler and its representation of values.                              *)
(*                                                                         *)
(* A state of the evaluation holds the functions, the global variables,    *)
(* the local variables of the current activation, whether there is one,    *)
(* and the value of the last expression.                                   *)
(***************************************************************************)
EXTENDS Integers, Sequences, TLC

Nil       == <<"nil">>
Truth     == <<"true">>
Undefined == <<"undefined">> \* the result of a definition, and of misuse
Val(n)    == <<"number", n>>

NoBindings == <<>>
Initial == [funs |-> NoBindings, global |-> NoBindings, local |-> NoBindings,
            inBody |-> FALSE, val |-> Undefined]

Arithmetic == {"+", "-", "*"}

Apply(op, a, b) ==
  IF a[1] # "number" \/ b[1] # "number" THEN Undefined
  ELSE CASE op = "+" -> Val(a[2] + b[2])
         [] op = "-" -> Val(a[2] - b[2])
         [] op = "*" -> Val(a[2] * b[2])

Variable(s, name) ==
  IF name = <<"#", "t">> THEN Truth
  ELSE IF name = <<"#", "f">> THEN Nil
  ELSE IF name \in DOMAIN s.local THEN s.local[name]
  ELSE IF name \in DOMAIN s.global THEN s.global[name]
  ELSE Undefined

Bind(s, name, v) ==
  IF s.inBody THEN [s EXCEPT !.local = (name :> v) @@ @, !.val = Undefined]
              ELSE [s EXCEPT !.global = (name :> v) @@ @, !.val = v]

Returning(s, v) == [s EXCEPT !.val = v]

RECURSIVE Eval(_, _), EvalBody(_, _), EvalOperands(_, _, _)

\* The state after expression e; s is the state before.
Eval(e, s) ==
  IF e.t = "num" THEN Returning(s, Val(e.v))
  ELSE IF e.t = "sym" THEN Returning(s, Variable(s, e.s))
  ELSE IF e.es = <<>> THEN Returning(s, Nil)
  ELSE LET op == e.es[1].s
       IN CASE op = <<"define">> /\ e.es[2].t # "list" ->
                 LET r == Eval(e.es[3], s) IN Bind(r, e.es[2].s, r.val)
            [] op = <<"define">> /\ e.es[2].t = "list" ->
                 LET f == [params |-> Tail(e.es[2].es), body |-> SubSeq(e.es, 3, Len(e.es))]
                 IN  [s EXCEPT !.funs = (e.es[2].es[1].s :> f) @@ @, !.val = Undefined]
            [] op = <<"if">> ->
                 LET c == Eval(e.es[2], s)
                 IN  IF c.val # Nil THEN Eval(e.es[3], c)
                     ELSE IF Len(e.es) = 4 THEN Eval(e.es[4], c) ELSE Returning(c, Nil)
            [] OTHER ->
                 LET f == IF op \in DOMAIN s.funs THEN s.funs[op] ELSE <<>>
                     r == EvalOperands(Tail(e.es), s, <<>>)
                 IN  IF f = <<>>
                     THEN IF Head(op) \in Arithmetic
                          THEN Returning(r.state, Apply(Head(op), r.vals[1], r.vals[2]))
                          ELSE Returning(r.state, Undefined)
                     ELSE LET params == [n \in {f.params[i].s : i \in DOMAIN f.params} |->
                                           r.vals[CHOOSE i \in DOMAIN r.vals : f.params[i].s = n]]
                              done   == EvalBody(f.body,
                                          [r.state EXCEPT !.local = params, !.inBody = TRUE])
                          IN  [done EXCEPT !.local = s.local, !.inBody = s.inBody]

\* Statement by statement; the value is that of the last one.
EvalBody(es, s) == IF es = <<>> THEN s ELSE EvalBody(Tail(es), Eval(Head(es), s))

\* Operands from left to right, with their values.
EvalOperands(es, s, vals) ==
  IF es = <<>> THEN [state |-> s, vals |-> vals]
  ELSE LET r == Eval(Head(es), s) IN EvalOperands(Tail(es), r, Append(vals, r.val))

\* The values of the global variables when the program has run.
Meaning(prog) == EvalBody(prog, Initial).global
=============================================================================
