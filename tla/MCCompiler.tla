----------------------------- MODULE MCCompiler -----------------------------
(***************************************************************************)
(* Programs without errors, built from templates: nested arithmetic and    *)
(* conditionals at top level; a function of two parameters with local      *)
(* variables, one of them possibly named like a parameter, conditionals    *)
(* and recursion in its body, called with calls among its operands; a      *)
(* function of six parameters.  A condition is a number, #t, #f or the     *)
(* empty list.                                                             *)
(***************************************************************************)
EXTENDS Compiler

A == <<"a">>
B == <<"b">>
C == <<"c">>
D == <<"d">>
F == <<"f">>
X == <<"x">>
Y == <<"y", "-", "1">>
Times == <<"*">>
Six == << <<"p1">>, <<"p2">>, <<"p3">>, <<"p4">>, <<"p5">>, <<"p6">> >>

MCNames == {Define_, If_, Plus, Minus, Times, True_, False_, A, B, C, D, F, X, Y,
            <<"h", "#">>} \cup ToSet(Six)

Add(e1, e2)   == List(<<Sym(Plus), e1, e2>>)
Cond(c, t, e) == List(<<Sym(If_), c, t, e>>)
App(f, es)    == List(<<Sym(f)>> \o es)
DefVar(n, e)  == List(<<Sym(Define_), Sym(n), e>>)
DefFun(f, ps, body) ==
  List(<<Sym(Define_), List(<<Sym(f)>> \o [i \in DOMAIN ps |-> Sym(ps[i])])>> \o body)

T  == Sym(True_)
Fa == Sym(False_)

Conditions == {T, Fa, List(<<>>), Num(3)}
Numbers0 == {Num(1), Num(20)}
Numbers1 == Numbers0 \cup {Add(a, b) : a, b \in Numbers0}
              \cup {Cond(c, a, b) : c \in Conditions, a, b \in Numbers0}
Numbers2 == {Add(a, b) : a, b \in Numbers1}
              \cup {Cond(c, a, Num(300)) : c \in Conditions \cup {Cond(Fa, T, Fa)}, a \in Numbers1}

TopLevel ==
  {<<DefVar(X, e), DefVar(Y, Add(Num(5), Sym(X)))>> : e \in Numbers2}
    \cup {<<Cond(T, DefVar(X, Num(1)), Num(2)), DefVar(Y, List(<<Sym(If_), Fa, Sym(X)>>))>>,
          <<DefVar(Y, Add(DefVar(X, Num(1)), Add(Num(2), Num(3))))>>}

Locals == {<<>>, <<DefVar(C, Add(Sym(A), Num(1)))>>,
           <<DefVar(C, Num(3)), DefVar(D, Add(Sym(C), Sym(A)))>>,
           <<DefVar(A, Add(Sym(A), Num(7)))>>}
Results(known) ==
  LET v == Sym(known)
  IN  {v, Sym(B), Add(Num(100), Add(v, Sym(A))),
       Cond(Sym(B), Add(v, Num(40)), App(F, <<Num(50), T>>)),
       Cond(Sym(B), v, Add(App(F, <<v, T>>), App(F, <<Sym(A), Num(0)>>))),
       List(<<Sym(If_), Sym(B), v>>)}
Bodies == UNION {{ls \o <<r>> : r \in Results(IF Len(ls) = 0 THEN A ELSE ls[Len(ls)].es[2].s)}
                 : ls \in Locals}
Calls == {App(F, <<Num(4), c>>) : c \in Conditions}
           \cup {App(F, <<App(F, <<Num(2), T>>), App(F, <<Num(1), Fa>>)>>)}

Functions == {<<DefFun(F, <<A, B>>, body), DefVar(X, call), DefVar(Y, Sym(X))>>
                : body \in Bodies, call \in Calls}
Wide == {<<DefFun(F, Six, <<Sym(Six[i])>>),
           DefVar(X, App(F, [j \in 1 .. 6 |-> Add(Num(j), Num(10))]))>> : i \in 1 .. 6}

MCCorrect == TopLevel \cup Functions \cup Wide

-----------------------------------------------------------------------------
(* Programs for which documentation and code differ *)

\* (define x (- 7 2))
MCSubtraction == {<<DefVar(X, List(<<Sym(Minus), Num(7), Num(2)>>))>>}

\* (define x (* 7 2))
MCMultiplication == {<<DefVar(X, List(<<Sym(Times), Num(7), Num(2)>>))>>}

\* (define (f a) (if a (define b 5) 6) (+ b a))   (define x (f 7))
MCNestedDefine ==
  {<<DefFun(F, <<A>>, <<Cond(Sym(A), DefVar(B, Num(5)), Num(6)), Add(Sym(B), Sym(A))>>),
     DefVar(X, App(F, <<Num(7)>>))>>}

\* (define (f a) a)   (define x (f (define f 1)))
MCRedefinition ==
  {<<DefFun(F, <<A>>, <<Sym(A)>>), DefVar(X, App(F, <<DefVar(F, Num(1))>>))>>}

-----------------------------------------------------------------------------
(* Programs with errors the compiler does not report: definitions inside   *)
(* expressions of a function, their result used as an operand, calls with  *)
(* too few or too many operands, endless recursion, labels that are        *)
(* missing or defined twice, a function redefined while it is called.      *)

Hash == <<"h", "#">>
Inner == DefVar(C, Num(5))
MisusedBodies ==
  {<<e, r>> : e \in {Cond(Sym(B), Inner, Num(1)), Add(Sym(A), Inner), Add(Inner, Sym(A)),
                     App(F, <<Inner, Fa>>), Add(Num(1), Cond(Fa, Num(2), Inner)),
                     Cond(Sym(B), App(F, <<Add(Sym(A), Inner), Fa>>), Inner)},
              r \in {Inner, Sym(C), Add(Sym(A), Sym(C)), App(F, <<Sym(A), Sym(B)>>)}}
    \cup {<<r>> : r \in {Inner, Add(Sym(A), Sym(B)), App(F, <<Num(1), Sym(A)>>),
                         Add(Num(1), App(F, <<Num(1), Sym(A)>>)), App(F, <<>>)}}
MisusedCalls ==
  {App(F, es) : es \in {<<>>, <<Num(1)>>, <<Num(1), T>>, <<Num(1), Fa>>, <<T, Num(2), Num(3)>>}}

MCMisuse ==
  {<<DefFun(F, <<A, B>>, body), DefVar(X, e)>>
      : body \in MisusedBodies, e \in MisusedCalls \cup {Add(call, Num(1)) : call \in MisusedCalls}}
    \cup MCRedefinition \cup MCMultiplication
    \cup {<<DefVar(X, Num(1)), DefVar(X, Num(2))>>,
          <<DefVar(Hash, Num(1)), Sym(Hash)>>,
          <<DefFun(X, <<>>, <<Num(1)>>), DefVar(Y, List(<<Sym(Minus), Num(3), App(X, <<>>)>>))>>}

MCPrograms == MCCorrect \cup MCMisuse

RECURSIVE Parts(_)
Parts(e) == {e} \cup (IF e.t = "list" THEN UNION {Parts(part) : part \in ToSet(e.es)} ELSE {})

MCExprs == UNION {UNION {Parts(e) : e \in ToSet(p)} : p \in MCPrograms \cup MCSubtraction \cup MCNestedDefine}
=============================================================================
