----------------------------- MODULE MCCodegen -----------------------------
(***************************************************************************)
(* Every list of up to three elements over a small alphabet, among them    *)
(* every misuse of define, if, + and of a function, compiled alone, after  *)
(* a prelude that defines a function, a variable and names with            *)
(* punctuation, as the body of a function, as an operand, and as a branch. *)
(***************************************************************************)
EXTENDS Codegen

F  == <<"f">>
G  == <<"g">>
X  == <<"x">>
H  == <<"a", "#">>
P  == <<"a", "-", "b">>
Q  == <<"a", "_", "b">>
L5 == <<"a", "-", "b", "-", "c">>
L7 == <<"a", "-", "b", "-", "c", "-", "d">>
LN == <<"LISP", "-", "NIL">>

MCNames == {Define_, If_, Plus, Minus, True_, False_, F, G, X, H, P, Q, L5, L7, LN}

DefVar(n, e)      == List(<<Sym(Define_), Sym(n), e>>)
DefFun(f, ps, e)  == List(<<Sym(Define_), List(<<Sym(f)>> \o [i \in DOMAIN ps |-> Sym(ps[i])]), e>>)
Seven == <<F, F, F, F, F, F, F>>

Elements ==
  {Num(1), Str(X), Sym(Define_), Sym(If_), Sym(Plus), Sym(F), Sym(X), Sym(True_),
   List(<<>>), List(<<Sym(F)>>), List(<<Sym(F), Sym(X)>>), List(<<Num(1), Sym(X)>>),
   List(<<Sym(Plus), Num(1), Num(2)>>)}

Small == UNION {[1 .. n -> Elements] : n \in 0 .. 3}
Expressions == {List(es) : es \in Small} \cup Elements

\* Shapes three elements over the alphabet do not reach.
Others ==
  { List(<<Sym(If_), Sym(X), Num(1), Num(2)>>),
    List(<<Sym(If_), Sym(X), List(<<Sym(If_), Sym(X), Num(1)>>), Num(2)>>),
    List(<<Sym(If_), Sym(X), Num(1), Num(2), Num(3)>>),
    List(<<Sym(Plus), Num(1), DefFun(Plus, <<X>>, Sym(X))>>),
    List(<<Sym(F), DefVar(F, Num(1))>>),
    List(<<Sym(F)>> \o [i \in 1 .. 7 |-> Num(i)]),
    DefFun(G, Seven, Num(1)), DefFun(L5, <<>>, Num(1)), DefVar(L5, Num(1)),
    DefVar(L7, Num(1)), DefVar(H, Sym(X)), DefVar(LN, Num(1)),
    List(<<Sym(Define_), List(<<Sym(F), Num(1)>>), Num(1)>>),
    List(<<Sym(Define_), List(<<List(<<>>), Num(1)>>), Num(1)>>),
    DefFun(G, <<X, X>>, List(<<Sym(If_), Sym(X), DefVar(F, Num(1)), Sym(F)>>)),
    DefFun(G, <<>>, DefFun(F, <<>>, Num(1))) }

Prelude == << DefFun(F, <<X>>, Sym(X)), DefVar(X, Num(1)), DefVar(P, Sym(X)) >>
Nested  == {DefFun(G, <<X>>, e) : e \in Expressions \cup Others}
             \cup {List(<<Sym(Plus), Num(1), e>>) : e \in Expressions \cup Others}

MCPrograms ==
  {Prelude \o <<e>> : e \in Expressions \cup Others \cup Nested}
    \cup {<<e>> : e \in Expressions \cup Others}
    \cup {Prelude \o <<DefVar(Q, Sym(P)), DefVar(H, Num(1)), Sym(H)>>}

RECURSIVE Parts(_)
Parts(e) == {e} \cup (IF e.t = "list" THEN UNION {Parts(part) : part \in ToSet(e.es)} ELSE {})

MCExprs == UNION {UNION {Parts(e) : e \in ToSet(p)} : p \in MCPrograms}
=============================================================================
