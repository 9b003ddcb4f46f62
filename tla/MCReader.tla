------------------------------ MODULE MCReader ------------------------------
(***************************************************************************)
(* Every text of up to 3 characters with one character of each class, and  *)
(* of 4 without those that differ least, every text of up to 6 of the      *)
(* characters that make structure, every number-like text of up to 4,      *)
(* the words strtod reads and their neighbours, lists and programs around  *)
(* the capacity of a vector, and some texts of several lines with long     *)
(* tokens.  A lexeme of 3 characters fills the initial buffer, one of 6    *)
(* makes it grow twice.                                                    *)
(***************************************************************************)
EXTENDS Reader

MCLetters == {"a", "b", "e", "f", "i", "n", "t", "x", "y", "A", "N"}

UpTo(n, S) == UNION {[1 .. k -> S] : k \in 0 .. n}

OneOfEach  == {"(", ")", "'", ";", DoubleQuote, Newline, " ", "a", "1", "+", "{"}
Structural == {"(", ")", "'", "a"}
Numeric    == {"1", "0", "-", ".", "e", "x"}

Repeat(s, n) == FlattenSeq([i \in 1 .. n |-> s])
Long(n) == {Repeat(<<"a", " ">>, n), <<"(">> \o Repeat(<<"1", Newline>>, n) \o <<")">>,
            Repeat(<<"'", "a">>, n), <<"(">> \o Repeat(<<"(", ")">>, n) \o <<")">>}

NumberWords == {sign \o word \o tail : sign \in {<<>>, <<"+">>, <<"-">>},
                                word \in {<<"i", "n">>, <<"i", "n", "f">>, <<"n", "a", "n">>, <<"N", "A", "n">>,
                                         <<"i", "n", "f", "i", "n", "i", "t", "y">>},
                                tail \in {<<>>, <<"1">>, <<"+">>, <<" ", "1", "+">>}}

Lines ==
  {<<"(", "a", "b", "e", "x", "a", "b", "x">> \o e \o <<")", Newline, ";", "a", "b", " ", "b", "a", "a">> \o f
     : e \in {<<>>, <<Newline, " ", " ", Newline>>, <<"'", " ", "(", ")">>},
       f \in {<<>>, <<Newline>>, <<Newline, DoubleQuote, "a", Newline, "b", DoubleQuote, "'", ";", Newline, "1">>,
              <<Newline, DoubleQuote, "a", Newline, ")">>}}

MCLongLists == UNION {Long(n) : n \in 6 .. 9}
MCSources ==
  UpTo(3, OneOfEach) \cup [1 .. 4 -> OneOfEach \ {" ", "1", "+"}] \cup UpTo(6, Structural) \cup UpTo(4, Numeric) \cup MCLongLists
    \cup NumberWords \cup Lines
=============================================================================
