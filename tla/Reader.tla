------------------------------- MODULE Reader -------------------------------
(***************************************************************************)
(* Lexer and parser held against grammar.txt, which is written here as a   *)
(* relation between trees and sequences of tokens.                         *)
(***************************************************************************)
EXTENDS Parser

Word == SelectSeq(tokens, Significant)

RECURSIVE Derives(_, _), DerivesAll(_, _)

\* <s_expression> ::= <atom> | <list> | <quoted_expression>
Derives(e, word) ==
  IF e.type = "atom"
    THEN Len(word) = 1 /\ e.kind = word[1].type /\ e.text = AtomText(word[1])
    ELSE /\ Len(word) > 1
         /\ \/ /\ word[1].type = "TOKEN_LPAREN"
               /\ word[Len(word)].type = "TOKEN_RPAREN"
               /\ DerivesAll(e.list, SubSeq(word, 2, Len(word) - 1))
            \/ /\ word[1].type = "TOKEN_QUOTE"
               /\ Len(e.list) = 2
               /\ e.list[1].type = "atom" /\ e.list[1].text = <<"quote">>
               /\ Derives(e.list[2], Tail(word))

\* <s_expression>*
DerivesAll(es, word) ==
  IF es = <<>> THEN word = <<>>
  ELSE \E n \in 1 .. Len(word) :
         Derives(es[1], SubSeq(word, 1, n)) /\ DerivesAll(Tail(es), From(word, n + 1))

\* The tree of an accepted program derives, by the rules of the grammar, exactly
\* the tokens of the whole source: nothing is lost or attached elsewhere, and a
\* quote takes one expression.
TreesDerive ==
  status = "parsed" => DerivesAll(Top.list.elements, Front(Word))

\* Every text is read to an end: each call of the lexer returns a token, and
\* the parser advances past every token it does not refuse.
ReaderEnds == <>(status # "parsing")

\* grammar.txt:28: "It contains zero or more S-expressions."
ListsOfAnyLength == status # "undefined"
=============================================================================
