------------------------------- MODULE Parser -------------------------------
(***************************************************************************)
(* parser.c and the vectors of expr.c: recursive descent over the tokens   *)
(* of Lexer.  The activations of parse_program, parse_list and             *)
(* parse_quoted_expression are the variable frames; every parser_advance   *)
(* lets the lexer run until it has returned the next token.                *)
(***************************************************************************)
EXTENDS Lexer, SequencesExt

CONSTANTS
  ListCapacity, \* LIST_INITIAL_CAPACITY, 8 in the code
  ExprSize      \* sizeof(struct Expr), 64 bytes

VARIABLES
  frames, \* the activations, innermost last
  value,  \* the expression parse_expr returns once the parser has advanced
  status  \* "parsing", "parsed", "failed" (parser_error) or "undefined"

vars == <<lexer, frames, value, status>>

ASSUME ParserAssumption ==
  /\ ListCapacity \in Nat \ {0}
  /\ ExprSize \in Nat \ {0}

-----------------------------------------------------------------------------
(* Expressions and vectors *)

\* unquote_str drops the quotes of a string; symbols are duplicated, numbers
\* stand for the double strtod makes of their lexeme.
AtomText(t) ==
  IF t.type = "TOKEN_STRING" /\ t.lexeme # Garbage
    THEN SubSeq(t.lexeme, 2, Len(t.lexeme) - 1)
    ELSE t.lexeme

Atom(t) == [type |-> "atom", kind |-> t.type, text |-> AtomText(t), start |-> t.start, end |-> t.end]
List(es, from, to) == [type |-> "list", list |-> es, start |-> from, end |-> to]
QuoteAtom(at) ==
  [type |-> "atom", kind |-> "TOKEN_SYMBOL", text |-> <<"quote">>, start |-> at, end |-> at]

NoExpr == [type |-> "none"] \* no expression is being returned

\* mutated: malloc is given a number of elements as well
EmptyVectorSmall == [elements |-> <<>>, capacity |-> ListCapacity, bytes |-> ListCapacity]

\* exprvector_create
EmptyVector == [elements |-> <<>>, capacity |-> ListCapacity, bytes |-> ListCapacity * ExprSize]

\* exprvector_append: the block is resized to new_capacity bytes.
AppendExpr(v, e) ==
  LET full == Len(v.elements) + 1 >= v.capacity IN
  [elements |-> Append(v.elements, e),
   capacity |-> IF full THEN v.capacity * 2 ELSE v.capacity,
   bytes    |-> IF full THEN v.capacity * 2 ELSE v.bytes]

\* The elements reach beyond the block that was allocated for them.
Overrun(v) == Len(v.elements) * ExprSize > v.bytes

-----------------------------------------------------------------------------
(* The parser *)

Frame(fn, at) == [fn |-> fn, list |-> EmptyVector, start |-> at]

\* parser_make asks for the first token.
Init ==
  /\ LexerInit
  /\ frames = <<Frame("program", <<1, 1>>)>>
  /\ value = NoExpr
  /\ status = "parsing"

CurrentToken == tokens[Len(tokens)]
Top == frames[Len(frames)]
Pop == Front(frames)

\* The parser runs while the lexer does not.
Parsing == status = "parsing" /\ handler = "idle"
Sees(types) == Parsing /\ tokens # <<>> /\ value = NoExpr /\ CurrentToken.type \in types
ParserAdvance == LexerCall

Start ==
  /\ Parsing
  /\ tokens = <<>>
  /\ ParserAdvance
  /\ UNCHANGED <<frames, value, status>>

Lex ==
  /\ LexerStep
  /\ UNCHANGED <<frames, value, status>>

\* skip_whitespace_and_comments comes before every parse_expr.
SkipBlank ==
  /\ Sees({"TOKEN_WHITESPACE", "TOKEN_COMMENT"})
  /\ Top.fn # "quoting"
  /\ ParserAdvance
  /\ UNCHANGED <<frames, value, status>>

ParseAtom ==
  /\ Sees({"TOKEN_SYMBOL", "TOKEN_NUMBER", "TOKEN_STRING"})
  /\ Top.fn # "quoting"
  /\ value' = Atom(CurrentToken)
  /\ ParserAdvance
  /\ UNCHANGED <<frames, status>>

OpenList ==
  /\ Sees({"TOKEN_LPAREN"})
  /\ Top.fn # "quoting"
  /\ frames' = Append(frames, Frame("list", CurrentToken.start))
  /\ ParserAdvance
  /\ UNCHANGED <<value, status>>

\* mutated: a parenthesis closes whatever is open
CloseAny ==
  /\ Sees({"TOKEN_RPAREN"})
  /\ Top.fn \in {"list", "quote"}
  /\ frames' = Pop
  /\ value' = List(Top.list.elements, Top.start, CurrentToken.end)
  /\ ParserAdvance
  /\ UNCHANGED status

\* mutated: the list ends where its closing parenthesis starts
CloseListEarly ==
  /\ Sees({"TOKEN_RPAREN"})
  /\ Top.fn = "list"
  /\ frames' = Pop
  /\ value' = List(Top.list.elements, Top.start, CurrentToken.start)
  /\ ParserAdvance
  /\ UNCHANGED status

CloseList ==
  /\ Sees({"TOKEN_RPAREN"})
  /\ Top.fn = "list"
  /\ frames' = Pop
  /\ value' = List(Top.list.elements, Top.start, CurrentToken.end)
  /\ ParserAdvance
  /\ UNCHANGED status

\* parse_expr steps over the quote and calls parse_quoted_expression.
Quote ==
  /\ Sees({"TOKEN_QUOTE"})
  /\ Top.fn # "quoting"
  /\ frames' = Append(frames, Frame("quoting", CurrentToken.start))
  /\ ParserAdvance
  /\ UNCHANGED <<value, status>>

\* mutated: the symbol quote is left out
BeginQuotedBare ==
  /\ Parsing
  /\ Top.fn = "quoting"
  /\ frames' = [frames EXCEPT ![Len(frames)] = Frame("quote", CurrentToken.start)]
  /\ UNCHANGED <<lexer, value, status>>

\* parse_quoted_expression takes its start from the token after the quote,
\* which may be white space, and begins the list with the symbol quote.
BeginQuoted ==
  /\ Parsing
  /\ Top.fn = "quoting"
  /\ LET at == CurrentToken.start IN
       frames' = [frames EXCEPT ![Len(frames)] =
                    [fn |-> "quote", list |-> AppendExpr(EmptyVector, QuoteAtom(at)), start |-> at]]
  /\ UNCHANGED <<lexer, value, status>>

\* parse_expr returns to its caller, which appends the expression to its
\* vector.  A quoted list is complete with it: it ends where the token after
\* it ends, and is returned in turn.  Writing beyond the block is undefined
\* behaviour, and the model stops there.
Return ==
  /\ Parsing
  /\ value # NoExpr
  /\ LET v == AppendExpr(Top.list, value) IN
       IF Overrun(v)
         THEN status' = "undefined" /\ UNCHANGED <<frames, value>>
       ELSE IF Top.fn = "quote"
         THEN /\ frames' = Pop
              /\ value' = List(v.elements, Top.start, CurrentToken.end)
              /\ UNCHANGED status
         ELSE /\ frames' = [frames EXCEPT ![Len(frames)].list = v]
              /\ value' = NoExpr
              /\ UNCHANGED status
  /\ UNCHANGED lexer

\* parse_program ends at the end of the file.
EndProgram ==
  /\ Sees({"TOKEN_EOF"})
  /\ Top.fn = "program"
  /\ status' = "parsed"
  /\ UNCHANGED <<lexer, frames, value>>

\* mutated: the end of the file is no error inside a list
FailUnlessEOF ==
  /\ \/ Sees({"TOKEN_RPAREN"}) /\ Top.fn \in {"program", "quote"}
     \/ Sees({"TOKEN_ERROR"}) /\ Top.fn # "quoting"
  /\ status' = "failed"
  /\ UNCHANGED <<lexer, frames, value>>

\* parser_error: a parenthesis that closes no list, the end of the file inside
\* a list or after a quote, a character or string the lexer refused.
ParserError ==
  /\ \/ Sees({"TOKEN_RPAREN"}) /\ Top.fn \in {"program", "quote"}
     \/ Sees({"TOKEN_EOF"}) /\ Top.fn \in {"list", "quote"}
     \/ Sees({"TOKEN_ERROR"}) /\ Top.fn # "quoting"
  /\ status' = "failed"
  /\ UNCHANGED <<lexer, frames, value>>

Next ==
  \/ Start \/ Lex \/ SkipBlank \/ ParseAtom \/ OpenList \/ CloseList
  \/ Quote \/ BeginQuoted \/ Return \/ EndProgram \/ ParserError

\* One sequential program, which nothing makes wait.
Spec == Init /\ [][Next]_vars /\ WF_vars(Next)

-----------------------------------------------------------------------------
(* Properties *)

\* The parser never writes outside a vector that has fewer elements than
\* LIST_INITIAL_CAPACITY - 1, whatever the nesting.
ShortListsSafe ==
  status = "undefined" => Len(Top.list.elements) + 1 >= ListCapacity

\* White space and comments are not part of the structural rules.
Significant(t) == t.type \notin {"TOKEN_WHITESPACE", "TOKEN_COMMENT"}

Earlier(k, type) == {i \in 1 .. k - 1 : tokens[i].type = type}
OpenLists(k) ==
  Cardinality(Earlier(k, "TOKEN_LPAREN")) - Cardinality(Earlier(k, "TOKEN_RPAREN"))
AfterQuote(k) ==
  \E i \in Earlier(k, "TOKEN_QUOTE") : \A j \in i + 1 .. k - 1 : ~Significant(tokens[j])

\* Some program of the grammar goes on with token k after the tokens before it.
MayFollow(k) ==
  /\ tokens[k].type # "TOKEN_ERROR"
  /\ tokens[k].type = "TOKEN_RPAREN" => OpenLists(k) > 0 /\ ~AfterQuote(k)
  /\ tokens[k].type = "TOKEN_EOF" => OpenLists(k) = 0 /\ ~AfterQuote(k)
  /\ Earlier(k, "TOKEN_EOF") = {}

\* An error is reported at the first token with which no program of the grammar
\* can go on, never later and never before, and the end of a correct program is
\* accepted: the descent through lists and quotes agrees with counting.
RejectsAtFirstError ==
  /\ \A k \in 1 .. Len(tokens) - 1 : MayFollow(k)
  /\ status = "failed" => ~MayFollow(Len(tokens))
  /\ status = "parsed" => CurrentToken.type = "TOKEN_EOF" /\ MayFollow(Len(tokens))

Encloses(e) ==
  /\ AtOrBefore(e.start, e.end)
  /\ e.type = "list" =>
       \A i \in DOMAIN e.list :
         /\ AtOrBefore(e.start, e.list[i].start)
         /\ AtOrBefore(e.list[i].end, e.end)
         /\ i > 1 => AtOrBefore(e.list[i - 1].start, e.list[i].start)

\* The positions of an expression enclose those of its parts, which follow each
\* other in order (a quoted list gets the end of the token after it).  Its parts
\* have been returned before, so that this holds at every depth.
SpansNest == value # NoExpr => Encloses(value)
=============================================================================
