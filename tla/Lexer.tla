------------------------------- MODULE Lexer -------------------------------
(***************************************************************************)
(* lexer.c and token.c: lexer_next cuts the source text into tokens, one   *)
(* call per token.  A step is one turn of a handler's loop: it appends the *)
(* current character to the lexeme buffer and advances.                    *)
(*                                                                         *)
(* A handler takes the address of the buffer before it appends anything,   *)
(* and the token is made from that address.  realloc may move the buffer   *)
(* in between; what the token then holds is Garbage.                       *)
(***************************************************************************)
EXTENDS Integers, Sequences, FiniteSets

CONSTANTS
  Sources,        \* the source texts: sequences of characters
  Letters,        \* the letters among their characters
  LexemeCapacity, \* LEXEME_BUFFER_INITIAL_CAPACITY, 256 in the code
  Garbage         \* what a string read through a stale pointer holds

VARIABLES
  source, current_pos, line, col, \* struct LexerContext; current_pos characters are consumed
  buf,      \* the characters of lexeme_buf
  capacity, \* lexeme_buf.capacity
  moved,    \* TRUE when realloc has moved the buffer under the running handler
  handler,  \* the type of token being read, "call" on entry of lexer_next, "idle" outside
  start,    \* start_line and start_col of the handler
  end,      \* its end_line and end_col
  tokens    \* the tokens returned so far; upto (of the model only) counts the characters consumed

lexer == <<source, current_pos, line, col, buf, capacity, moved, handler, start, end, tokens>>

Nul         == "nul"
Newline     == "newline"
DoubleQuote == "double quote"
Digits      == {"0", "1", "2", "3", "4", "5", "6", "7", "8", "9"}
Spaces      == {" ", "tab", Newline}

\* is_symbol_char: strchr finds the terminator of its string as well
SymbolChars ==
  Letters \cup Digits \cup {"#", "!", "$", "%", "&", "*", "+", "-", ".", "/", ":", "<", "=",
                            ">", "?", "@", "^", "_", "~", Nul}

Scanned == {"TOKEN_WHITESPACE", "TOKEN_COMMENT", "TOKEN_STRING", "TOKEN_SYMBOL"}
Single  == {"TOKEN_EOF", "TOKEN_LPAREN", "TOKEN_RPAREN", "TOKEN_QUOTE"}
Handlers == Scanned \cup Single \cup {"TOKEN_ERROR"}

ASSUME LexerAssumption ==
  /\ \A s \in Sources : s \in Seq(STRING \ {Nul})
  /\ Letters \cap ({Nul, ";", "(", ")", "'", DoubleQuote} \cup Spaces) = {}
  /\ LexemeCapacity \in Nat \ {0}

-----------------------------------------------------------------------------
(* Numbers *)

CharsOf(s) == {s[i] : i \in DOMAIN s}
From(s, i) == SubSeq(s, i, Len(s))
Unsigned(s) == IF s # <<>> /\ s[1] \in {"+", "-"} THEN From(s, 2) ELSE s
Integer(s) == Unsigned(s) # <<>> /\ CharsOf(Unsigned(s)) \subseteq Digits

\* A mantissa with at least one digit and at most one point, and possibly an exponent.
Float(s, digits, exponents) ==
  \E m \in 1 .. Len(s) :
    /\ CharsOf(SubSeq(s, 1, m)) \subseteq digits \cup {"."}
    /\ CharsOf(SubSeq(s, 1, m)) \cap digits # {}
    /\ \A i, j \in 1 .. m : s[i] = "." /\ s[j] = "." => i = j
    /\ m < Len(s) => s[m + 1] \in exponents /\ Integer(From(s, m + 2))

Hexadecimal(s) ==
  /\ Len(s) > 2
  /\ s[1] = "0"
  /\ s[2] \in {"x", "X"}
  /\ Float(From(s, 3), Digits \cup {"a", "b", "c", "d", "e", "f", "A", "B", "C", "D", "E", "F"}, {"p", "P"})

\* A numeral: decimal or hexadecimal notation with an optional sign.
Numeral(s) == Float(Unsigned(s), Digits, {"e", "E"}) \/ Hexadecimal(Unsigned(s))

Capital == [i |-> "I", n |-> "N", f |-> "F", t |-> "T", y |-> "Y", a |-> "A"]

\* The words that strtod reads as well: infinities and what is not a number.
NonFinite(s) ==
  \E w \in {<<"i", "n", "f">>, <<"n", "a", "n">>, <<"i", "n", "f", "i", "n", "i", "t", "y">>} :
    Len(s) = Len(w) /\ \A k \in 1 .. Len(w) : s[k] \in {w[k], Capital[w[k]]}

\* strtod leaves nothing of s
StrtodReads(s) == Numeral(s) \/ NonFinite(Unsigned(s))

\* mutated: no digit is asked for
IsNumberWithoutDigit(s) == StrtodReads(s) /\ s \notin {<<"+">>, <<"-">>}

\* The tests of lexer_handle_symbol: strtod consumes the lexeme, it is not a
\* bare sign, and it contains a digit.
IsNumber(s) == StrtodReads(s) /\ s \notin {<<"+">>, <<"-">>} /\ CharsOf(s) \cap Digits # {}

-----------------------------------------------------------------------------
(* The characters and the buffer *)

CurrentCh == IF current_pos < Len(source) THEN source[current_pos + 1] ELSE Nul

\* mutated: the end of the text is passed
AdvancePastEnd ==
  /\ current_pos' = current_pos + 1
  /\ line' = IF CurrentCh = Newline THEN line + 1 ELSE line
  /\ col' = IF CurrentCh = Newline THEN 1 ELSE col + 1

\* mutated: the column goes on counting
AdvanceKeepingCol ==
  IF CurrentCh = Nul THEN UNCHANGED <<current_pos, line, col>>
  ELSE /\ current_pos' = current_pos + 1
       /\ line' = IF CurrentCh = Newline THEN line + 1 ELSE line
       /\ col' = col + 1

\* lexer_advance
Advance ==
  IF CurrentCh = Nul THEN UNCHANGED <<current_pos, line, col>>
  ELSE /\ current_pos' = current_pos + 1
       /\ line' = IF CurrentCh = Newline THEN line + 1 ELSE line
       /\ col' = IF CurrentCh = Newline THEN 1 ELSE col + 1

\* mutated: no room is kept for the terminator
GrowsLate == Len(buf) >= capacity

Grows == Len(buf) + 1 >= capacity

\* buffer_append: realloc moves the buffer or extends it in place.
BufferAppend(c) ==
  /\ buf' = Append(buf, c)
  /\ capacity' = IF Grows THEN capacity * 2 ELSE capacity
  /\ moved' \in IF Grows THEN {moved, TRUE} ELSE {moved}

-----------------------------------------------------------------------------
(* lexer_next *)

LexerInit ==
  /\ source \in Sources
  /\ current_pos = 0
  /\ line = 1
  /\ col = 1
  /\ buf = <<>>
  /\ capacity = LexemeCapacity
  /\ moved = FALSE
  /\ handler = "idle"
  /\ start = <<1, 1>>
  /\ end = <<1, 1>>
  /\ tokens = <<>>

HandlerFor(c) ==
  CASE c = Nul         -> "TOKEN_EOF"
    [] c \in Spaces    -> "TOKEN_WHITESPACE"
    [] c = ";"         -> "TOKEN_COMMENT"
    [] c = "("         -> "TOKEN_LPAREN"
    [] c = ")"         -> "TOKEN_RPAREN"
    [] c = "'"         -> "TOKEN_QUOTE"
    [] c = DoubleQuote -> "TOKEN_STRING"
    [] c # Nul /\ c \in SymbolChars -> "TOKEN_SYMBOL"
    [] OTHER           -> "TOKEN_ERROR"

LexerCall ==
  /\ handler = "idle"
  /\ handler' = "call"
  /\ UNCHANGED <<source, current_pos, line, col, buf, capacity, moved, start, end, tokens>>

\* mutated: the buffer is not cleared
DispatchKeepingBuffer ==
  /\ handler = "call"
  /\ handler' = HandlerFor(CurrentCh)
  /\ moved' = FALSE
  /\ start' = <<line, col>>
  /\ end' = <<line, col>>
  /\ UNCHANGED <<source, current_pos, line, col, buf, capacity, tokens>>

\* buffer_clear, the choice of the handler, and the handler's first lines
Dispatch ==
  /\ handler = "call"
  /\ handler' = HandlerFor(CurrentCh)
  /\ buf' = <<>>
  /\ moved' = FALSE
  /\ start' = <<line, col>>
  /\ end' = <<line, col>>
  /\ UNCHANGED <<source, current_pos, line, col, capacity, tokens>>

EndsWith(c) == buf # <<>> /\ buf[Len(buf)] = c

\* mutated: a comment stops at any space
ContinuesToSpace ==
  CASE handler = "TOKEN_WHITESPACE" -> CurrentCh \in Spaces
    [] handler = "TOKEN_COMMENT"    -> CurrentCh \notin Spaces \cup {Nul}
    [] handler = "TOKEN_STRING"     -> CurrentCh # Nul /\ ~(Len(buf) > 1 /\ EndsWith(DoubleQuote))
    [] handler = "TOKEN_SYMBOL"     -> CurrentCh # Nul /\ CurrentCh \in SymbolChars

\* The loop of the handler goes on with the current character.  A comment
\* takes its newline, a string both its quotes.
Continues ==
  CASE handler = "TOKEN_WHITESPACE" -> CurrentCh \in Spaces
    [] handler = "TOKEN_COMMENT"    -> CurrentCh # Nul /\ ~EndsWith(Newline)
    [] handler = "TOKEN_STRING"     -> CurrentCh # Nul /\ ~(Len(buf) > 1 /\ EndsWith(DoubleQuote))
    [] handler = "TOKEN_SYMBOL"     -> CurrentCh # Nul /\ CurrentCh \in SymbolChars

Scan ==
  /\ handler \in Scanned
  /\ Continues
  /\ BufferAppend(CurrentCh)
  /\ end' = <<line, col>>
  /\ Advance
  /\ UNCHANGED <<source, handler, start, tokens>>

Returns(type, lexeme, to) ==
  /\ tokens' = Append(tokens, [type |-> type, lexeme |-> lexeme, start |-> start, end |-> to,
                               upto |-> current_pos'])
  /\ handler' = "idle"
  /\ UNCHANGED <<source, start>>

\* make_token duplicates what the handler's pointer points to.
Lexeme == IF moved THEN Garbage ELSE buf

FinishScan ==
  /\ handler \in Scanned \ {"TOKEN_SYMBOL"}
  /\ ~Continues
  /\ UNCHANGED <<current_pos, line, col, buf, capacity, moved, end>>
  /\ IF handler = "TOKEN_STRING" /\ ~(Len(buf) > 1 /\ EndsWith(DoubleQuote))
       THEN Returns("TOKEN_ERROR", <<"Unterminated string literal">>, end)
       ELSE Returns(handler, Lexeme, end)

\* A number is what strtod consumes; of garbage it may say anything.
FinishSymbol ==
  /\ handler = "TOKEN_SYMBOL"
  /\ ~Continues
  /\ UNCHANGED <<current_pos, line, col, buf, capacity, moved, end>>
  /\ \E type \in {"TOKEN_NUMBER", "TOKEN_SYMBOL"} :
       /\ ~moved => (type = "TOKEN_NUMBER" <=> IsNumber(buf))
       /\ Returns(type, Lexeme, end)

\* lexer_handle_single_char: the end is taken after advancing.  The lexeme of
\* the end of the file is its terminator, an empty string.
SingleChar ==
  /\ handler \in Single
  /\ BufferAppend(CurrentCh)
  /\ Advance
  /\ end' = <<line', col'>>
  /\ Returns(handler, IF handler = "TOKEN_EOF" THEN <<>> ELSE <<CurrentCh>>, end')

\* lexer_handle_error: the end is taken before advancing.
IllegalChar ==
  /\ handler = "TOKEN_ERROR"
  /\ BufferAppend(CurrentCh)
  /\ Advance
  /\ UNCHANGED end
  /\ Returns("TOKEN_ERROR", <<"Illegal character">>, end)

LexerStep == Dispatch \/ Scan \/ FinishScan \/ FinishSymbol \/ SingleChar \/ IllegalChar

\* The lexer on its own: a caller that asks for token after token.
LexerSpec == LexerInit /\ [][LexerCall \/ LexerStep]_lexer

-----------------------------------------------------------------------------
(* Properties *)

LexerTypeOK ==
  /\ source \in Sources
  /\ current_pos \in 0 .. Len(source)
  /\ line \in Nat \ {0}
  /\ col \in Nat \ {0}
  /\ capacity \in Nat \ {0}
  /\ moved \in BOOLEAN
  /\ handler \in Handlers \cup {"idle", "call"}
  /\ \A i \in DOMAIN tokens :
       tokens[i].type \in Handlers \cup {"TOKEN_NUMBER"} /\ tokens[i].upto \in 0 .. current_pos

\* The characters consumed before token i.
Before(i) == IF i = 1 THEN 0 ELSE tokens[i - 1].upto
Span(i) == SubSeq(source, Before(i) + 1, tokens[i].upto)

\* buffer_append always has room for the character and its terminator, however
\* often the buffer grew before and for whichever token.
BufferFits == Len(buf) <= capacity - (IF buf = <<>> THEN 0 ELSE 1)

\* n characters were consumed to reach this line and column.
IsPlace(place, n) ==
  /\ place[1] = 1 + Cardinality({i \in 1 .. n : source[i] = Newline})
  /\ place[2] \in 1 .. n + 1
  /\ \A i \in n - place[2] + 2 .. n : source[i] # Newline
  /\ place[2] = n + 1 \/ source[n - place[2] + 1] = Newline

AtOrBefore(p, q) == p[1] < q[1] \/ (p[1] = q[1] /\ p[2] <= q[2])

\* Error messages name the right place: every token starts where the previous
\* one ended, at its line and column, with newlines inside strings, comments
\* and white space counted.
PlacesRight ==
  /\ IsPlace(<<line, col>>, current_pos)
  /\ \A i \in DOMAIN tokens : IsPlace(tokens[i].start, Before(i))

\* The tokens tile the source: nothing is skipped or read twice, every token
\* but the last (end of file) consumes something, and its lexeme is exactly
\* the text it consumed, unless the buffer moved while it was read, which
\* takes a lexeme that fills the initial buffer.
TokensTile ==
  \A i \in DOMAIN tokens :
    LET t == tokens[i] IN
    /\ t.upto > Before(i) \/ (t.type = "TOKEN_EOF" /\ t.upto = Len(source))
    /\ \/ t.type = "TOKEN_ERROR"
       \/ t.lexeme = Span(i)
       \/ t.lexeme = Garbage /\ t.upto - Before(i) + 1 >= LexemeCapacity

\* The texts of each kind of token, and what the next character must not be
\* because the token would have gone on.
Language(t, s, next) ==
  CASE t.type = "TOKEN_WHITESPACE" -> CharsOf(s) \subseteq Spaces /\ next \notin Spaces
    [] t.type = "TOKEN_COMMENT" ->
         /\ s[1] = ";"
         /\ \A i \in DOMAIN s : s[i] = Newline => i = Len(s)
         /\ next # Nul => s[Len(s)] = Newline
    [] t.type = "TOKEN_STRING" -> {i \in DOMAIN s : s[i] = DoubleQuote} = {1, Len(s)} /\ Len(s) > 1
    [] t.type \in {"TOKEN_SYMBOL", "TOKEN_NUMBER"} ->
         /\ CharsOf(s) \subseteq SymbolChars
         /\ next \notin SymbolChars \ {Nul}
         /\ t.lexeme # Garbage => (t.type = "TOKEN_NUMBER" <=> Numeral(s))
    [] t.type = "TOKEN_LPAREN" -> s = <<"(">>
    [] t.type = "TOKEN_RPAREN" -> s = <<")">>
    [] t.type = "TOKEN_QUOTE" -> s = <<"'">>
    [] t.type = "TOKEN_EOF" -> s = <<>> /\ next = Nul
    [] t.type = "TOKEN_ERROR" ->
         \/ {i \in DOMAIN s : s[i] = DoubleQuote} = {1} /\ next = Nul
         \/ Len(s) = 1 /\ s[1] \notin SymbolChars \cup Spaces \cup {";", "(", ")", "'", DoubleQuote}

\* Tokens are as long as they can be and of the kind their text says: a comment
\* ends with its line only and a string with its quote only, errors are strings
\* that the text leaves open and characters that begin nothing, and of the runs
\* of symbol characters exactly the numerals are numbers ("1+", "1e" and "-inf"
\* are symbols), except when the buffer moved while the run was read: then
\* strtod is given garbage and may say anything.
TokensMaximal ==
  \A i \in DOMAIN tokens :
    LET n == tokens[i].upto IN
    Language(tokens[i], Span(i), IF n < Len(source) THEN source[n + 1] ELSE Nul)
=============================================================================
