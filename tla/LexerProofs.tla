---------------------------- MODULE LexerProofs ----------------------------
(***************************************************************************)
(* Proofs about the lexer, for every set of source texts and every initial *)
(* capacity of the buffer: its types, that the buffer always fits, that    *)
(* the tokens tile the source, stand where they say and are as long as     *)
(* they can be.                                                            *)
(***************************************************************************)
EXTENDS Lexer, FiniteSetTheorems, SequenceTheorems, TLAPS

\* Source characters, and the terminator of the text.
Char == STRING \cup {Nul}

TokenTypes == Handlers \cup {"TOKEN_NUMBER"}
Text == Seq(Char) \cup {Garbage, <<"Unterminated string literal">>, <<"Illegal character">>}
Token == [type : TokenTypes, lexeme : Text, start : Nat \X Nat, end : Nat \X Nat,
          upto : Nat]

\* The characters that belong to the tokens returned so far.
Consumed == IF tokens = <<>> THEN 0 ELSE tokens[Len(tokens)].upto

Typed ==
  /\ source \in Sources
  /\ current_pos \in 0 .. Len(source)
  /\ line \in Nat \ {0}
  /\ col \in Nat \ {0}
  /\ buf \in Seq(Char)
  /\ capacity \in Nat
  /\ capacity >= LexemeCapacity
  /\ moved \in BOOLEAN
  /\ handler \in Handlers \cup {"idle", "call"}
  /\ start \in Nat \X Nat
  /\ end \in Nat \X Nat
  /\ tokens \in Seq(Token)
  /\ \A i \in DOMAIN tokens : tokens[i].upto \in 0 .. current_pos

\* Outside the handlers everything read belongs to a token; inside, the buffer
\* holds what was read since the last one, and it has moved only when it was full.
Reading ==
  /\ handler \in {"idle", "call"} => current_pos = Consumed
  /\ handler \in Handlers =>
       /\ Len(buf) = current_pos - Consumed
       /\ buf = SubSeq(source, Consumed + 1, current_pos)
       /\ moved => Len(buf) >= LexemeCapacity
       /\ IsPlace(start, Consumed)

\* A handler has been chosen by its first character, and only those with a loop
\* are ever seen with something in the buffer.
Chosen ==
  handler \in Handlers =>
    /\ buf = <<>> => handler = HandlerFor(CurrentCh)
    /\ handler \notin Scanned => buf = <<>>

IInv == Typed /\ Reading /\ Chosen /\ BufferFits /\ PlacesRight /\ TokensTile

-----------------------------------------------------------------------------
(* Texts and places *)

\* Source texts are sequences of characters, and none of these is the terminator.
LEMMA SourceType ==
  ASSUME NEW s \in Sources
  PROVE  /\ s \in Seq(Char)
         /\ Len(s) \in Nat
         /\ \A i \in 1 .. Len(s) : s[i] # Nul
PROOF
  <1>1. s \in Seq(STRING \ {Nul})
    BY LexerAssumption
  <1>2. Len(s) \in Nat /\ DOMAIN s = 1 .. Len(s)
    BY <1>1
  <1>3. \A i \in 1 .. Len(s) : s[i] \in STRING \ {Nul}
    BY <1>1
  <1>4. s = [i \in 1 .. Len(s) |-> s[i]]
    BY <1>1
  <1>5. \A i \in 1 .. Len(s) : s[i] \in Char
    BY <1>3 DEF Char
  <1>6. s \in [1 .. Len(s) -> Char]
    BY <1>4, <1>5
  <1>7. s \in Seq(Char)
    BY <1>2, <1>6, SeqDef
  <1> QED BY <1>2, <1>3, <1>7

LEMMA CapacityType == LexemeCapacity \in Nat \ {0}
BY LexerAssumption

LEMMA SourceChars ==
  ASSUME Typed
  PROVE  /\ source \in Seq(Char)
         /\ Len(source) \in Nat
         /\ \A i \in 1 .. Len(source) : source[i] # Nul
BY SourceType DEF Typed

\* A character further on: a newline begins a line, anything else adds a column.
LEMMA NextPlace ==
  ASSUME source \in Seq(Char),
         NEW l \in Nat \ {0}, NEW c \in Nat \ {0}, NEW n \in Nat, n < Len(source),
         IsPlace(<<l, c>>, n)
  PROVE  IF source[n + 1] = Newline THEN IsPlace(<<l + 1, 1>>, n + 1)
                                    ELSE IsPlace(<<l, c + 1>>, n + 1)
PROOF
  <1> DEFINE Before1 == {i \in 1 .. n : source[i] = Newline}
             Upto1   == {i \in 1 .. n + 1 : source[i] = Newline}
  <1>1. IsFiniteSet(Before1)
    <2>1. IsFiniteSet(1 .. n)
      BY FS_Interval
    <2>2. Before1 \in SUBSET (1 .. n)
      OBVIOUS
    <2> QED BY <2>1, <2>2, FS_Subset
  <1>2. l = 1 + Cardinality(Before1)
    BY DEF IsPlace
  <1>3. c \in 1 .. n + 1 /\ (\A i \in n - c + 2 .. n : source[i] # Newline)
        /\ (c = n + 1 \/ source[n - c + 1] = Newline)
    BY DEF IsPlace
  <1>4. n + 1 \notin Before1
    OBVIOUS
  <1>5. CASE source[n + 1] = Newline
    <2>1. Upto1 = Before1 \cup {n + 1}
      BY <1>5
    <2>2. Cardinality(Upto1) = Cardinality(Before1) + 1
      BY <1>1, <1>4, <2>1, FS_AddElement
    <2>3. Cardinality(Before1) \in Nat
      BY <1>1, FS_CardinalityType
    <2>4. l + 1 = 1 + Cardinality(Upto1)
      BY <1>2, <2>2, <2>3
    <2>5. 1 \in 1 .. (n + 1) + 1 /\ (\A i \in (n + 1) - 1 + 2 .. n + 1 : source[i] # Newline)
      OBVIOUS
    <2>6. source[(n + 1) - 1 + 1] = Newline
      <3>1. (n + 1) - 1 + 1 = n + 1
        OBVIOUS
      <3> QED BY <3>1, <1>5
    <2> HIDE DEF Before1
    <2>7. IsPlace(<<l + 1, 1>>, n + 1)
      BY <2>4, <2>5, <2>6 DEF IsPlace
    <2> QED BY <2>7, <1>5
  <1>6. CASE source[n + 1] # Newline
    <2>1. Upto1 = Before1
      BY <1>6
    <2>2. l = 1 + Cardinality(Upto1)
      BY <1>2, <2>1
    <2>3. c + 1 \in 1 .. (n + 1) + 1
      BY <1>3
    <2>4. \A i \in (n + 1) - (c + 1) + 2 .. n + 1 : source[i] # Newline
      <3> SUFFICES ASSUME NEW i \in (n + 1) - (c + 1) + 2 .. n + 1
                   PROVE  source[i] # Newline
        OBVIOUS
      <3>1. i = n + 1 \/ i \in n - c + 2 .. n
        OBVIOUS
      <3> QED BY <3>1, <1>3, <1>6
    <2>5. c + 1 = (n + 1) + 1 \/ source[(n + 1) - (c + 1) + 1] = Newline
      <3>1. (n + 1) - (c + 1) + 1 = n - c + 1
        OBVIOUS
      <3> QED BY <3>1, <1>3
    <2>6. IsPlace(<<l, c + 1>>, n + 1)
      BY <2>2, <2>3, <2>4, <2>5 DEF IsPlace
    <2> QED BY <2>6, <1>6
  <1> QED BY <1>5, <1>6

\* lexer_advance keeps position, line and column in range and in step; it
\* passes one character and stays at the end of the text.
LEMMA Advanced ==
  ASSUME Typed, IsPlace(<<line, col>>, current_pos), Advance, source' = source
  PROVE  /\ current_pos' \in 0 .. Len(source)
         /\ line' \in Nat \ {0}
         /\ col' \in Nat \ {0}
         /\ IsPlace(<<line, col>>, current_pos)'
         /\ IF CurrentCh = Nul
              THEN current_pos' = current_pos /\ current_pos = Len(source)
              ELSE /\ current_pos' = current_pos + 1
                   /\ current_pos < Len(source)
                   /\ CurrentCh = source[current_pos + 1]
                   /\ CurrentCh \in Char
PROOF
  <1>1. source \in Seq(Char) /\ (\A i \in 1 .. Len(source) : source[i] # Nul)
    BY SourceChars
  <1>2. /\ current_pos \in Nat /\ current_pos <= Len(source) /\ Len(source) \in Nat
        /\ line \in Nat \ {0} /\ col \in Nat \ {0}
    BY <1>1 DEF Typed
  <1>3. CASE CurrentCh = Nul
    <2>1. current_pos = Len(source)
      <3> SUFFICES ASSUME current_pos < Len(source) PROVE FALSE
        BY <1>2
      <3>1. current_pos + 1 \in 1 .. Len(source)
        BY <1>2
      <3> QED BY <1>1, <1>3, <3>1 DEF CurrentCh
    <2>2. UNCHANGED <<current_pos, line, col>>
      BY <1>3 DEF Advance
    <2>3. IsPlace(<<line, col>>, current_pos)'
      BY <2>2 DEF IsPlace
    <2> QED BY <1>2, <1>3, <2>1, <2>2, <2>3
  <1>4. CASE CurrentCh # Nul
    <2>1. current_pos < Len(source) /\ CurrentCh = source[current_pos + 1]
      BY <1>4 DEF CurrentCh
    <2>2. /\ current_pos' = current_pos + 1
          /\ line' = IF CurrentCh = Newline THEN line + 1 ELSE line
          /\ col' = IF CurrentCh = Newline THEN 1 ELSE col + 1
      BY <1>4 DEF Advance
    <2>3. IF source[current_pos + 1] = Newline THEN IsPlace(<<line + 1, 1>>, current_pos + 1)
                                               ELSE IsPlace(<<line, col + 1>>, current_pos + 1)
      BY <1>1, <1>2, <2>1, NextPlace
    <2>4. IsPlace(<<line', col'>>, current_pos')
      BY <2>1, <2>2, <2>3
    <2>5. IsPlace(<<line, col>>, current_pos)'
      BY <2>4 DEF IsPlace
    <2>6. CurrentCh \in Char
      BY <1>1, <1>2, <2>1
    <2> QED BY <1>2, <1>4, <2>1, <2>2, <2>5, <2>6
  <1> QED BY <1>3, <1>4

-----------------------------------------------------------------------------
(* Tokens *)

LEMMA ConsumedBound ==
  ASSUME Typed
  PROVE  Consumed \in Nat /\ Consumed <= current_pos
PROOF
  <1>1. CASE tokens = <<>>
    BY <1>1 DEF Consumed, Typed
  <1>2. CASE tokens # <<>>
    <2>1. Len(tokens) \in DOMAIN tokens
      BY <1>2 DEF Typed
    <2> QED BY <1>2, <2>1 DEF Consumed, Typed
  <1> QED BY <1>1, <1>2

\* One more token: the earlier ones keep their text and place, and the new one
\* covers what was read since them.
LEMMA TokenAppended ==
  ASSUME IInv, NEW t \in Token,
         tokens' = Append(tokens, t), source' = source, t.upto = current_pos',
         current_pos' \in current_pos .. Len(source),
         IsPlace(t.start, Consumed),
         current_pos' > Consumed \/ (t.type = "TOKEN_EOF" /\ current_pos' = Len(source)),
         \/ t.type = "TOKEN_ERROR"
         \/ t.lexeme = SubSeq(source, Consumed + 1, current_pos')
         \/ t.lexeme = Garbage /\ current_pos' - Consumed + 1 >= LexemeCapacity
  PROVE  /\ tokens' \in Seq(Token)
         /\ \A i \in DOMAIN tokens' : tokens'[i].upto \in 0 .. current_pos'
         /\ Consumed' = current_pos'
         /\ TokensTile'
         /\ \A i \in DOMAIN tokens' : IsPlace(tokens[i].start, Before(i))'
PROOF
  <1>0. tokens \in Seq(Token) /\ Len(tokens) \in Nat
    BY DEF IInv, Typed
  <1> PICK n \in Nat : n = Len(tokens)
    BY <1>0
  <1>1. tokens \in Seq(Token) /\ n \in Nat /\ n = Len(tokens) /\ DOMAIN tokens = 1 .. n
    BY <1>0
  <1>2. /\ tokens' \in Seq(Token)
        /\ Len(tokens') = n + 1
        /\ DOMAIN tokens' = 1 .. n + 1
        /\ \A i \in 1 .. n : tokens'[i] = tokens[i]
        /\ tokens'[n + 1] = t
    BY <1>1, AppendProperties
  <1>3. Consumed' = current_pos'
    <2>1. tokens' # <<>>
      BY <1>1, <1>2
    <2> QED BY <1>2, <2>1 DEF Consumed
  <1>4. current_pos \in Nat /\ current_pos' \in Nat /\ current_pos <= current_pos'
    <2>1. Len(source) \in Nat
      BY SourceChars DEF IInv
    <2> QED BY <2>1 DEF IInv, Typed
  <1>5. \A i \in DOMAIN tokens' : tokens'[i].upto \in 0 .. current_pos'
    <2> SUFFICES ASSUME NEW i \in 1 .. n + 1 PROVE tokens'[i].upto \in 0 .. current_pos'
      BY <1>2
    <2>1. CASE i = n + 1
      BY <1>2, <1>4, <2>1
    <2>2. CASE i # n + 1
      <3>1. i \in 1 .. n
        BY <1>1, <2>2
      <3>2. tokens[i].upto \in 0 .. current_pos
        BY <1>1, <3>1 DEF IInv, Typed
      <3> QED BY <1>2, <1>4, <3>1, <3>2
    <2> QED BY <2>1, <2>2
  <1>6. \A i \in 1 .. n : Before(i)' = Before(i)
    BY <1>1, <1>2 DEF Before
  <1>7. Before(n + 1)' = Consumed /\ Before(n + 1) = Consumed
    <2>1. CASE tokens = <<>>
      BY <1>1, <2>1 DEF Before, Consumed
    <2>2. CASE tokens # <<>>
      <3>1. n # 0 /\ n + 1 # 1 /\ (n + 1) - 1 = n /\ n \in 1 .. n
        BY <1>1, <2>2
      <3> QED BY <1>2, <2>2, <3>1 DEF Before, Consumed
    <2> QED BY <2>1, <2>2
  <1>8. \A i \in 1 .. n + 1 : i \in 1 .. n \/ i = n + 1
    BY <1>1
  <1>9. TokensTile'
    <2> SUFFICES ASSUME NEW i \in 1 .. n + 1
                 PROVE  /\ \/ tokens'[i].upto > Before(i)'
                           \/ tokens'[i].type = "TOKEN_EOF" /\ tokens'[i].upto = Len(source')
                        /\ \/ tokens'[i].type = "TOKEN_ERROR"
                           \/ tokens'[i].lexeme = Span(i)'
                           \/ /\ tokens'[i].lexeme = Garbage
                              /\ tokens'[i].upto - Before(i)' + 1 >= LexemeCapacity
      BY <1>2 DEF TokensTile
    <2>1. CASE i \in 1 .. n
      <3>1. tokens'[i] = tokens[i] /\ Before(i)' = Before(i) /\ i \in DOMAIN tokens
        BY <1>1, <1>2, <1>6, <2>1
      <3>2. Span(i)' = Span(i)
        BY <3>1 DEF Span
      <3> QED BY <3>1, <3>2 DEF IInv, TokensTile
    <2>2. CASE i = n + 1
      <3>1. tokens'[i] = t /\ Before(i)' = Consumed
        BY <1>2, <1>7, <2>2
      <3>2. Span(i)' = SubSeq(source, Consumed + 1, current_pos')
        BY <3>1 DEF Span
      <3> QED BY <3>1, <3>2
    <2> QED BY <1>8, <2>1, <2>2
  <1>10. \A i \in DOMAIN tokens' : IsPlace(tokens[i].start, Before(i))'
    <2> SUFFICES ASSUME NEW i \in 1 .. n + 1
                 PROVE  IsPlace(tokens[i].start, Before(i))'
      BY <1>2
    <2>1. CASE i \in 1 .. n
      <3>1. tokens'[i] = tokens[i] /\ Before(i)' = Before(i) /\ i \in DOMAIN tokens
        BY <1>1, <1>2, <1>6, <2>1
      <3>2. IsPlace(tokens[i].start, Before(i))
        BY <3>1 DEF IInv, PlacesRight
      <3> QED BY <3>1, <3>2 DEF IsPlace
    <2>2. CASE i = n + 1
      <3>1. tokens'[i] = t /\ Before(i)' = Consumed
        BY <1>2, <1>7, <2>2
      <3> QED BY <3>1 DEF IsPlace
    <2> QED BY <1>8, <2>1, <2>2
  <1> QED BY <1>2, <1>3, <1>5, <1>9, <1>10

-----------------------------------------------------------------------------
(* Steps *)

LEMMA CurrentChType ==
  ASSUME Typed
  PROVE  CurrentCh \in Char
PROOF
  <1>1. CASE current_pos < Len(source)
    <2>1. current_pos + 1 \in 1 .. Len(source)
      BY <1>1, SourceChars DEF Typed
    <2> QED BY <1>1, <2>1, SourceChars DEF CurrentCh
  <1>2. CASE ~(current_pos < Len(source))
    BY <1>2 DEF CurrentCh, Char
  <1> QED BY <1>1, <1>2

\* buffer_append adds a character, and its block has room for it and for the
\* terminator; it can only move once the initial block is full.
LEMMA Appended ==
  ASSUME IInv, handler \in Handlers, BufferAppend(CurrentCh)
  PROVE  /\ buf' \in Seq(Char)
         /\ Len(buf') = Len(buf) + 1
         /\ \A i \in 1 .. Len(buf) : buf'[i] = buf[i]
         /\ buf'[Len(buf) + 1] = CurrentCh
         /\ capacity' \in Nat
         /\ capacity' >= LexemeCapacity
         /\ moved' \in BOOLEAN
         /\ moved' => Len(buf') >= LexemeCapacity
         /\ BufferFits'
PROOF
  <1>1. /\ buf \in Seq(Char) /\ Len(buf) \in Nat /\ CurrentCh \in Char
        /\ capacity \in Nat /\ capacity >= LexemeCapacity /\ moved \in BOOLEAN
        /\ LexemeCapacity \in Nat \ {0}
    BY CurrentChType, CapacityType DEF IInv, Typed
  <1>2. /\ buf' = Append(buf, CurrentCh)
        /\ capacity' = IF Grows THEN capacity * 2 ELSE capacity
        /\ moved' \in IF Grows THEN {moved, TRUE} ELSE {moved}
    BY DEF BufferAppend
  <1>3. /\ buf' \in Seq(Char) /\ Len(buf') = Len(buf) + 1 /\ buf' # <<>>
        /\ \A i \in 1 .. Len(buf) : buf'[i] = buf[i]
        /\ buf'[Len(buf) + 1] = CurrentCh
    <2> DEFINE longer == Append(buf, CurrentCh)
    <2>1. /\ longer \in Seq(Char) /\ Len(longer) = Len(buf) + 1
          /\ \A i \in 1 .. Len(buf) : longer[i] = buf[i]
          /\ longer[Len(buf) + 1] = CurrentCh
      BY <1>1, AppendProperties
    <2>2. buf' = longer
      BY <1>2
    <2> HIDE DEF longer
    <2>3. Len(longer) # 0
      BY <1>1, <2>1
    <2>4. longer # <<>>
      BY <2>3
    <2> QED BY <2>1, <2>2, <2>4
  <1>4. Len(buf) <= capacity
    <2>1. CASE buf = <<>>
      BY <1>1, <2>1 DEF IInv, BufferFits
    <2>2. CASE buf # <<>>
      BY <1>1, <2>2 DEF IInv, BufferFits
    <2> QED BY <2>1, <2>2
  <1>5. moved => Len(buf) >= LexemeCapacity
    BY DEF IInv, Reading
  <1>6. CASE Grows
    <2>1. Len(buf) + 1 >= capacity /\ capacity' = capacity * 2
      BY <1>2, <1>6 DEF Grows
    <2>2. Len(buf) + 1 <= capacity * 2 - 1
      <3>1. CASE buf = <<>>
        <4>1. Len(buf) = 0
          BY <3>1
        <4> QED BY <1>1, <4>1
      <3>2. CASE buf # <<>>
        <4>1. Len(buf) <= capacity - 1
          BY <3>2 DEF IInv, BufferFits
        <4> QED BY <1>1, <4>1
      <3> QED BY <3>1, <3>2
    <2>3. Len(buf') <= capacity' - 1
      BY <1>1, <1>3, <2>1, <2>2
    <2>4. BufferFits'
      BY <1>3, <2>3 DEF BufferFits
    <2>5. moved' \in BOOLEAN
      BY <1>1, <1>2, <1>6
    <2>6. capacity' \in Nat /\ capacity' >= LexemeCapacity
      BY <1>1, <2>1
    <2>7. Len(buf') >= LexemeCapacity
      BY <1>1, <1>3, <2>1
    <2> QED BY <1>3, <2>4, <2>5, <2>6, <2>7
  <1>7. CASE ~Grows
    <2>1. Len(buf) + 1 < capacity /\ capacity' = capacity /\ moved' = moved
      BY <1>1, <1>2, <1>7 DEF Grows
    <2>2. Len(buf') <= capacity' - 1
      BY <1>1, <1>3, <2>1
    <2>3. BufferFits'
      BY <1>3, <2>2 DEF BufferFits
    <2>4. moved' => Len(buf') >= LexemeCapacity
      BY <1>1, <1>3, <1>5, <2>1
    <2> QED BY <1>1, <1>3, <2>1, <2>3, <2>4
  <1> QED BY <1>6, <1>7

\* What was said of the tokens stays true as long as none is added.
LEMMA TilingKept ==
  ASSUME TokensTile, UNCHANGED <<source, tokens>>
  PROVE  TokensTile'
PROOF
  <1>1. source' = source /\ tokens' = tokens
    OBVIOUS
  <1> QED BY <1>1 DEF TokensTile, Before, Span

LEMMA PlacesKept ==
  ASSUME PlacesRight, UNCHANGED <<source, current_pos, line, col, tokens>>
  PROVE  PlacesRight'
PROOF
  <1>1. IsPlace(<<line, col>>, current_pos)'
    BY DEF PlacesRight, IsPlace
  <1>2. \A i \in DOMAIN tokens' : IsPlace(tokens[i].start, Before(i))'
    <2> SUFFICES ASSUME NEW i \in DOMAIN tokens PROVE IsPlace(tokens[i].start, Before(i))'
      OBVIOUS
    <2>1. IsPlace(tokens[i].start, Before(i))
      BY DEF PlacesRight
    <2>2. Before(i)' = Before(i) /\ tokens' = tokens /\ source' = source
      BY DEF Before
    <2> QED BY <2>1, <2>2 DEF IsPlace
  <1> QED BY <1>1, <1>2 DEF PlacesRight

LEMMA InvInit == LexerInit => IInv
PROOF
  <1> SUFFICES ASSUME LexerInit PROVE IInv
    OBVIOUS
  <1>1. /\ source \in Seq(Char) /\ Len(source) \in Nat
        /\ LexemeCapacity \in Nat \ {0}
    BY SourceType, CapacityType DEF LexerInit
  <1>2. Typed
    <2>1. tokens \in Seq(Token) /\ DOMAIN tokens = {}
      BY DEF LexerInit
    <2>2. start \in Nat \X Nat /\ end \in Nat \X Nat
      BY DEF LexerInit
    <2>3. buf \in Seq(Char)
      BY DEF LexerInit
    <2>4. line \in Nat \ {0} /\ col \in Nat \ {0} /\ source \in Sources
          /\ handler \in Handlers \cup {"idle", "call"} /\ current_pos \in 0 .. Len(source)
      BY <1>1 DEF LexerInit
    <2>5. capacity \in Nat /\ capacity >= LexemeCapacity
      BY <1>1 DEF LexerInit
    <2>6. moved \in BOOLEAN
      BY DEF LexerInit
    <2> QED BY <2>1, <2>2, <2>3, <2>4, <2>5, <2>6 DEF Typed
  <1>3. Reading /\ Chosen
    BY DEF LexerInit, Reading, Chosen, Consumed, Handlers, Scanned, Single
  <1>4. BufferFits
    BY <1>1 DEF LexerInit, BufferFits
  <1>5. PlacesRight
    <2>1. {i \in 1 .. 0 : source[i] = Newline} = {}
      OBVIOUS
    <2>2. Cardinality({i \in 1 .. 0 : source[i] = Newline}) = 0
      BY <2>1, FS_EmptySet
    <2>3. IsPlace(<<1, 1>>, 0)
      BY <2>2 DEF IsPlace
    <2> QED BY <2>3 DEF LexerInit, PlacesRight
  <1>6. TokensTile
    BY DEF LexerInit, TokensTile
  <1> QED BY <1>2, <1>3, <1>4, <1>5, <1>6 DEF IInv

LEMMA InvCall == IInv /\ LexerCall => IInv'
PROOF
  <1> SUFFICES ASSUME IInv, LexerCall PROVE IInv'
    OBVIOUS
  <1>1. /\ handler = "idle" /\ handler' = "call"
        /\ UNCHANGED <<source, current_pos, line, col, buf, capacity, moved, start, end, tokens>>
    BY DEF LexerCall
  <1>2. Typed'
    BY <1>1 DEF IInv, Typed
  <1>3. Reading' /\ Chosen'
    BY <1>1 DEF IInv, Reading, Chosen, Consumed, Handlers, Scanned, Single
  <1>4. BufferFits' /\ PlacesRight' /\ TokensTile'
    <2>1. BufferFits'
      BY <1>1 DEF IInv, BufferFits
    <2>2. UNCHANGED <<source, current_pos, line, col, tokens>>
      BY <1>1
    <2> QED BY <2>1, <2>2, PlacesKept, TilingKept DEF IInv
  <1> QED BY <1>2, <1>3, <1>4 DEF IInv

\* The handler says what the first character is.
LEMMA HandlerGuards ==
  ASSUME NEW c
  PROVE  /\ HandlerFor(c) = "TOKEN_EOF" <=> c = Nul
         /\ HandlerFor(c) = "TOKEN_WHITESPACE" => c \in Spaces
         /\ HandlerFor(c) = "TOKEN_COMMENT" => c # Nul
         /\ HandlerFor(c) = "TOKEN_STRING" => c # Nul
         /\ HandlerFor(c) = "TOKEN_SYMBOL" => c # Nul /\ c \in SymbolChars
PROOF
  <1>1. CASE c = Nul
    BY <1>1 DEF HandlerFor, Nul, Spaces, Newline, DoubleQuote
  <1>2. CASE c \in Spaces
    BY <1>2, LexerAssumption DEF HandlerFor, Nul, Spaces, Newline, DoubleQuote, SymbolChars, Digits
  <1>3. CASE c # Nul /\ c \notin Spaces /\ c \in {";", "(", ")", "'", DoubleQuote}
    BY <1>3, LexerAssumption DEF HandlerFor, Nul, DoubleQuote, SymbolChars, Digits
  <1>4. CASE c # Nul /\ c \notin Spaces /\ c \notin {";", "(", ")", "'", DoubleQuote}
    BY <1>4 DEF HandlerFor
  <1> QED BY <1>1, <1>2, <1>3, <1>4

LEMMA HandlerForType == HandlerFor(CurrentCh) \in Handlers
BY DEF HandlerFor, Handlers, Scanned, Single

LEMMA InvDispatch == IInv /\ Dispatch => IInv'
PROOF
  <1> SUFFICES ASSUME IInv, Dispatch PROVE IInv'
    OBVIOUS
  <1>1. /\ handler = "call" /\ handler' = HandlerFor(CurrentCh)
        /\ buf' = <<>> /\ moved' = FALSE /\ start' = <<line, col>> /\ end' = <<line, col>>
        /\ UNCHANGED <<source, current_pos, line, col, capacity, tokens>>
    BY DEF Dispatch
  <1>2. handler' \in Handlers /\ CurrentCh' = CurrentCh /\ Consumed' = Consumed
    BY <1>1, HandlerForType DEF CurrentCh, Consumed
  <1>3. Consumed = current_pos /\ current_pos \in Nat
    BY <1>1, ConsumedBound DEF IInv, Reading
  <1>4. Typed'
    <2>1. buf' \in Seq(Char)
      BY <1>1
    <2>3. moved' \in BOOLEAN
      BY <1>1
    <2>2. start' \in Nat \X Nat /\ end' \in Nat \X Nat
      BY <1>1 DEF IInv, Typed
    <2> QED BY <1>1, <1>2, <2>1, <2>2, <2>3 DEF IInv, Typed
  <1>5. Reading'
    <2>1. buf' = SubSeq(source', Consumed' + 1, current_pos')
      BY <1>1, <1>2, <1>3, SubSeqEmpty
    <2>2. IsPlace(start, Consumed)'
      <3>1. IsPlace(<<line, col>>, current_pos)
        BY DEF IInv, PlacesRight
      <3> QED BY <1>1, <1>2, <1>3, <3>1 DEF IsPlace
    <2>3. Len(buf') = current_pos' - Consumed'
      BY <1>1, <1>2, <1>3
    <2>4. handler' \notin {"idle", "call"}
      BY <1>2 DEF Handlers, Scanned, Single
    <2> QED BY <1>1, <2>1, <2>2, <2>3, <2>4 DEF Reading
  <1>6. Chosen'
    BY <1>1, <1>2 DEF Chosen
  <1>7. BufferFits'
    BY <1>1 DEF IInv, Typed, BufferFits
  <1>8. PlacesRight' /\ TokensTile'
    <2>1. UNCHANGED <<source, current_pos, line, col, tokens>>
      BY <1>1
    <2> QED BY <2>1, PlacesKept, TilingKept DEF IInv
  <1> QED BY <1>4, <1>5, <1>6, <1>7, <1>8 DEF IInv

LEMMA InvScan == IInv /\ Scan => IInv'
PROOF
  <1> SUFFICES ASSUME IInv, Scan PROVE IInv'
    OBVIOUS
  <1>1. /\ handler \in Scanned /\ Continues /\ BufferAppend(CurrentCh) /\ end' = <<line, col>> /\ Advance
        /\ UNCHANGED <<source, handler, start, tokens>>
    BY DEF Scan
  <1>2. handler \in Handlers /\ handler \notin {"idle", "call"}
    BY <1>1 DEF Handlers, Scanned
  <1>3. CurrentCh # Nul
    <2>1. Nul \notin Spaces
      BY DEF Nul, Spaces, Newline
    <2> QED BY <1>1, <2>1 DEF Continues, Scanned
  <1>4. IsPlace(<<line, col>>, current_pos)
    BY DEF IInv, PlacesRight
  <1>5. /\ current_pos' \in 0 .. Len(source) /\ line' \in Nat \ {0} /\ col' \in Nat \ {0}
        /\ IsPlace(<<line, col>>, current_pos)'
        /\ current_pos' = current_pos + 1 /\ current_pos < Len(source)
        /\ CurrentCh = source[current_pos + 1]
    BY <1>1, <1>3, <1>4, Advanced DEF IInv
  <1>6. /\ buf' \in Seq(Char) /\ Len(buf') = Len(buf) + 1
        /\ \A i \in 1 .. Len(buf) : buf'[i] = buf[i]
        /\ buf'[Len(buf) + 1] = CurrentCh
        /\ capacity' \in Nat /\ capacity' >= LexemeCapacity
        /\ moved' \in BOOLEAN /\ (moved' => Len(buf') >= LexemeCapacity)
        /\ BufferFits'
    BY <1>1, <1>2, Appended
  <1>7. /\ Consumed' = Consumed /\ Consumed \in Nat /\ Consumed <= current_pos /\ current_pos \in Nat
        /\ source \in Seq(Char) /\ Len(source) \in Nat
    BY <1>1, ConsumedBound, SourceChars DEF IInv, Consumed, Typed
  <1>8. Typed'
    <2>1. \A i \in DOMAIN tokens' : tokens'[i].upto \in 0 .. current_pos'
      <3> SUFFICES ASSUME NEW i \in DOMAIN tokens PROVE tokens[i].upto \in 0 .. current_pos + 1
        BY <1>1, <1>5
      <3>1. tokens[i].upto \in 0 .. current_pos
        BY DEF IInv, Typed
      <3> QED BY <1>7, <3>1
    <2>2. end' \in Nat \X Nat
      BY <1>1 DEF IInv, Typed
    <2> QED BY <1>1, <1>5, <1>6, <2>1, <2>2 DEF IInv, Typed
  <1>9. Reading'
    <2>1. Len(buf) = current_pos - Consumed /\ buf = SubSeq(source, Consumed + 1, current_pos)
      BY <1>2 DEF IInv, Reading
    <2>2. Len(buf') = current_pos' - Consumed'
      BY <1>5, <1>6, <1>7, <2>1
    <2>3. buf' = SubSeq(source, Consumed + 1, current_pos + 1)
      <3> DEFINE t == SubSeq(source, Consumed + 1, current_pos + 1)
      <3>1. \A i \in Consumed + 1 .. current_pos + 1 : source[i] \in Char
        BY <1>5, <1>7
      <3>2. /\ t \in Seq(Char) /\ Len(t) = current_pos + 1 - Consumed
            /\ \A i \in 1 .. current_pos + 1 - Consumed : t[i] = source[Consumed + i]
        <4>1. /\ t \in Seq(Char)
              /\ Len(t) = IF Consumed + 1 <= current_pos + 1
                            THEN (current_pos + 1) - (Consumed + 1) + 1 ELSE 0
              /\ \A i \in 1 .. (current_pos + 1) - (Consumed + 1) + 1 : t[i] = source[(Consumed + 1) + i - 1]
          BY <1>7, <3>1, SubSeqProperties
        <4>2. (current_pos + 1) - (Consumed + 1) + 1 = current_pos + 1 - Consumed
          BY <1>7
        <4>3. \A i \in Int : (Consumed + 1) + i - 1 = Consumed + i
          BY <1>7
        <4> HIDE DEF t
        <4> QED BY <1>7, <4>1, <4>2, <4>3
      <3>3. \A i \in Consumed + 1 .. current_pos : source[i] \in Char
        BY <1>5, <1>7
      <3>4. \A i \in 1 .. current_pos - Consumed : buf[i] = source[Consumed + i]
        <4>1. \A i \in 1 .. current_pos - (Consumed + 1) + 1 : buf[i] = source[(Consumed + 1) + i - 1]
          BY <1>7, <2>1, <3>3, SubSeqProperties
        <4>2. current_pos - (Consumed + 1) + 1 = current_pos - Consumed
          BY <1>7
        <4>3. \A i \in Int : (Consumed + 1) + i - 1 = Consumed + i
          BY <1>7
        <4> QED BY <4>1, <4>2, <4>3
      <3> HIDE DEF t
      <3>5. Len(buf') = current_pos + 1 - Consumed
        BY <1>5, <1>7, <2>2
      <3>6. \A i \in 1 .. current_pos + 1 - Consumed : buf'[i] = t[i]
        <4> SUFFICES ASSUME NEW i \in 1 .. current_pos + 1 - Consumed PROVE buf'[i] = t[i]
          OBVIOUS
        <4>1. CASE i \in 1 .. current_pos - Consumed
          BY <1>6, <1>7, <2>1, <3>2, <3>4, <4>1
        <4>2. CASE i \notin 1 .. current_pos - Consumed
          <5>1. i = Len(buf) + 1 /\ Consumed + i = current_pos + 1
            BY <1>7, <2>1, <4>2
          <5> QED BY <1>5, <1>6, <3>2, <5>1
        <4> QED BY <4>1, <4>2
      <3>7. buf' = t
        BY <1>6, <3>2, <3>5, <3>6, SeqEqual
      <3> QED BY <3>7 DEF t
    <2>4. IsPlace(start, Consumed)'
      <3>1. IsPlace(start, Consumed)
        BY <1>2 DEF IInv, Reading
      <3> QED BY <1>1, <1>7, <3>1 DEF IsPlace
    <2>5. buf' = SubSeq(source', Consumed' + 1, current_pos')
      BY <1>1, <1>5, <1>7, <2>3
    <2> QED BY <1>1, <1>2, <1>6, <2>2, <2>4, <2>5 DEF Reading
  <1>10. Chosen'
    <2>1. buf' # <<>>
      <3>1. Len(buf) \in Nat
        BY DEF IInv, Typed
      <3>2. Len(buf') # 0
        BY <1>6, <3>1
      <3> QED BY <1>6, <3>2
    <2> QED BY <1>1, <2>1 DEF Chosen
  <1>11. PlacesRight' /\ TokensTile'
    <2>1. TokensTile'
      BY <1>1, TilingKept DEF IInv
    <2>2. \A i \in DOMAIN tokens' : IsPlace(tokens[i].start, Before(i))'
      <3> SUFFICES ASSUME NEW i \in DOMAIN tokens PROVE IsPlace(tokens[i].start, Before(i))'
        BY <1>1
      <3>1. IsPlace(tokens[i].start, Before(i))
        BY DEF IInv, PlacesRight
      <3>2. Before(i)' = Before(i) /\ tokens' = tokens /\ source' = source
        BY <1>1 DEF Before
      <3> QED BY <3>1, <3>2 DEF IsPlace
    <2> QED BY <1>5, <2>1, <2>2 DEF PlacesRight
  <1> QED BY <1>6, <1>8, <1>9, <1>10, <1>11 DEF IInv

\* A handler whose loop has ended has read something, and its lexeme is what it
\* read unless the buffer has moved, for which it had to be full.
LEMMA Read ==
  ASSUME IInv, handler \in Scanned, ~Continues
  PROVE  /\ current_pos > Consumed
         /\ Lexeme \in Text
         /\ \/ Lexeme = SubSeq(source, Consumed + 1, current_pos)
            \/ Lexeme = Garbage /\ current_pos - Consumed + 1 >= LexemeCapacity
PROOF
  <1>1. handler \in Handlers
    BY DEF Handlers
  <1>2. /\ Len(buf) = current_pos - Consumed
        /\ buf = SubSeq(source, Consumed + 1, current_pos)
        /\ moved => Len(buf) >= LexemeCapacity
    BY <1>1 DEF IInv, Reading
  <1>3. Consumed \in Nat /\ Consumed <= current_pos /\ current_pos \in Nat /\ LexemeCapacity \in Nat
    BY ConsumedBound, SourceChars, CapacityType DEF IInv, Typed
  <1>4. buf # <<>>
    <2> SUFFICES ASSUME buf = <<>> PROVE FALSE
      OBVIOUS
    <2>1. handler = HandlerFor(CurrentCh)
      BY <1>1 DEF IInv, Chosen
    <2>2. ~EndsWith(Newline) /\ Len(buf) = 0
      BY DEF EndsWith
    <2>3. CASE handler = "TOKEN_WHITESPACE"
      BY <2>1, <2>3, HandlerGuards DEF Continues
    <2>4. CASE handler = "TOKEN_COMMENT"
      <3>1. CurrentCh # Nul
        BY <2>1, <2>4, HandlerGuards
      <3> QED BY <2>2, <2>4, <3>1 DEF Continues
    <2>5. CASE handler = "TOKEN_STRING"
      <3>1. CurrentCh # Nul
        BY <2>1, <2>5, HandlerGuards
      <3> QED BY <2>2, <2>5, <3>1 DEF Continues
    <2>6. CASE handler = "TOKEN_SYMBOL"
      BY <2>1, <2>6, HandlerGuards DEF Continues
    <2> QED BY <2>3, <2>4, <2>5, <2>6 DEF Scanned
  <1>5. current_pos > Consumed
    <2>1. Len(buf) # 0
      BY <1>4 DEF IInv, Typed
    <2> QED BY <1>2, <1>3, <2>1
  <1>6. buf \in Seq(Char)
    BY DEF IInv, Typed
  <1>7. CASE moved
    <2>1. Lexeme = Garbage
      BY <1>7 DEF Lexeme
    <2>2. current_pos - Consumed + 1 >= LexemeCapacity
      BY <1>2, <1>3, <1>7
    <2> QED BY <1>5, <2>1, <2>2 DEF Text
  <1>8. CASE ~moved
    <2>1. Lexeme = buf
      BY <1>8 DEF Lexeme
    <2> QED BY <1>2, <1>5, <1>6, <2>1 DEF Text
  <1> QED BY <1>7, <1>8

\* What is left to show when a handler returns a token.
LEMMA ReturnKeeps ==
  ASSUME IInv, handler' = "idle", source' = source, start' = start,
         tokens' \in Seq(Token), \A i \in DOMAIN tokens' : tokens'[i].upto \in 0 .. current_pos',
         Consumed' = current_pos', TokensTile',
         \A i \in DOMAIN tokens' : IsPlace(tokens[i].start, Before(i))',
         current_pos' \in 0 .. Len(source), line' \in Nat \ {0}, col' \in Nat \ {0},
         IsPlace(<<line, col>>, current_pos)',
         buf' \in Seq(Char), capacity' \in Nat, capacity' >= LexemeCapacity, moved' \in BOOLEAN,
         end' \in Nat \X Nat, BufferFits'
  PROVE  IInv'
PROOF
  <1>1. Typed'
    BY DEF IInv, Typed
  <1>2. handler' \notin Handlers
    BY DEF Handlers, Scanned, Single
  <1>3. Reading' /\ Chosen'
    BY <1>2 DEF Reading, Chosen
  <1>4. PlacesRight'
    BY DEF PlacesRight
  <1> QED BY <1>1, <1>3, <1>4 DEF IInv

\* The scanning handlers return without reading further.
LEMMA ScannedReturned ==
  ASSUME IInv, handler \in Scanned, ~Continues,
         NEW type \in TokenTypes, NEW lexeme \in Text,
         UNCHANGED <<source, current_pos, line, col, buf, capacity, moved, start, end>>,
         handler' = "idle",
         tokens' = Append(tokens, [type |-> type, lexeme |-> lexeme, start |-> start, end |-> end,
                                   upto |-> current_pos]),
         type = "TOKEN_ERROR" \/ lexeme = Lexeme
  PROVE  IInv'
PROOF
  <1> DEFINE t == [type |-> type, lexeme |-> lexeme, start |-> start, end |-> end, upto |-> current_pos]
  <1>1. Len(source) \in Nat
    BY SourceChars DEF IInv
  <1>2. current_pos \in Nat /\ current_pos' = current_pos /\ current_pos' \in current_pos .. Len(source)
    BY <1>1 DEF IInv, Typed
  <1>3. t \in Token
    BY <1>2 DEF IInv, Typed, Token
  <1>4. IsPlace(t.start, Consumed)
    BY DEF IInv, Reading, Handlers
  <1>5. current_pos > Consumed
        /\ (\/ Lexeme = SubSeq(source, Consumed + 1, current_pos)
            \/ Lexeme = Garbage /\ current_pos - Consumed + 1 >= LexemeCapacity)
    BY Read
  <1>6. /\ t.type = type /\ t.lexeme = lexeme /\ t.upto = current_pos'
        /\ current_pos' > Consumed
        /\ \/ type = "TOKEN_ERROR"
           \/ lexeme = SubSeq(source, Consumed + 1, current_pos')
           \/ lexeme = Garbage /\ current_pos' - Consumed + 1 >= LexemeCapacity
    BY <1>2, <1>5
  <1>7. tokens' = Append(tokens, t)
    OBVIOUS
  <1> HIDE DEF t
  <1>8. /\ tokens' \in Seq(Token)
        /\ \A i \in DOMAIN tokens' : tokens'[i].upto \in 0 .. current_pos'
        /\ Consumed' = current_pos'
        /\ TokensTile'
        /\ \A i \in DOMAIN tokens' : IsPlace(tokens[i].start, Before(i))'
    BY <1>2, <1>3, <1>4, <1>6, <1>7, TokenAppended
  <1>9. IsPlace(<<line, col>>, current_pos)'
    BY DEF IInv, PlacesRight, IsPlace
  <1>10. BufferFits'
    BY DEF IInv, BufferFits
  <1>11. /\ current_pos' \in 0 .. Len(source) /\ line' \in Nat \ {0} /\ col' \in Nat \ {0}
         /\ buf' \in Seq(Char) /\ capacity' \in Nat /\ capacity' >= LexemeCapacity
         /\ end' \in Nat \X Nat
    BY DEF IInv, Typed
  <1>12. moved' \in BOOLEAN
    BY DEF IInv, Typed
  <1> QED BY <1>8, <1>9, <1>10, <1>11, <1>12, ReturnKeeps

LEMMA InvFinishScan == IInv /\ FinishScan => IInv'
PROOF
  <1> SUFFICES ASSUME IInv, FinishScan PROVE IInv'
    OBVIOUS
  <1>1. /\ handler \in Scanned \ {"TOKEN_SYMBOL"} /\ ~Continues
        /\ UNCHANGED <<current_pos, line, col, buf, capacity, moved, end>>
        /\ \/ Returns("TOKEN_ERROR", <<"Unterminated string literal">>, end)
           \/ Returns(handler, Lexeme, end)
    BY DEF FinishScan
  <1>2. Lexeme \in Text /\ handler \in TokenTypes /\ "TOKEN_ERROR" \in TokenTypes
    BY <1>1, Read DEF TokenTypes, Handlers
  <1>3. CASE Returns("TOKEN_ERROR", <<"Unterminated string literal">>, end)
    <2>1. <<"Unterminated string literal">> \in Text
      BY DEF Text
    <2> QED BY <1>1, <1>2, <1>3, <2>1, ScannedReturned DEF Returns
  <1>4. CASE Returns(handler, Lexeme, end)
    BY <1>1, <1>2, <1>4, ScannedReturned DEF Returns
  <1> QED BY <1>1, <1>3, <1>4

LEMMA InvFinishSymbol == IInv /\ FinishSymbol => IInv'
PROOF
  <1> SUFFICES ASSUME IInv, FinishSymbol PROVE IInv'
    OBVIOUS
  <1>1. /\ handler = "TOKEN_SYMBOL" /\ handler \in Scanned /\ ~Continues
        /\ UNCHANGED <<current_pos, line, col, buf, capacity, moved, end>>
    BY DEF FinishSymbol, Scanned
  <1>2. PICK type \in {"TOKEN_NUMBER", "TOKEN_SYMBOL"} : Returns(type, Lexeme, end)
    BY DEF FinishSymbol
  <1>3. Lexeme \in Text /\ type \in TokenTypes
    BY <1>1, Read DEF TokenTypes, Handlers, Scanned
  <1> QED BY <1>1, <1>2, <1>3, ScannedReturned DEF Returns

LEMMA OneChar ==
  ASSUME NEW S, NEW s \in Seq(S), NEW k \in 1 .. Len(s)
  PROVE  SubSeq(s, k, k) = <<s[k]>>
PROOF
  <1>1. s[k] \in S /\ k \in Int /\ Len(s) \in Nat
    OBVIOUS
  <1>2. \A i \in k .. k : s[i] \in S
    BY <1>1
  <1>3. /\ SubSeq(s, k, k) \in Seq(S)
        /\ Len(SubSeq(s, k, k)) = IF k <= k THEN k - k + 1 ELSE 0
        /\ \A i \in 1 .. k - k + 1 : SubSeq(s, k, k)[i] = s[k + i - 1]
    BY <1>1, <1>2, SubSeqProperties
  <1>4. Len(SubSeq(s, k, k)) = 1 /\ SubSeq(s, k, k)[1] = s[k]
    <2>1. k - k + 1 = 1 /\ k + 1 - 1 = k
      BY <1>1
    <2> QED BY <1>3, <2>1
  <1>5. <<s[k]>> \in Seq(S) /\ Len(<<s[k]>>) = 1 /\ <<s[k]>>[1] = s[k]
    BY <1>1
  <1>6. Len(SubSeq(s, k, k)) = Len(<<s[k]>>)
    BY <1>4, <1>5
  <1>7. \A i \in 1 .. Len(SubSeq(s, k, k)) : SubSeq(s, k, k)[i] = <<s[k]>>[i]
    BY <1>4, <1>5
  <1>8. SubSeq(s, k, k) \in Seq(S) /\ <<s[k]>> \in Seq(S)
    BY <1>3, <1>5
  <1> QED BY ONLY <1>6, <1>7, <1>8, SeqEqual

LEMMA InvSingleChar == IInv /\ SingleChar => IInv'
PROOF
  <1> SUFFICES ASSUME IInv, SingleChar PROVE IInv'
    OBVIOUS
  <1> DEFINE text == IF handler = "TOKEN_EOF" THEN <<>> ELSE <<CurrentCh>>
             t == [type |-> handler, lexeme |-> text, start |-> start, end |-> end', upto |-> current_pos']
  <1>1. /\ handler \in Single /\ BufferAppend(CurrentCh) /\ Advance /\ end' = <<line', col'>>
        /\ tokens' = Append(tokens, t) /\ handler' = "idle" /\ UNCHANGED <<source, start>>
    BY DEF SingleChar, Returns
  <1>2. handler \in Handlers /\ handler \notin Scanned /\ handler \in TokenTypes
    BY <1>1 DEF Handlers, Single, Scanned, TokenTypes
  <1>3. buf = <<>> /\ handler = HandlerFor(CurrentCh) /\ current_pos = Consumed
    <2>1. buf = <<>>
      BY <1>2 DEF IInv, Chosen
    <2>2. Len(buf) = current_pos - Consumed /\ Len(buf) = 0
      BY <1>2, <2>1 DEF IInv, Reading
    <2>3. current_pos \in Nat /\ Consumed \in Nat
      BY ConsumedBound, SourceChars DEF IInv, Typed
    <2> QED BY <1>2, <2>1, <2>2, <2>3 DEF IInv, Chosen
  <1>4. handler = "TOKEN_EOF" <=> CurrentCh = Nul
    BY <1>3, HandlerGuards
  <1>5. /\ current_pos' \in 0 .. Len(source) /\ line' \in Nat \ {0} /\ col' \in Nat \ {0}
        /\ IsPlace(<<line, col>>, current_pos)'
        /\ IF CurrentCh = Nul
             THEN current_pos' = current_pos /\ current_pos = Len(source)
             ELSE /\ current_pos' = current_pos + 1
                  /\ current_pos < Len(source)
                  /\ CurrentCh = source[current_pos + 1]
    BY <1>1, Advanced DEF IInv, PlacesRight
  <1>6. /\ buf' \in Seq(Char) /\ capacity' \in Nat /\ capacity' >= LexemeCapacity
        /\ moved' \in BOOLEAN /\ BufferFits'
    BY <1>1, <1>2, Appended
  <1>7. /\ current_pos \in Nat /\ Len(source) \in Nat /\ source \in Seq(Char)
        /\ current_pos' \in current_pos .. Len(source)
    BY <1>5, SourceChars DEF IInv, Typed
  <1>8. end' \in Nat \X Nat
    BY <1>1, <1>5
  <1>9. text \in Seq(Char) /\ text = SubSeq(source, Consumed + 1, current_pos')
    <2>1. CASE CurrentCh = Nul
      <3>1. text = <<>> /\ <<>> \in Seq(Char)
        BY <1>4, <2>1
      <3>2. SubSeq(source, Consumed + 1, current_pos') = <<>>
        BY <1>3, <1>5, <1>7, <2>1, SubSeqEmpty
      <3> HIDE DEF text
      <3> QED BY <3>1, <3>2
    <2>2. CASE CurrentCh # Nul
      <3> DEFINE c == source[current_pos + 1]
      <3>1. text = <<c>> /\ c \in Char
        BY <1>4, <1>5, <1>7, <2>2
      <3>2. SubSeq(source, current_pos + 1, current_pos + 1) = <<c>>
        <4>1. current_pos + 1 \in 1 .. Len(source)
          BY <1>5, <1>7, <2>2
        <4> QED BY <1>7, <4>1, OneChar
      <3>3. <<c>> \in Seq(Char)
        BY <3>1
      <3> HIDE DEF text, c
      <3> QED BY <1>3, <1>5, <2>2, <3>1, <3>2, <3>3
    <2> QED BY <2>1, <2>2
  <1>10. t \in Token /\ t.upto = current_pos' /\ t.lexeme = text /\ t.type = handler /\ t.start = start
    <2>1. current_pos' \in Nat /\ start \in Nat \X Nat
      BY <1>7 DEF IInv, Typed
    <2>2. text \in Text
      BY <1>9 DEF Text
    <2> HIDE DEF text
    <2> QED BY <1>2, <1>8, <2>1, <2>2 DEF Token
  <1>11. IsPlace(t.start, Consumed)
    BY <1>2 DEF IInv, Reading
  <1>12. current_pos' > Consumed \/ (t.type = "TOKEN_EOF" /\ current_pos' = Len(source))
    BY <1>3, <1>4, <1>5, <1>7
  <1> HIDE DEF t, text
  <1>13. /\ tokens' \in Seq(Token)
         /\ \A i \in DOMAIN tokens' : tokens'[i].upto \in 0 .. current_pos'
         /\ Consumed' = current_pos'
         /\ TokensTile'
         /\ \A i \in DOMAIN tokens' : IsPlace(tokens[i].start, Before(i))'
    BY <1>1, <1>7, <1>9, <1>10, <1>11, <1>12, TokenAppended
  <1> QED BY <1>1, <1>5, <1>6, <1>8, <1>13, ReturnKeeps

LEMMA InvIllegalChar == IInv /\ IllegalChar => IInv'
PROOF
  <1> SUFFICES ASSUME IInv, IllegalChar PROVE IInv'
    OBVIOUS
  <1> DEFINE text == <<"Illegal character">>
             t == [type |-> "TOKEN_ERROR", lexeme |-> text, start |-> start, end |-> end,
                   upto |-> current_pos']
  <1>1. /\ handler = "TOKEN_ERROR" /\ BufferAppend(CurrentCh) /\ Advance /\ end' = end
        /\ tokens' = Append(tokens, t) /\ handler' = "idle" /\ UNCHANGED <<source, start>>
    BY DEF IllegalChar, Returns
  <1>2. handler \in Handlers /\ handler \notin Scanned /\ "TOKEN_ERROR" \in TokenTypes
    BY <1>1 DEF Handlers, Scanned, TokenTypes
  <1>3. handler = HandlerFor(CurrentCh) /\ current_pos = Consumed
    <2>1. buf = <<>>
      BY <1>2 DEF IInv, Chosen
    <2>2. Len(buf) = current_pos - Consumed /\ Len(buf) = 0
      BY <1>2, <2>1 DEF IInv, Reading
    <2>3. current_pos \in Nat /\ Consumed \in Nat
      BY ConsumedBound, SourceChars DEF IInv, Typed
    <2> QED BY <1>2, <2>1, <2>2, <2>3 DEF IInv, Chosen
  <1>4. CurrentCh # Nul
    BY <1>1, <1>3, HandlerGuards
  <1>5. /\ current_pos' \in 0 .. Len(source) /\ line' \in Nat \ {0} /\ col' \in Nat \ {0}
        /\ IsPlace(<<line, col>>, current_pos)'
        /\ current_pos' = current_pos + 1
    BY <1>1, <1>4, Advanced DEF IInv, PlacesRight
  <1>6. /\ buf' \in Seq(Char) /\ capacity' \in Nat /\ capacity' >= LexemeCapacity
        /\ moved' \in BOOLEAN /\ BufferFits'
    BY <1>1, <1>2, Appended
  <1>7. /\ current_pos \in Nat /\ Len(source) \in Nat
        /\ current_pos' \in current_pos .. Len(source)
        /\ start \in Nat \X Nat /\ end \in Nat \X Nat
    BY <1>5, SourceChars DEF IInv, Typed
  <1>8. t \in Token /\ t.upto = current_pos' /\ t.type = "TOKEN_ERROR" /\ t.start = start
    <2>1. current_pos' \in Nat
      BY <1>7
    <2>2. text \in Text
      BY DEF Text
    <2> HIDE DEF text
    <2> QED BY <1>2, <1>7, <2>1, <2>2 DEF Token
  <1>9. IsPlace(t.start, Consumed)
    BY <1>2 DEF IInv, Reading
  <1>10. current_pos' > Consumed
    BY <1>3, <1>5, <1>7
  <1> HIDE DEF t, text
  <1>11. /\ tokens' \in Seq(Token)
         /\ \A i \in DOMAIN tokens' : tokens'[i].upto \in 0 .. current_pos'
         /\ Consumed' = current_pos'
         /\ TokensTile'
         /\ \A i \in DOMAIN tokens' : IsPlace(tokens[i].start, Before(i))'
    BY <1>1, <1>7, <1>8, <1>9, <1>10, TokenAppended
  <1> QED BY <1>1, <1>5, <1>6, <1>7, <1>11, ReturnKeeps

LEMMA InvStutter == IInv /\ UNCHANGED lexer => IInv'
PROOF
  <1> SUFFICES ASSUME IInv, UNCHANGED lexer PROVE IInv'
    OBVIOUS
  <1>1. UNCHANGED <<source, current_pos, line, col, buf, capacity, moved, handler, start, end, tokens>>
    BY DEF lexer
  <1>2. Typed'
    BY <1>1 DEF IInv, Typed
  <1>3. Reading' /\ Chosen' /\ BufferFits'
    BY <1>1 DEF IInv, Reading, Chosen, BufferFits, Consumed, IsPlace, CurrentCh
  <1> QED BY <1>1, <1>2, <1>3, PlacesKept, TilingKept DEF IInv

LEMMA InvNext == IInv /\ [LexerCall \/ LexerStep]_lexer => IInv'
BY InvCall, InvDispatch, InvScan, InvFinishScan, InvFinishSymbol, InvSingleChar, InvIllegalChar, InvStutter
   DEF LexerStep

-----------------------------------------------------------------------------
(* Theorems *)

LEMMA InvImpliesTypes == IInv => LexerTypeOK
PROOF
  <1> SUFFICES ASSUME IInv PROVE LexerTypeOK
    OBVIOUS
  <1>1. \A i \in DOMAIN tokens : tokens[i].type \in TokenTypes /\ tokens[i].upto \in 0 .. current_pos
    <2> SUFFICES ASSUME NEW i \in DOMAIN tokens
                 PROVE  tokens[i].type \in TokenTypes /\ tokens[i].upto \in 0 .. current_pos
      OBVIOUS
    <2>1. tokens[i] \in Token
      BY DEF IInv, Typed
    <2> QED BY <2>1 DEF IInv, Typed, Token
  <1>2. capacity \in Nat \ {0}
    BY CapacityType DEF IInv, Typed
  <1> QED BY <1>1, <1>2 DEF IInv, Typed, LexerTypeOK, TokenTypes

\* The invariant is inductive.
THEOREM LexerInvariant == LexerSpec => []IInv
PROOF
  <1> QED BY InvInit, InvNext, PTL DEF LexerSpec

\* Every variable of the lexer keeps its type, the text is never passed, and no
\* token ends beyond what was read.
THEOREM LexerTypeCorrect == LexerSpec => []LexerTypeOK
BY LexerInvariant, InvImpliesTypes, PTL

\* buffer_append never writes beyond its block, for any text and initial capacity.
THEOREM LexemeBufferFits == LexerSpec => []BufferFits
PROOF
  <1>1. IInv => BufferFits
    BY DEF IInv
  <1> QED BY <1>1, LexerInvariant, PTL

\* Line and column count the newlines and characters before every token.
THEOREM TokenPlaces == LexerSpec => []PlacesRight
PROOF
  <1>1. IInv => PlacesRight
    BY DEF IInv
  <1> QED BY <1>1, LexerInvariant, PTL

\* The tokens of any text tile it, and each holds its own text unless a lexeme
\* that fills the initial buffer has moved it.
THEOREM TokensTileSource == LexerSpec => []TokensTile
PROOF
  <1>1. IInv => TokensTile
    BY DEF IInv
  <1> QED BY <1>1, LexerInvariant, PTL

-----------------------------------------------------------------------------
(* Tokens are maximal *)

\* The character after the first n of the text.
NextAfter(n) == IF n < Len(source) THEN source[n + 1] ELSE Nul

\* What each handler has let into the buffer.
Shaped ==
  /\ handler = "TOKEN_WHITESPACE" => CharsOf(buf) \subseteq Spaces
  /\ handler = "TOKEN_COMMENT" =>
       (buf # <<>> => buf[1] = ";") /\ \A i \in 1 .. Len(buf) - 1 : buf[i] # Newline
  /\ handler = "TOKEN_STRING" =>
       (buf # <<>> => buf[1] = DoubleQuote) /\ \A i \in 2 .. Len(buf) - 1 : buf[i] # DoubleQuote
  /\ handler = "TOKEN_SYMBOL" => CharsOf(buf) \subseteq SymbolChars \ {Nul}

LEMMA NumeralsHaveDigits ==
  ASSUME NEW s \in Seq(Char), Numeral(s)
  PROVE  CharsOf(s) \cap Digits # {}
PROOF
  <1> DEFINE u == Unsigned(s)
  <1>1. Len(s) \in Nat /\ DOMAIN s = 1 .. Len(s)
    OBVIOUS
  <1>2. u \in Seq(Char) /\ CharsOf(u) \subseteq CharsOf(s)
    <2>1. CASE s # <<>> /\ s[1] \in {"+", "-"}
      <3>1. u = SubSeq(s, 2, Len(s))
        BY <2>1 DEF Unsigned, From
      <3>2. \A i \in 2 .. Len(s) : s[i] \in Char
        <4>1. \A i \in 2 .. Len(s) : i \in 1 .. Len(s)
          BY <1>1
        <4> QED BY <4>1, ElementOfSeq
      <3>3. /\ SubSeq(s, 2, Len(s)) \in Seq(Char)
            /\ Len(SubSeq(s, 2, Len(s))) = IF 2 <= Len(s) THEN Len(s) - 2 + 1 ELSE 0
            /\ \A i \in 1 .. Len(s) - 2 + 1 : SubSeq(s, 2, Len(s))[i] = s[2 + i - 1]
        BY <1>1, <3>2, SubSeqProperties
      <3> HIDE DEF u
      <3>4. u \in Seq(Char) /\ Len(u) = Len(s) - 1 /\ \A i \in 1 .. Len(s) - 1 : u[i] = s[i + 1]
        <4>1. Len(s) # 0
          BY <2>1
        <4>2. Len(u) = Len(s) - 1
          BY <1>1, <3>1, <3>3, <4>1
        <4>3. \A i \in 1 .. Len(s) - 1 : 2 + i - 1 = i + 1 /\ i \in 1 .. Len(s) - 2 + 1
          BY <1>1
        <4> QED BY <3>1, <3>3, <4>2, <4>3
      <3>5. DOMAIN u = 1 .. Len(s) - 1
        BY <3>4
      <3>6. \A i \in DOMAIN u : u[i] = s[i + 1] /\ i + 1 \in DOMAIN s
        BY <1>1, <3>4, <3>5
      <3> QED BY <3>4, <3>6 DEF CharsOf
    <2>2. CASE ~(s # <<>> /\ s[1] \in {"+", "-"})
      BY <2>2 DEF Unsigned
    <2> QED BY <2>1, <2>2
  <1> HIDE DEF u
  <1>3. CASE Float(u, Digits, {"e", "E"})
    <2>1. PICK m \in 1 .. Len(u) : CharsOf(SubSeq(u, 1, m)) \cap Digits # {}
      BY <1>3 DEF Float
    <2>2. Len(u) \in Nat /\ DOMAIN u = 1 .. Len(u) /\ m \in Int
      BY <1>2
    <2>3. \A i \in 1 .. m : u[i] \in Char
      <3>1. \A i \in 1 .. m : i \in 1 .. Len(u)
        BY <2>2
      <3> QED BY <1>2, <3>1, ElementOfSeq
    <2>4. /\ SubSeq(u, 1, m) \in Seq(Char)
          /\ Len(SubSeq(u, 1, m)) = IF 1 <= m THEN m - 1 + 1 ELSE 0
          /\ \A i \in 1 .. m - 1 + 1 : SubSeq(u, 1, m)[i] = u[1 + i - 1]
      BY <2>2, <2>3, SubSeqProperties
    <2>5. DOMAIN SubSeq(u, 1, m) = 1 .. m /\ \A i \in 1 .. m : SubSeq(u, 1, m)[i] = u[i] /\ i \in DOMAIN u
      <3>1. m - 1 + 1 = m /\ 1 <= m
        BY <2>2
      <3>2. Len(SubSeq(u, 1, m)) = m
        BY <2>4, <3>1
      <3>3. \A i \in 1 .. m : 1 + i - 1 = i
        OBVIOUS
      <3> QED BY <2>2, <2>4, <3>1, <3>2, <3>3
    <2>6. CharsOf(SubSeq(u, 1, m)) \subseteq CharsOf(u)
      BY <2>5 DEF CharsOf
    <2> QED BY <1>2, <2>1, <2>6
  <1>4. CASE Hexadecimal(u)
    <2>1. Len(u) > 2 /\ u[1] = "0"
      BY <1>4 DEF Hexadecimal
    <2>2. 1 \in DOMAIN u
      BY <1>2, <2>1
    <2>3. "0" \in CharsOf(u)
      BY <2>1, <2>2 DEF CharsOf
    <2> QED BY <1>2, <2>3 DEF Digits
  <1> QED BY <1>3, <1>4 DEF Numeral, u

\* The letters of infinities and of what is not a number.
LEMMA NonFiniteLetters ==
  ASSUME NEW s, NonFinite(s), NEW k \in 1 .. Len(s)
  PROVE  s[k] \in {"i", "n", "f", "t", "y", "a", "I", "N", "F", "T", "Y", "A"}
PROOF
  <1> DEFINE Fits(w) == Len(s) = Len(w) /\ \A j \in 1 .. Len(w) : s[j] \in {w[j], Capital[w[j]]}
             Lower == {"i", "n", "f", "t", "y", "a"}
  <1>1. Fits(<<"i", "n", "f">>) \/ Fits(<<"n", "a", "n">>) \/ Fits(<<"i", "n", "f", "i", "n", "i", "t", "y">>)
    BY DEF NonFinite
  <1>2. ASSUME NEW w, Fits(w), w[k] \in Lower
        PROVE  s[k] \in {"i", "n", "f", "t", "y", "a", "I", "N", "F", "T", "Y", "A"}
    <2>1. s[k] \in {w[k], Capital[w[k]]}
      BY <1>2
    <2>2. Capital[w[k]] \in {"I", "N", "F", "T", "Y", "A"}
      BY <1>2 DEF Capital
    <2> QED BY <1>2, <2>1, <2>2
  <1>3. CASE Fits(<<"i", "n", "f">>)
    <2>1. k \in 1 .. 3
      BY <1>3
    <2>2. <<"i", "n", "f">>[k] \in Lower
      BY <2>1
    <2> QED BY <1>2, <1>3, <2>2
  <1>4. CASE Fits(<<"n", "a", "n">>)
    <2>1. k \in 1 .. 3
      BY <1>4
    <2>2. <<"n", "a", "n">>[k] \in Lower
      BY <2>1
    <2> QED BY <1>2, <1>4, <2>2
  <1>5. CASE Fits(<<"i", "n", "f", "i", "n", "i", "t", "y">>)
    <2>1. k \in 1 .. 8
      BY <1>5
    <2>2. <<"i", "n", "f", "i", "n", "i", "t", "y">>[k] \in Lower
      BY <2>1
    <2> QED BY <1>2, <1>5, <2>2
  <1> QED BY <1>1, <1>3, <1>4, <1>5

LEMMA NonFiniteHasNoDigit ==
  ASSUME NEW s \in Seq(Char), NonFinite(Unsigned(s))
  PROVE  CharsOf(s) \cap Digits = {}
PROOF
  <1> DEFINE u == Unsigned(s)
  <1>1. Len(s) \in Nat /\ DOMAIN s = 1 .. Len(s)
    OBVIOUS
  <1>2. \A k \in 1 .. Len(u) : u[k] \notin Digits
    BY NonFiniteLetters DEF Digits
  <1>3. CASE s # <<>> /\ s[1] \in {"+", "-"}
    <2>1. u = SubSeq(s, 2, Len(s))
      BY <1>3 DEF Unsigned, From
    <2>2. \A i \in 2 .. Len(s) : s[i] \in Char
      <3>1. \A i \in 2 .. Len(s) : i \in 1 .. Len(s)
        BY <1>1
      <3> QED BY <3>1, ElementOfSeq
    <2>3. /\ Len(u) = IF 2 <= Len(s) THEN Len(s) - 2 + 1 ELSE 0
          /\ \A i \in 1 .. Len(s) - 2 + 1 : u[i] = s[2 + i - 1]
      BY <1>1, <2>1, <2>2, SubSeqProperties
    <2> HIDE DEF u
    <2>4. \A i \in 2 .. Len(s) : s[i] \notin Digits
      <3> SUFFICES ASSUME NEW i \in 2 .. Len(s) PROVE s[i] \notin Digits
        OBVIOUS
      <3>0. 2 <= Len(s)
        BY <1>1
      <3>1. Len(u) = Len(s) - 2 + 1
        BY <2>3, <3>0, Zenon
      <3>2. i - 1 \in 1 .. Len(s) - 2 + 1 /\ 2 + (i - 1) - 1 = i
        BY <1>1
      <3>3. i - 1 \in 1 .. Len(u)
        BY <3>1, <3>2
      <3>4. u[i - 1] = s[i]
        BY <2>3, <3>2
      <3> QED BY <1>2, <3>3, <3>4
    <2>5. \A i \in DOMAIN s : i = 1 \/ i \in 2 .. Len(s)
      BY <1>1
    <2>6. s[1] \notin Digits
      BY <1>3 DEF Digits
    <2> QED BY <2>4, <2>5, <2>6 DEF CharsOf
  <1>4. CASE ~(s # <<>> /\ s[1] \in {"+", "-"})
    <2>1. u = s
      BY <1>4 DEF Unsigned
    <2> QED BY <1>1, <1>2, <2>1 DEF CharsOf
  <1> QED BY <1>3, <1>4

\* The tests for a digit and for bare signs leave just the numerals of what
\* strtod reads.
LEMMA NumbersAreNumerals ==
  ASSUME NEW s \in Seq(Char)
  PROVE  IsNumber(s) <=> Numeral(s)
PROOF
  <1>1. ASSUME IsNumber(s) PROVE Numeral(s)
    BY <1>1, NonFiniteHasNoDigit DEF IsNumber, StrtodReads
  <1>2. ASSUME Numeral(s) PROVE IsNumber(s)
    <2>1. CharsOf(s) \cap Digits # {}
      BY <1>2, NumeralsHaveDigits
    <2>2. CharsOf(<<"+">>) \cap Digits = {} /\ CharsOf(<<"-">>) \cap Digits = {}
      BY DEF CharsOf, Digits
    <2> QED BY <1>2, <2>1, <2>2 DEF IsNumber, StrtodReads
  <1> QED BY <1>1, <1>2

\* What the first character says of the token it begins.
LEMMA FirstChars ==
  ASSUME NEW c
  PROVE  /\ HandlerFor(c) = "TOKEN_COMMENT" => c = ";"
         /\ HandlerFor(c) = "TOKEN_STRING" => c = DoubleQuote
         /\ HandlerFor(c) = "TOKEN_LPAREN" => c = "("
         /\ HandlerFor(c) = "TOKEN_RPAREN" => c = ")"
         /\ HandlerFor(c) = "TOKEN_QUOTE" => c = "'"
         /\ HandlerFor(c) = "TOKEN_ERROR" => c \notin SymbolChars \cup Spaces \cup {";", "(", ")", "'", DoubleQuote}
PROOF
  <1>1. CASE c = Nul
    BY <1>1 DEF HandlerFor, Nul, Spaces, Newline, DoubleQuote
  <1>2. CASE c \in Spaces
    BY <1>2, LexerAssumption DEF HandlerFor, Nul, Spaces, Newline, DoubleQuote, SymbolChars, Digits
  <1>3. CASE c # Nul /\ c \notin Spaces /\ c \in {";", "(", ")", "'", DoubleQuote}
    BY <1>3, LexerAssumption DEF HandlerFor, Nul, DoubleQuote, SymbolChars, Digits
  <1>4. CASE c # Nul /\ c \notin Spaces /\ c \notin {";", "(", ")", "'", DoubleQuote}
    BY <1>4 DEF HandlerFor
  <1> QED BY <1>1, <1>2, <1>3, <1>4

\* Tokens returned earlier stay maximal, and the new one is when its text is of
\* its language and the next character is not.
LEMMA MaximalAppended ==
  ASSUME IInv, TokensMaximal, NEW t \in Token,
         tokens' = Append(tokens, t), source' = source, t.upto = current_pos',
         Language(t, SubSeq(source, Consumed + 1, current_pos'), NextAfter(current_pos'))
  PROVE  TokensMaximal'
PROOF
  <1>1. PICK n \in Nat : n = Len(tokens)
    BY DEF IInv, Typed
  <1>2. tokens \in Seq(Token) /\ DOMAIN tokens = 1 .. n
    BY <1>1 DEF IInv, Typed
  <1>3. /\ tokens' \in Seq(Token) /\ DOMAIN tokens' = 1 .. n + 1
        /\ \A i \in 1 .. n : tokens'[i] = tokens[i]
        /\ tokens'[n + 1] = t
    <2>1. /\ Append(tokens, t) \in Seq(Token) /\ Len(Append(tokens, t)) = n + 1
          /\ \A i \in 1 .. n : Append(tokens, t)[i] = tokens[i]
          /\ Append(tokens, t)[n + 1] = t
      BY <1>1, <1>2, AppendProperties
    <2> QED BY <2>1
  <1>4. \A i \in 1 .. n : Before(i)' = Before(i)
    BY <1>1, <1>3 DEF Before
  <1>5. Before(n + 1)' = Consumed
    <2>1. CASE tokens = <<>>
      BY <1>1, <2>1 DEF Before, Consumed
    <2>2. CASE tokens # <<>>
      <3>1. n # 0 /\ n + 1 # 1 /\ (n + 1) - 1 = n /\ n \in 1 .. n
        BY <1>1, <1>2, <2>2
      <3> QED BY <1>1, <1>3, <2>2, <3>1 DEF Before, Consumed
    <2> QED BY <2>1, <2>2
  <1> SUFFICES ASSUME NEW i \in 1 .. n + 1
               PROVE  Language(tokens'[i], Span(i)', NextAfter(tokens'[i].upto))
    BY <1>3 DEF TokensMaximal, NextAfter
  <1>6. CASE i \in 1 .. n
    <2>1. tokens'[i] = tokens[i] /\ Before(i)' = Before(i) /\ i \in DOMAIN tokens
      BY <1>2, <1>3, <1>4, <1>6
    <2>2. Span(i)' = Span(i)
      BY <2>1 DEF Span
    <2>3. Language(tokens[i], Span(i), NextAfter(tokens[i].upto))
      BY <2>1 DEF TokensMaximal, NextAfter
    <2> QED BY <2>1, <2>2, <2>3
  <1>7. CASE i = n + 1
    <2>1. tokens'[i] = t /\ Before(i)' = Consumed
      BY <1>3, <1>5, <1>7
    <2>2. Span(i)' = SubSeq(source, Consumed + 1, current_pos')
      BY <2>1 DEF Span
    <2> QED BY <2>1, <2>2
  <1> QED BY <1>1, <1>6, <1>7

LEMMA MaximalKept ==
  ASSUME TokensMaximal, UNCHANGED <<source, tokens>>
  PROVE  TokensMaximal'
BY DEF TokensMaximal, Before, Span

-----------------------------------------------------------------------------
(* What the loops let in *)

LEMMA ShapedScan ==
  ASSUME IInv, Shaped, Scan
  PROVE  Shaped'
PROOF
  <1>1. /\ handler \in Scanned /\ Continues /\ BufferAppend(CurrentCh) /\ handler' = handler
    BY DEF Scan
  <1>2. handler \in Handlers
    BY <1>1 DEF Handlers
  <1>0. Len(buf) \in Nat
    BY DEF IInv, Typed
  <1>3. buf \in Seq(Char) /\ Len(buf) \in Nat /\ DOMAIN buf = 1 .. Len(buf) /\ (buf = <<>> <=> Len(buf) = 0)
    BY DEF IInv, Typed
  <1>4. /\ buf' \in Seq(Char) /\ Len(buf') = Len(buf) + 1 /\ DOMAIN buf' = 1 .. Len(buf) + 1
        /\ \A i \in 1 .. Len(buf) : buf'[i] = buf[i]
        /\ buf'[Len(buf) + 1] = CurrentCh
    BY <1>1, <1>2, Appended
  <1>5. CharsOf(buf') \subseteq CharsOf(buf) \cup {CurrentCh}
    <2>1. \A i \in 1 .. Len(buf) + 1 : i \in 1 .. Len(buf) \/ i = Len(buf) + 1
      BY <1>3
    <2> QED BY <1>3, <1>4, <2>1 DEF CharsOf
  <1>6. buf = <<>> => handler = HandlerFor(CurrentCh)
    BY <1>2 DEF IInv, Chosen
  <1>7. Len(buf') - 1 = Len(buf)
    BY <1>3, <1>4
  <1>8. CASE handler = "TOKEN_WHITESPACE"
    BY <1>1, <1>5, <1>8 DEF Continues, Shaped
  <1>9. CASE handler = "TOKEN_COMMENT"
    <2>1. buf'[1] = ";"
      <3>1. CASE buf = <<>>
        <4>1. Len(buf) + 1 = 1
          BY <3>1
        <4>2. buf'[1] = CurrentCh
          BY <1>4, <4>1
        <4> QED BY <1>6, <1>9, <3>1, <4>2, FirstChars
      <3>2. CASE buf # <<>>
        <4>1. 1 \in 1 .. Len(buf)
          BY <1>3, <3>2
        <4> QED BY <1>4, <1>9, <3>2, <4>1 DEF Shaped
      <3> QED BY <3>1, <3>2
    <2>2. ASSUME NEW i \in 1 .. Len(buf) PROVE buf'[i] # Newline
      <3>1. CASE i = Len(buf)
        <4>1. buf # <<>> /\ ~EndsWith(Newline)
          BY <1>1, <1>3, <1>9 DEF Continues
        <4> QED BY <1>4, <3>1, <4>1 DEF EndsWith
      <3>2. CASE i # Len(buf)
        <4>1. i \in 1 .. Len(buf) - 1
          BY <1>0, <3>2
        <4> QED BY <1>4, <1>9, <4>1 DEF Shaped
      <3> QED BY <3>1, <3>2
    <2> QED BY <1>1, <1>7, <1>9, <2>1, <2>2 DEF Shaped
  <1>10. CASE handler = "TOKEN_STRING"
    <2>1. buf'[1] = DoubleQuote
      <3>1. CASE buf = <<>>
        <4>1. Len(buf) + 1 = 1
          BY <3>1
        <4>2. buf'[1] = CurrentCh
          BY <1>4, <4>1
        <4> QED BY <1>6, <1>10, <3>1, <4>2, FirstChars
      <3>2. CASE buf # <<>>
        <4>1. 1 \in 1 .. Len(buf)
          BY <1>3, <3>2
        <4> QED BY <1>4, <1>10, <3>2, <4>1 DEF Shaped
      <3> QED BY <3>1, <3>2
    <2>2. ASSUME NEW i \in 2 .. Len(buf) PROVE buf'[i] # DoubleQuote
      <3>1. i \in 1 .. Len(buf) /\ Len(buf) > 1 /\ buf # <<>>
        BY <1>3
      <3>2. CASE i = Len(buf)
        <4>1. ~EndsWith(DoubleQuote)
          BY <1>1, <1>10, <3>1 DEF Continues
        <4> QED BY <1>4, <3>1, <3>2, <4>1 DEF EndsWith
      <3>3. CASE i # Len(buf)
        <4>1. i \in 2 .. Len(buf) - 1
          BY <1>0, <3>3
        <4> QED BY <1>4, <1>10, <3>1, <4>1 DEF Shaped
      <3> QED BY <3>2, <3>3
    <2> QED BY <1>1, <1>7, <1>10, <2>1, <2>2 DEF Shaped
  <1>11. CASE handler = "TOKEN_SYMBOL"
    BY <1>1, <1>5, <1>11 DEF Continues, Shaped
  <1> QED BY <1>1, <1>8, <1>9, <1>10, <1>11 DEF Scanned

\* Outside the loops and on their entry the buffer says nothing yet.
LEMMA ShapedElsewhere ==
  ASSUME handler' \in {"idle", "call"} \/ buf' = <<>>
  PROVE  Shaped'
PROOF
  <1>1. CASE handler' \in {"idle", "call"}
    BY <1>1 DEF Shaped
  <1>2. CASE buf' = <<>>
    <2>1. Len(buf') = 0 /\ CharsOf(buf') = {}
      BY <1>2 DEF CharsOf
    <2> QED BY <1>2, <2>1 DEF Shaped
  <1> QED BY <1>1, <1>2

\* The texts of finished loops are of the languages of their tokens.
LEMMA ScannedLanguage ==
  ASSUME IInv, Shaped, handler \in Scanned \ {"TOKEN_SYMBOL"}, ~Continues, NEW t,
         \/ t.type = handler /\ ~(handler = "TOKEN_STRING" /\ ~(Len(buf) > 1 /\ EndsWith(DoubleQuote)))
         \/ t.type = "TOKEN_ERROR" /\ handler = "TOKEN_STRING" /\ ~(Len(buf) > 1 /\ EndsWith(DoubleQuote))
  PROVE  Language(t, buf, CurrentCh)
PROOF
  <1>1. handler \in Handlers /\ handler \in Scanned
    BY DEF Handlers
  <1>2. buf \in Seq(Char) /\ Len(buf) \in Nat /\ DOMAIN buf = 1 .. Len(buf)
    BY DEF IInv, Typed
  <1>3. buf # <<>> /\ Len(buf) >= 1
    <2>1. current_pos > Consumed
      BY <1>1, Read
    <2>2. Len(buf) = current_pos - Consumed
      BY <1>1 DEF IInv, Reading
    <2>3. current_pos \in Nat /\ Consumed \in Nat
      BY ConsumedBound, SourceChars DEF IInv, Typed
    <2>4. Len(buf) >= 1
      BY <2>1, <2>2, <2>3
    <2> QED BY <1>2, <2>4
  <1>4. CASE t.type = "TOKEN_ERROR"
    <2>1. handler = "TOKEN_STRING" /\ CurrentCh = Nul
      BY <1>1, <1>4 DEF Scanned, Continues
    <2>2. buf[1] = DoubleQuote /\ (\A i \in 2 .. Len(buf) - 1 : buf[i] # DoubleQuote)
          /\ ~(Len(buf) > 1 /\ EndsWith(DoubleQuote))
      BY <1>3, <1>4, <2>1 DEF Shaped, Scanned
    <2>3. \A i \in DOMAIN buf : i = 1 \/ i \in 2 .. Len(buf) - 1 \/ (i = Len(buf) /\ Len(buf) > 1)
      BY <1>2
    <2>4. 1 \in DOMAIN buf
      BY <1>2, <1>3
    <2>5. {i \in DOMAIN buf : buf[i] = DoubleQuote} = {1}
      BY <1>3, <2>2, <2>3, <2>4 DEF EndsWith
    <2> QED BY <1>4, <2>1, <2>5 DEF Language
  <1>5. CASE handler = "TOKEN_WHITESPACE" /\ t.type = handler
    <2>1. CharsOf(buf) \subseteq Spaces /\ CurrentCh \notin Spaces
      BY <1>5 DEF Shaped, Continues
    <2> QED BY <1>5, <2>1 DEF Language
  <1>6. CASE handler = "TOKEN_COMMENT" /\ t.type = handler
    <2>1. buf[1] = ";" /\ (\A i \in 1 .. Len(buf) - 1 : buf[i] # Newline) /\ (CurrentCh = Nul \/ EndsWith(Newline))
      BY <1>3, <1>6 DEF Shaped, Continues
    <2>2. \A i \in DOMAIN buf : i \in 1 .. Len(buf) - 1 \/ i = Len(buf)
      BY <1>2
    <2>3. CurrentCh # Nul => buf[Len(buf)] = Newline
      BY <2>1 DEF EndsWith
    <2> QED BY <1>6, <2>1, <2>2, <2>3 DEF Language
  <1>7. CASE handler = "TOKEN_STRING" /\ t.type = handler
    <2>1. Len(buf) > 1 /\ EndsWith(DoubleQuote)
      BY <1>7
    <2>2. buf[1] = DoubleQuote /\ buf[Len(buf)] = DoubleQuote /\ \A i \in 2 .. Len(buf) - 1 : buf[i] # DoubleQuote
      BY <1>3, <1>7, <2>1 DEF Shaped, EndsWith
    <2>3. \A i \in DOMAIN buf : i \in 2 .. Len(buf) - 1 \/ i = 1 \/ i = Len(buf)
      BY <1>2
    <2>4. 1 \in DOMAIN buf /\ Len(buf) \in DOMAIN buf
      BY <1>2, <1>3
    <2>5. {i \in DOMAIN buf : buf[i] = DoubleQuote} = {1, Len(buf)}
      BY <2>2, <2>3, <2>4
    <2> QED BY <1>7, <2>1, <2>5 DEF Language
  <1> QED BY <1>1, <1>4, <1>5, <1>6, <1>7 DEF Scanned

LEMMA SymbolLanguage ==
  ASSUME IInv, Shaped, handler = "TOKEN_SYMBOL", ~Continues, NEW t,
         t.type \in {"TOKEN_NUMBER", "TOKEN_SYMBOL"},
         ~moved => (t.type = "TOKEN_NUMBER" <=> IsNumber(buf)),
         t.lexeme = Lexeme
  PROVE  Language(t, buf, CurrentCh)
PROOF
  <1>1. CharsOf(buf) \subseteq SymbolChars /\ CurrentCh \notin SymbolChars \ {Nul}
    BY DEF Shaped, Continues
  <1>2. t.lexeme # Garbage => ~moved
    BY DEF Lexeme
  <1>3. buf \in Seq(Char)
    BY DEF IInv, Typed
  <1>4. t.lexeme # Garbage => (t.type = "TOKEN_NUMBER" <=> Numeral(buf))
    BY <1>2, <1>3, NumbersAreNumerals
  <1> QED BY <1>1, <1>4 DEF Language

LEMMA NextIsCurrent == CurrentCh = NextAfter(current_pos)
BY DEF CurrentCh, NextAfter

\* A scanning handler returns the text of its loop.
LEMMA MaximalScanned ==
  ASSUME IInv, TokensMaximal, handler \in Scanned, ~Continues,
         NEW type \in TokenTypes, NEW lexeme \in Text,
         source' = source, current_pos' = current_pos,
         tokens' = Append(tokens, [type |-> type, lexeme |-> lexeme, start |-> start, end |-> end,
                                   upto |-> current_pos]),
         \A t : t.type = type /\ t.lexeme = lexeme => Language(t, buf, CurrentCh)
  PROVE  TokensMaximal'
PROOF
  <1> DEFINE t == [type |-> type, lexeme |-> lexeme, start |-> start, end |-> end, upto |-> current_pos]
  <1>1. current_pos \in Nat
    BY SourceChars DEF IInv, Typed
  <1>2. t \in Token
    BY <1>1 DEF IInv, Typed, Token
  <1>3. t.type = type /\ t.lexeme = lexeme /\ t.upto = current_pos' /\ tokens' = Append(tokens, t)
    OBVIOUS
  <1> HIDE DEF t
  <1>4. Language(t, buf, CurrentCh)
    BY <1>3
  <1>5. buf = SubSeq(source, Consumed + 1, current_pos')
    BY DEF IInv, Reading, Handlers
  <1>6. CurrentCh = NextAfter(current_pos')
    BY NextIsCurrent
  <1> QED BY <1>2, <1>3, <1>4, <1>5, <1>6, MaximalAppended

LEMMA MaximalFinishScan ==
  ASSUME IInv, Shaped, TokensMaximal, FinishScan
  PROVE  TokensMaximal'
PROOF
  <1>1. /\ handler \in Scanned \ {"TOKEN_SYMBOL"} /\ ~Continues /\ handler \in Scanned
        /\ UNCHANGED <<source, current_pos>>
        /\ IF handler = "TOKEN_STRING" /\ ~(Len(buf) > 1 /\ EndsWith(DoubleQuote))
             THEN Returns("TOKEN_ERROR", <<"Unterminated string literal">>, end)
             ELSE Returns(handler, Lexeme, end)
    BY DEF FinishScan, Returns
  <1>2. Lexeme \in Text /\ handler \in TokenTypes /\ "TOKEN_ERROR" \in TokenTypes
        /\ <<"Unterminated string literal">> \in Text
    BY <1>1, Read DEF TokenTypes, Handlers, Text
  <1>3. CASE handler = "TOKEN_STRING" /\ ~(Len(buf) > 1 /\ EndsWith(DoubleQuote))
    <2> DEFINE lexeme == <<"Unterminated string literal">>
    <2>1. tokens' = Append(tokens, [type |-> "TOKEN_ERROR", lexeme |-> lexeme, start |-> start,
                                    end |-> end, upto |-> current_pos])
      BY <1>1, <1>3 DEF Returns
    <2>2. lexeme \in Text
      BY <1>2
    <2> HIDE DEF lexeme
    <2>3. \A t : t.type = "TOKEN_ERROR" /\ t.lexeme = lexeme => Language(t, buf, CurrentCh)
      BY <1>1, <1>3, ScannedLanguage
    <2> QED BY <1>1, <1>2, <2>1, <2>2, <2>3, MaximalScanned
  <1>4. CASE ~(handler = "TOKEN_STRING" /\ ~(Len(buf) > 1 /\ EndsWith(DoubleQuote)))
    <2>1. tokens' = Append(tokens, [type |-> handler, lexeme |-> Lexeme, start |-> start,
                                    end |-> end, upto |-> current_pos])
      BY <1>1, <1>4 DEF Returns
    <2>2. \A t : t.type = handler /\ t.lexeme = Lexeme => Language(t, buf, CurrentCh)
      BY <1>1, <1>4, ScannedLanguage
    <2> QED BY <1>1, <1>2, <2>1, <2>2, MaximalScanned
  <1> QED BY <1>3, <1>4

LEMMA MaximalFinishSymbol ==
  ASSUME IInv, Shaped, TokensMaximal, FinishSymbol
  PROVE  TokensMaximal'
PROOF
  <1>1. handler = "TOKEN_SYMBOL" /\ handler \in Scanned /\ ~Continues /\ UNCHANGED <<source, current_pos>>
    BY DEF FinishSymbol, Returns, Scanned
  <1>2. PICK type \in {"TOKEN_NUMBER", "TOKEN_SYMBOL"} :
          /\ ~moved => (type = "TOKEN_NUMBER" <=> IsNumber(buf))
          /\ Returns(type, Lexeme, end)
    BY DEF FinishSymbol
  <1>3. Lexeme \in Text /\ type \in TokenTypes
    BY <1>1, Read DEF TokenTypes, Handlers, Scanned
  <1>4. tokens' = Append(tokens, [type |-> type, lexeme |-> Lexeme, start |-> start,
                                  end |-> end, upto |-> current_pos])
    BY <1>1, <1>2 DEF Returns
  <1>5. \A t : t.type = type /\ t.lexeme = Lexeme => Language(t, buf, CurrentCh)
    BY <1>1, <1>2, SymbolLanguage
  <1> QED BY <1>1, <1>3, <1>4, <1>5, MaximalScanned

\* Single characters, the end of the text and what begins no token.
LEMMA MaximalSingle ==
  ASSUME IInv, TokensMaximal, SingleChar \/ IllegalChar
  PROVE  TokensMaximal'
PROOF
  <1>0. PICK text : text = IF IllegalChar THEN <<"Illegal character">>
                         ELSE IF handler = "TOKEN_EOF" THEN <<>> ELSE <<CurrentCh>>
    OBVIOUS
  <1>1. /\ handler \in Single \cup {"TOKEN_ERROR"} /\ Advance /\ source' = source
        /\ \E e : tokens' = Append(tokens, [type |-> handler, lexeme |-> text, start |-> start,
                                            end |-> e, upto |-> current_pos'])
                  /\ (IllegalChar => e = end) /\ (~IllegalChar => e = <<line', col'>>)
    <2>1. CASE IllegalChar
      BY <1>0, <2>1 DEF IllegalChar, Returns
    <2>2. CASE ~IllegalChar /\ SingleChar
      BY <1>0, <2>2 DEF SingleChar, Returns
    <2> QED BY <2>1, <2>2
  <1>2. PICK e : /\ tokens' = Append(tokens, [type |-> handler, lexeme |-> text, start |-> start,
                                              end |-> e, upto |-> current_pos'])
                 /\ (IllegalChar => e = end) /\ (~IllegalChar => e = <<line', col'>>)
    BY <1>1
  <1>3. handler \in Handlers /\ handler \notin Scanned /\ handler \in TokenTypes
    BY <1>1 DEF Handlers, Single, Scanned, TokenTypes
  <1>4. buf = <<>> /\ handler = HandlerFor(CurrentCh) /\ current_pos = Consumed /\ current_pos \in Nat
    <2>1. buf = <<>>
      BY <1>3 DEF IInv, Chosen
    <2>2. Len(buf) = current_pos - Consumed /\ Len(buf) = 0
      BY <1>3, <2>1 DEF IInv, Reading
    <2>3. current_pos \in Nat /\ Consumed \in Nat
      BY ConsumedBound, SourceChars DEF IInv, Typed
    <2> QED BY <1>3, <2>1, <2>2, <2>3 DEF IInv, Chosen
  <1>5. handler = "TOKEN_EOF" <=> CurrentCh = Nul
    BY <1>4, HandlerGuards
  <1>6. /\ line' \in Nat \ {0} /\ col' \in Nat \ {0}
        /\ IF CurrentCh = Nul
             THEN current_pos' = current_pos /\ current_pos = Len(source)
             ELSE current_pos' = current_pos + 1 /\ current_pos < Len(source) /\ CurrentCh \in Char
    BY <1>1, Advanced DEF IInv, PlacesRight
  <1> DEFINE t == [type |-> handler, lexeme |-> text, start |-> start, end |-> e, upto |-> current_pos']
             s == SubSeq(source, Consumed + 1, current_pos')
  <1>7. t \in Token
    <2>1. text \in Text
      <3>1. CASE IllegalChar
        BY <1>0, <3>1 DEF Text
      <3>2. CASE ~IllegalChar
        <4>1. <<CurrentCh>> \in Seq(Char) /\ <<>> \in Seq(Char)
          BY CurrentChType DEF IInv
        <4> QED BY <1>0, <3>2, <4>1 DEF Text
      <3> QED BY <3>1, <3>2
    <2>2. e \in Nat \X Nat /\ start \in Nat \X Nat
      BY <1>2, <1>6 DEF IInv, Typed
    <2>3. current_pos' \in Nat
      BY <1>4, <1>6
    <2> QED BY <1>3, <2>1, <2>2, <2>3 DEF Token
  <1>8. t.type = handler /\ t.upto = current_pos' /\ tokens' = Append(tokens, t)
    BY <1>2
  <1>9. handler # "TOKEN_EOF" => s = <<CurrentCh>>
    <2> SUFFICES ASSUME handler # "TOKEN_EOF" PROVE s = <<CurrentCh>>
      OBVIOUS
    <2>1. source \in Seq(Char) /\ Len(source) \in Nat /\ CurrentCh # Nul
      BY <1>5, SourceChars DEF IInv
    <2>2. current_pos + 1 \in 1 .. Len(source) /\ current_pos < Len(source)
      BY <1>4, <1>6, <2>1
    <2>3. SubSeq(source, current_pos + 1, current_pos + 1) = <<source[current_pos + 1]>>
      BY <2>1, <2>2, OneChar
    <2> QED BY <1>4, <1>6, <2>1, <2>2, <2>3 DEF CurrentCh
  <1>10. handler = "TOKEN_EOF" => s = <<>> /\ NextAfter(current_pos') = Nul
    <2> SUFFICES ASSUME handler = "TOKEN_EOF" PROVE s = <<>> /\ NextAfter(current_pos') = Nul
      OBVIOUS
    <2>1. s = <<>>
      BY <1>4, <1>5, <1>6, SubSeqEmpty
    <2>2. Len(source) \in Nat /\ current_pos' = Len(source)
      BY <1>5, <1>6, SourceChars DEF IInv
    <2> QED BY <2>1, <2>2 DEF NextAfter
  <1> HIDE DEF t, s
  <1>11. Language(t, s, NextAfter(current_pos'))
    <2>1. CASE handler = "TOKEN_ERROR"
      <3>1. CurrentCh \notin SymbolChars \cup Spaces \cup {";", "(", ")", "'", DoubleQuote}
        BY <1>4, <2>1, FirstChars
      <3>2. Len(s) = 1 /\ s[1] = CurrentCh
        BY <1>9, <2>1
      <3> QED BY <1>8, <2>1, <3>1, <3>2 DEF Language
    <2>2. CASE handler = "TOKEN_EOF"
      BY <1>8, <1>10, <2>2 DEF Language
    <2>3. CASE handler \in {"TOKEN_LPAREN", "TOKEN_RPAREN", "TOKEN_QUOTE"}
      BY <1>4, <1>8, <1>9, <2>3, FirstChars DEF Language
    <2> QED BY <1>1, <2>1, <2>2, <2>3 DEF Single
  <1> QED BY <1>1, <1>7, <1>8, <1>11, MaximalAppended DEF s

MaxInv == IInv /\ Shaped /\ TokensMaximal

LEMMA MaximalInit == LexerInit => MaxInv
PROOF
  <1> SUFFICES ASSUME LexerInit PROVE Shaped /\ TokensMaximal
    BY InvInit DEF MaxInv
  <1> QED BY DEF LexerInit, Shaped, TokensMaximal

LEMMA MaximalNext == MaxInv /\ [LexerCall \/ LexerStep]_lexer => MaxInv'
PROOF
  <1> SUFFICES ASSUME MaxInv, [LexerCall \/ LexerStep]_lexer PROVE Shaped' /\ TokensMaximal'
    BY InvNext DEF MaxInv
  <1>1. IInv /\ Shaped /\ TokensMaximal
    BY DEF MaxInv
  <1>2. CASE UNCHANGED lexer
    <2>1. UNCHANGED <<source, buf, handler, tokens>>
      BY <1>2 DEF lexer
    <2> QED BY <1>1, <2>1, MaximalKept DEF Shaped
  <1>3. CASE LexerCall
    <2>1. handler' = "call" /\ UNCHANGED <<source, tokens>>
      BY <1>3 DEF LexerCall
    <2> QED BY <1>1, <2>1, MaximalKept, ShapedElsewhere
  <1>4. CASE Dispatch
    <2>1. buf' = <<>> /\ UNCHANGED <<source, tokens>>
      BY <1>4 DEF Dispatch
    <2> QED BY <1>1, <2>1, MaximalKept, ShapedElsewhere
  <1>5. CASE Scan
    <2>1. UNCHANGED <<source, tokens>>
      BY <1>5 DEF Scan
    <2> QED BY <1>1, <1>5, <2>1, MaximalKept, ShapedScan
  <1>6. CASE FinishScan \/ FinishSymbol \/ SingleChar \/ IllegalChar
    <2>1. handler' = "idle"
      BY <1>6 DEF FinishScan, FinishSymbol, SingleChar, IllegalChar, Returns
    <2> QED BY <1>1, <1>6, <2>1, ShapedElsewhere, MaximalFinishScan, MaximalFinishSymbol, MaximalSingle
  <1> QED BY <1>2, <1>3, <1>4, <1>5, <1>6 DEF LexerStep

\* Every token of any text is as long as it can be and of the kind its text says:
\* among the runs of symbol characters exactly the numerals are numbers, unless
\* reading the run moved the buffer.
THEOREM LongestTokens == LexerSpec => []TokensMaximal
PROOF
  <1>1. MaxInv => TokensMaximal
    BY DEF MaxInv
  <1>2. LexerSpec => []MaxInv
    BY MaximalInit, MaximalNext, PTL DEF LexerSpec
  <1> QED BY <1>1, <1>2, PTL

-----------------------------------------------------------------------------
(* The order of positions *)

LastEnd == IF tokens = <<>> THEN <<1, 1>> ELSE tokens[Len(tokens)].end

\* Every token ends at or behind its start, and the next one starts at or behind
\* its end; the place reached is never behind that of the next character.
Ordered ==
  /\ \A i \in 1 .. Len(tokens) : AtOrBefore(tokens[i].start, tokens[i].end)
  /\ \A i \in 1 .. Len(tokens) - 1 : AtOrBefore(tokens[i].end, tokens[i + 1].start)
  /\ handler \in {"idle", "call"} => AtOrBefore(LastEnd, <<line, col>>)
  /\ handler \in Handlers =>
       AtOrBefore(LastEnd, start) /\ AtOrBefore(start, end) /\ AtOrBefore(end, <<line, col>>)

LEMMA OrderTransitive ==
  ASSUME NEW p \in Nat \X Nat, NEW q \in Nat \X Nat, NEW r \in Nat \X Nat,
         AtOrBefore(p, q), AtOrBefore(q, r)
  PROVE  AtOrBefore(p, r)
BY DEF AtOrBefore

LEMMA OrderReflexive == ASSUME NEW p \in Nat \X Nat PROVE AtOrBefore(p, p)
BY DEF AtOrBefore

LEMMA PositionTypes ==
  ASSUME Typed
  PROVE  /\ <<line, col>> \in Nat \X Nat /\ start \in Nat \X Nat /\ end \in Nat \X Nat
         /\ LastEnd \in Nat \X Nat
PROOF
  <1>1. CASE tokens = <<>>
    BY <1>1 DEF Typed, LastEnd
  <1>2. CASE tokens # <<>>
    <2>1. Len(tokens) \in 1 .. Len(tokens) /\ tokens \in Seq(Token)
      BY <1>2 DEF Typed
    <2>2. tokens[Len(tokens)] \in Token
      BY <2>1
    <2> QED BY <1>2, <2>2 DEF Typed, LastEnd, Token
  <1> QED BY <1>1, <1>2

LEMMA AdvanceOrder ==
  ASSUME Typed, Advance
  PROVE  AtOrBefore(<<line, col>>, <<line', col'>>)
PROOF
  <1>1. line \in Nat /\ col \in Nat
    BY DEF Typed
  <1>2. CASE CurrentCh = Nul
    <2>1. line' = line /\ col' = col
      BY <1>2 DEF Advance
    <2> QED BY <1>1, <2>1 DEF AtOrBefore
  <1>3. CASE CurrentCh # Nul
    <2>1. line' = line + 1 \/ (line' = line /\ col' = col + 1)
      BY <1>3 DEF Advance
    <2> QED BY <1>1, <2>1 DEF AtOrBefore
  <1> QED BY <1>2, <1>3

\* A handler returns a token that stands behind the others.
LEMMA ReturnOrdered ==
  ASSUME IInv, IInv', Ordered, handler \in Handlers, handler' = "idle", NEW t, tokens' = Append(tokens, t),
         t.start = start, AtOrBefore(start, t.end), AtOrBefore(t.end, <<line', col'>>)
  PROVE  Ordered'
PROOF
  <1> PICK n \in Nat : n = Len(tokens)
    BY DEF IInv, Typed
  <1>1. tokens \in Seq(Token)
    BY DEF IInv, Typed
  <1>2. /\ Len(tokens') = n + 1 /\ \A i \in 1 .. n : tokens'[i] = tokens[i]
        /\ tokens'[n + 1] = t /\ tokens' # <<>>
    <2>1. tokens \in Seq(Token \cup {t})
      BY <1>1
    <2> QED BY <2>1, AppendProperties
  <1>3. LastEnd' = t.end
    BY <1>2 DEF LastEnd
  <1>4. \A i \in 1 .. n + 1 : AtOrBefore(tokens'[i].start, tokens'[i].end)
    <2> SUFFICES ASSUME NEW i \in 1 .. n + 1 PROVE AtOrBefore(tokens'[i].start, tokens'[i].end)
      OBVIOUS
    <2>1. CASE i \in 1 .. n
      BY <1>2, <2>1 DEF Ordered
    <2>2. CASE i \notin 1 .. n
      <3>1. i = n + 1
        BY <2>2
      <3> QED BY <1>2, <3>1
    <2> QED BY <2>1, <2>2
  <1>5. \A i \in 1 .. n : AtOrBefore(tokens'[i].end, tokens'[i + 1].start)
    <2> SUFFICES ASSUME NEW i \in 1 .. n PROVE AtOrBefore(tokens'[i].end, tokens'[i + 1].start)
      OBVIOUS
    <2>1. CASE i = n
      <3>1. tokens # <<>> /\ tokens[n].end = LastEnd
        BY <1>1, <2>1 DEF LastEnd
      <3> QED BY <1>2, <2>1, <3>1 DEF Ordered
    <2>2. CASE i # n
      <3>1. i \in 1 .. n - 1 /\ i + 1 \in 1 .. n
        BY <2>2
      <3> QED BY <1>2, <3>1 DEF Ordered
    <2> QED BY <2>1, <2>2
  <1>6. handler' \notin Handlers
    BY DEF Handlers, Scanned, Single
  <1>7. (n + 1) - 1 = n
    OBVIOUS
  <1> QED BY <1>2, <1>3, <1>4, <1>5, <1>6, <1>7 DEF Ordered

LEMMA SameOrder ==
  ASSUME Ordered, UNCHANGED tokens,
         handler' \in {"idle", "call"} => AtOrBefore(LastEnd, <<line', col'>>),
         handler' \in Handlers =>
           AtOrBefore(LastEnd, start') /\ AtOrBefore(start', end') /\ AtOrBefore(end', <<line', col'>>)
  PROVE  Ordered'
PROOF
  <1>1. LastEnd' = LastEnd
    BY DEF LastEnd
  <1> QED BY <1>1 DEF Ordered

LEMMA OrderedInit == LexerInit => Ordered
PROOF
  <1> SUFFICES ASSUME LexerInit PROVE Ordered
    OBVIOUS
  <1>1. tokens = <<>> /\ handler = "idle" /\ line = 1 /\ col = 1
    BY DEF LexerInit
  <1>2. handler \notin Handlers
    BY <1>1 DEF Handlers, Scanned, Single
  <1> QED BY <1>1, <1>2 DEF Ordered, LastEnd, AtOrBefore

LEMMA OrderedNext == IInv /\ IInv' /\ Ordered /\ [LexerCall \/ LexerStep]_lexer => Ordered'
PROOF
  <1> SUFFICES ASSUME IInv, IInv', Ordered, [LexerCall \/ LexerStep]_lexer PROVE Ordered'
    OBVIOUS
  <1> DEFINE p == <<line, col>>
             p1 == <<line', col'>>
  <1>1. /\ p \in Nat \X Nat /\ start \in Nat \X Nat /\ end \in Nat \X Nat /\ LastEnd \in Nat \X Nat
        /\ p1 \in Nat \X Nat
    <2>1. Typed /\ Typed'
      BY DEF IInv
    <2>2. line' \in Nat /\ col' \in Nat
      BY <2>1 DEF Typed
    <2> QED BY <2>1, <2>2, PositionTypes
  <1>2. handler \in Handlers => AtOrBefore(LastEnd, start) /\ AtOrBefore(start, end) /\ AtOrBefore(end, p)
    BY DEF Ordered
  <1>3. Advance => AtOrBefore(p, p1)
    BY AdvanceOrder DEF IInv
  <1>4. handler \in {"idle", "call"} => AtOrBefore(LastEnd, p)
    BY DEF Ordered
  <1>5. {"idle", "call"} \cap Handlers = {} /\ Scanned \subseteq Handlers /\ Single \subseteq Handlers
        /\ "TOKEN_ERROR" \in Handlers
    BY DEF Handlers, Scanned, Single
  <1>6. CASE UNCHANGED lexer
    <2>1. UNCHANGED <<tokens, handler, line, col, start, end>>
      BY <1>6 DEF lexer
    <2> QED BY <2>1, SameOrder DEF Ordered
  <1>7. CASE LexerCall
    <2>1. handler = "idle" /\ handler' = "call" /\ UNCHANGED <<tokens, line, col, start, end>>
      BY <1>7 DEF LexerCall
    <2> QED BY <1>4, <1>5, <2>1, SameOrder
  <1>8. CASE Dispatch
    <2>1. /\ handler = "call" /\ handler' \in Handlers /\ start' = p /\ end' = p
          /\ UNCHANGED <<tokens, line, col>>
      BY <1>8, HandlerForType DEF Dispatch
    <2>2. AtOrBefore(p, p)
      BY <1>1, OrderReflexive
    <2> QED BY <1>4, <1>5, <2>1, <2>2, SameOrder
  <1>9. CASE Scan
    <2>1. handler \in Scanned /\ end' = p /\ Advance /\ UNCHANGED <<handler, start, tokens>>
      BY <1>9 DEF Scan
    <2>2. AtOrBefore(start, p) /\ AtOrBefore(p, p1) /\ AtOrBefore(LastEnd, start)
      BY <1>1, <1>2, <1>3, <1>5, <2>1, OrderTransitive
    <2> HIDE DEF p, p1
    <2> QED BY <1>5, <2>1, <2>2, SameOrder DEF p, p1
  <1>10. ASSUME handler \in Handlers, UNCHANGED <<line, col>>,
                NEW type, NEW lexeme, Returns(type, lexeme, end)
         PROVE  Ordered'
    <2> DEFINE t == [type |-> type, lexeme |-> lexeme, start |-> start, end |-> end, upto |-> current_pos']
    <2>1. tokens' = Append(tokens, t) /\ handler' = "idle"
      BY <1>10 DEF Returns
    <2>2. t.start = start /\ t.end = end
      OBVIOUS
    <2> HIDE DEF t
    <2> QED BY <1>2, <1>10, <2>1, <2>2, ReturnOrdered
  <1>11. CASE FinishScan
    <2>1. handler \in Scanned /\ UNCHANGED <<line, col>>
          /\ (\/ Returns("TOKEN_ERROR", <<"Unterminated string literal">>, end)
              \/ Returns(handler, Lexeme, end))
      BY <1>11 DEF FinishScan
    <2> QED BY <1>5, <1>10, <2>1
  <1>12. CASE FinishSymbol
    <2>1. handler \in Scanned /\ UNCHANGED <<line, col>>
          /\ \E type \in {"TOKEN_NUMBER", "TOKEN_SYMBOL"} : Returns(type, Lexeme, end)
      BY <1>12 DEF FinishSymbol, Scanned
    <2> QED BY <1>5, <1>10, <2>1
  <1>13. CASE SingleChar
    <2>1. handler \in Handlers /\ Advance /\ end' = p1
          /\ \E lexeme : Returns(handler, lexeme, end')
      BY <1>5, <1>13 DEF SingleChar
    <2>2. PICK lexeme : Returns(handler, lexeme, end')
      BY <2>1
    <2> DEFINE t == [type |-> handler, lexeme |-> lexeme, start |-> start, end |-> end', upto |-> current_pos']
    <2>3. tokens' = Append(tokens, t) /\ handler' = "idle"
      BY <2>2 DEF Returns
    <2>4. t.start = start /\ t.end = p1
      BY <2>1
    <2> HIDE DEF t
    <2>5. AtOrBefore(start, p1) /\ AtOrBefore(p1, p1)
      BY <1>1, <1>2, <1>3, <2>1, OrderTransitive, OrderReflexive
    <2> QED BY <2>1, <2>3, <2>4, <2>5, ReturnOrdered
  <1>14. CASE IllegalChar
    <2>1. handler \in Handlers /\ Advance /\ \E lexeme : Returns("TOKEN_ERROR", lexeme, end)
      BY <1>5, <1>14 DEF IllegalChar
    <2>2. PICK lexeme : Returns("TOKEN_ERROR", lexeme, end)
      BY <2>1
    <2> DEFINE t == [type |-> "TOKEN_ERROR", lexeme |-> lexeme, start |-> start, end |-> end, upto |-> current_pos']
    <2>3. tokens' = Append(tokens, t) /\ handler' = "idle"
      BY <2>2 DEF Returns
    <2>4. t.start = start /\ t.end = end
      OBVIOUS
    <2> HIDE DEF t
    <2>5. AtOrBefore(start, end) /\ AtOrBefore(end, p1)
      BY <1>1, <1>2, <1>3, <2>1, OrderTransitive
    <2> QED BY <2>1, <2>3, <2>4, <2>5, ReturnOrdered
  <1> QED BY <1>6, <1>7, <1>8, <1>9, <1>11, <1>12, <1>13, <1>14 DEF LexerStep

LEMMA PositionsOrdered == LexerSpec => []Ordered
BY LexerInvariant, OrderedInit, OrderedNext, PTL DEF LexerSpec
=============================================================================
