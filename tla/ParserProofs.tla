---------------------------- MODULE ParserProofs ----------------------------
(***************************************************************************)
(* The parser drives the lexer as LexerSpec allows: between the calls it   *)
(* leaves it alone.  What is proved of the lexer therefore holds of lexer  *)
(* and parser together.                                                    *)
(***************************************************************************)
EXTENDS Parser, LexerProofs

LEMMA StepsAreLexerSteps == [Next]_vars => [LexerCall \/ LexerStep]_lexer
BY DEF Next, vars, Start, Lex, SkipBlank, ParseAtom, OpenList, CloseList, Quote, BeginQuoted, Return,
       EndProgram, ParserError, ParserAdvance

\* Whatever the text, the parser never disturbs a running lexer, calls it again
\* only after it has returned, and keeps the tokens it was given.
THEOREM ParserDrivesLexer == Spec => LexerSpec
PROOF
  <1>1. Init => LexerInit
    BY DEF Init
  <1> QED BY <1>1, StepsAreLexerSteps, PTL DEF Spec, LexerSpec

\* The theorems about the lexer, of the whole reader.
THEOREM ReaderTypeCorrect == Spec => []LexerTypeOK
BY ParserDrivesLexer, LexerTypeCorrect, PTL

\* No text makes the lexeme buffer overflow, nor its terminator.
THEOREM ReaderBufferFits == Spec => []BufferFits
BY ParserDrivesLexer, LexemeBufferFits, PTL

\* Every token the parser sees, and so every error message, has the line and
\* column where its text stands.
THEOREM ReaderPlacesRight == Spec => []PlacesRight
BY ParserDrivesLexer, TokenPlaces, PTL

\* The tokens the parser sees tile the text.
THEOREM ReaderTokensTile == Spec => []TokensTile
BY ParserDrivesLexer, TokensTileSource, PTL

\* No token the parser sees could have been longer, nor is it of another kind than
\* its text: numbers are the numerals, unless the buffer moved under the token.
THEOREM ReaderTokensMaximal == Spec => []TokensMaximal
BY ParserDrivesLexer, LongestTokens, PTL

-----------------------------------------------------------------------------
(* Vectors of expressions *)

IsSequence(s) == \E S : s \in Seq(S)

\* A vector with fewer elements than it was made for has never been resized.
Sound(v) ==
  /\ IsSequence(v.elements)
  /\ Len(v.elements) < ListCapacity => v.capacity = ListCapacity /\ v.bytes = ListCapacity * ExprSize

IsFrame(f) ==
  /\ f = [fn |-> f.fn, list |-> f.list, start |-> f.start]
  /\ Sound(f.list)

\* The outermost activation is that of parse_program and is never left; every
\* activation has a sound vector.
FramesSound ==
  /\ IsSequence(frames)
  /\ Len(frames) > 0
  /\ frames[1].fn = "program"
  /\ \A i \in 1 .. Len(frames) : IsFrame(frames[i])

PInv == FramesSound /\ ShortListsSafe

LEMMA SequenceFacts ==
  ASSUME NEW s, IsSequence(s)
  PROVE  Len(s) \in Nat /\ DOMAIN s = 1 .. Len(s)
BY DEF IsSequence

LEMMA AppendAny ==
  ASSUME NEW s, IsSequence(s), NEW x
  PROVE  /\ IsSequence(Append(s, x))
         /\ Len(Append(s, x)) = Len(s) + 1
         /\ \A i \in 1 .. Len(s) : Append(s, x)[i] = s[i]
         /\ Append(s, x)[Len(s) + 1] = x
PROOF
  <1>1. PICK S : s \in Seq(S)
    BY DEF IsSequence
  <1>2. s \in Seq(S \cup {x})
    BY <1>1
  <1>3. /\ Append(s, x) \in Seq(S \cup {x})
        /\ Len(Append(s, x)) = Len(s) + 1
        /\ \A i \in 1 .. Len(s) : Append(s, x)[i] = s[i]
        /\ Append(s, x)[Len(s) + 1] = x
    BY <1>2, AppendProperties
  <1> QED BY <1>3 DEF IsSequence

LEMMA FrontAny ==
  ASSUME NEW s, IsSequence(s), Len(s) > 0
  PROVE  /\ IsSequence(Front(s))
         /\ Len(Front(s)) = Len(s) - 1
         /\ \A i \in 1 .. Len(s) - 1 : Front(s)[i] = s[i]
PROOF
  <1>1. PICK S : s \in Seq(S)
    BY DEF IsSequence
  <1>2. Len(s) \in Nat /\ \A i \in 1 .. Len(s) - 1 : s[i] \in S
    BY <1>1
  <1>3. /\ SubSeq(s, 1, Len(s) - 1) \in Seq(S)
        /\ Len(SubSeq(s, 1, Len(s) - 1)) = IF 1 <= Len(s) - 1 THEN (Len(s) - 1) - 1 + 1 ELSE 0
        /\ \A i \in 1 .. (Len(s) - 1) - 1 + 1 : SubSeq(s, 1, Len(s) - 1)[i] = s[1 + i - 1]
    BY <1>2, SubSeqProperties
  <1>4. Front(s) = SubSeq(s, 1, Len(s) - 1)
    BY DEF Front
  <1>5. Len(Front(s)) = Len(s) - 1
    <2>1. CASE 1 <= Len(s) - 1
      <3>1. (Len(s) - 1) - 1 + 1 = Len(s) - 1
        BY <1>2
      <3> QED BY <1>3, <1>4, <2>1, <3>1
    <2>2. CASE ~(1 <= Len(s) - 1)
      <3>1. Len(s) \in Nat
        BY <1>2
      <3>2. PICK n \in Nat : n = Len(s)
        BY <3>1
      <3>3. n > 0 /\ n < 2
        BY <2>2, <3>2
      <3>4. n - 1 = 0
        BY <3>3
      <3>5. Len(Front(s)) = 0
        BY <1>3, <1>4, <2>2
      <3> QED BY <3>2, <3>4, <3>5
    <2> QED BY <2>1, <2>2
  <1>6. \A i \in 1 .. Len(s) - 1 : Front(s)[i] = s[i]
    <2> SUFFICES ASSUME NEW i \in 1 .. Len(s) - 1 PROVE Front(s)[i] = s[i]
      OBVIOUS
    <2>1. i \in 1 .. (Len(s) - 1) - 1 + 1 /\ 1 + i - 1 = i
      BY <1>2
    <2> QED BY <1>3, <1>4, <2>1
  <1> QED BY <1>3, <1>4, <1>5, <1>6 DEF IsSequence

LEMMA ReplaceLast ==
  ASSUME NEW s, IsSequence(s), NEW x, Len(s) > 0
  PROVE  /\ IsSequence([s EXCEPT ![Len(s)] = x])
         /\ Len([s EXCEPT ![Len(s)] = x]) = Len(s)
         /\ \A i \in 1 .. Len(s) : [s EXCEPT ![Len(s)] = x][i] = IF i = Len(s) THEN x ELSE s[i]
PROOF
  <1>1. PICK S : s \in Seq(S)
    BY DEF IsSequence
  <1>2. s \in Seq(S \cup {x}) /\ Len(s) \in 1 .. Len(s)
    BY <1>1
  <1>3. /\ [s EXCEPT ![Len(s)] = x] \in Seq(S \cup {x})
        /\ Len([s EXCEPT ![Len(s)] = x]) = Len(s)
        /\ \A i \in 1 .. Len(s) : [s EXCEPT ![Len(s)] = x][i] = IF i = Len(s) THEN x ELSE s[i]
    BY <1>2, ExceptSeq
  <1> QED BY <1>3 DEF IsSequence

LEMMA EmptySound == Sound(EmptyVector)
PROOF
  <1>1. IsSequence(<<>>)
    <2>1. <<>> \in Seq({})
      OBVIOUS
    <2> QED BY <2>1 DEF IsSequence
  <1>2. /\ EmptyVector.elements = <<>> /\ EmptyVector.capacity = ListCapacity
        /\ EmptyVector.bytes = ListCapacity * ExprSize
    BY DEF EmptyVector
  <1> QED BY <1>1, <1>2 DEF Sound

\* As long as there is room for one more, appending writes inside the block.
LEMMA AppendExprSound ==
  ASSUME NEW v, Sound(v), NEW e
  PROVE  /\ Sound(AppendExpr(v, e))
         /\ Overrun(AppendExpr(v, e)) => Len(v.elements) + 1 >= ListCapacity
PROOF
  <1> DEFINE w == AppendExpr(v, e)
  <1>1. /\ IsSequence(v.elements)
        /\ Len(v.elements) < ListCapacity => v.capacity = ListCapacity /\ v.bytes = ListCapacity * ExprSize
    BY DEF Sound
  <1>2. Len(v.elements) \in Nat /\ ListCapacity \in Nat /\ ExprSize \in Nat
    BY <1>1, SequenceFacts, ParserAssumption
  <1>3. /\ w.elements = Append(v.elements, e)
        /\ ~(Len(v.elements) + 1 >= v.capacity) => w.capacity = v.capacity /\ w.bytes = v.bytes
    BY DEF AppendExpr
  <1>4. IsSequence(w.elements) /\ Len(w.elements) = Len(v.elements) + 1
    BY <1>1, <1>3, AppendAny
  <1> HIDE DEF w
  <1>5. ASSUME Len(v.elements) + 1 < ListCapacity
        PROVE  w.capacity = ListCapacity /\ w.bytes = ListCapacity * ExprSize
    BY <1>1, <1>2, <1>3, <1>5
  <1>6. Sound(w)
    BY <1>2, <1>4, <1>5 DEF Sound
  <1>7. ASSUME Len(v.elements) + 1 < ListCapacity
        PROVE  ~Overrun(w)
    <2>1. \A m, n, k \in Nat : m < n => m * k <= n * k
      OBVIOUS
    <2>2. (Len(v.elements) + 1) * ExprSize <= ListCapacity * ExprSize
      BY <1>2, <1>7, <2>1
    <2>3. (Len(v.elements) + 1) * ExprSize \in Nat /\ ListCapacity * ExprSize \in Nat
      BY <1>2
    <2> QED BY <1>4, <1>5, <1>7, <2>2, <2>3 DEF Overrun
  <1> QED BY <1>2, <1>6, <1>7 DEF w

LEMMA FrameSound ==
  ASSUME NEW fn, NEW v, Sound(v), NEW at
  PROVE  IsFrame([fn |-> fn, list |-> v, start |-> at])
BY DEF IsFrame

-----------------------------------------------------------------------------
(* Steps of the parser *)

LEMMA Pushed ==
  ASSUME FramesSound, NEW f, IsFrame(f), frames' = Append(frames, f)
  PROVE  FramesSound'
PROOF
  <1>1. IsSequence(frames) /\ Len(frames) \in Nat /\ Len(frames) > 0
    BY SequenceFacts DEF FramesSound
  <1>2. /\ IsSequence(frames') /\ Len(frames') = Len(frames) + 1
        /\ \A i \in 1 .. Len(frames) : frames'[i] = frames[i]
        /\ frames'[Len(frames) + 1] = f
    BY <1>1, AppendAny
  <1>3. \A i \in 1 .. Len(frames') : IsFrame(frames'[i])
    <2> SUFFICES ASSUME NEW i \in 1 .. Len(frames) + 1 PROVE IsFrame(frames'[i])
      BY <1>2
    <2>1. CASE i \in 1 .. Len(frames)
      <3>1. IsFrame(frames[i])
        BY <2>1 DEF FramesSound
      <3> QED BY <1>2, <2>1, <3>1
    <2>2. CASE i \notin 1 .. Len(frames)
      <3>1. i = Len(frames) + 1
        BY <1>1, <2>2
      <3> QED BY <1>2, <3>1
    <2> QED BY <2>1, <2>2
  <1>4. frames'[1].fn = "program" /\ Len(frames') > 0
    <2>1. 1 \in 1 .. Len(frames)
      BY <1>1
    <2> QED BY <1>1, <1>2, <2>1 DEF FramesSound
  <1> QED BY <1>2, <1>3, <1>4 DEF FramesSound

LEMMA Popped ==
  ASSUME FramesSound, Top.fn # "program", frames' = Pop
  PROVE  FramesSound'
PROOF
  <1>1. IsSequence(frames) /\ Len(frames) \in Nat /\ Len(frames) > 0
    BY SequenceFacts DEF FramesSound
  <1>2. Len(frames) > 1
    <2>1. PICK n \in Nat : n = Len(frames)
      BY <1>1
    <2>2. n # 1
      BY <2>1 DEF FramesSound, Top
    <2>3. n > 1
      BY <1>1, <2>1, <2>2
    <2> QED BY <2>1, <2>3
  <1>3. /\ IsSequence(frames') /\ Len(frames') = Len(frames) - 1
        /\ \A i \in 1 .. Len(frames) - 1 : frames'[i] = frames[i]
    BY <1>1, FrontAny DEF Pop
  <1>4. \A i \in 1 .. Len(frames') : IsFrame(frames'[i])
    <2> SUFFICES ASSUME NEW i \in 1 .. Len(frames) - 1 PROVE IsFrame(frames'[i])
      BY <1>3
    <2>1. i \in 1 .. Len(frames)
      BY <1>1
    <2>2. IsFrame(frames[i])
      BY <2>1 DEF FramesSound
    <2> QED BY <1>3, <2>2
  <1>5. frames'[1].fn = "program" /\ Len(frames') > 0
    <2>1. 1 \in 1 .. Len(frames) - 1
      BY <1>1, <1>2
    <2> QED BY <1>1, <1>2, <1>3, <2>1 DEF FramesSound
  <1> QED BY <1>3, <1>4, <1>5 DEF FramesSound

LEMMA Replaced ==
  ASSUME FramesSound, NEW f, IsFrame(f), Top.fn = "program" => f.fn = "program",
         frames' = [frames EXCEPT ![Len(frames)] = f]
  PROVE  FramesSound'
PROOF
  <1>1. IsSequence(frames) /\ Len(frames) \in Nat /\ Len(frames) > 0
    BY SequenceFacts DEF FramesSound
  <1>2. /\ IsSequence(frames') /\ Len(frames') = Len(frames)
        /\ \A i \in 1 .. Len(frames) : frames'[i] = IF i = Len(frames) THEN f ELSE frames[i]
    BY <1>1, ReplaceLast
  <1>3. \A i \in 1 .. Len(frames') : IsFrame(frames'[i])
    <2> SUFFICES ASSUME NEW i \in 1 .. Len(frames) PROVE IsFrame(frames'[i])
      BY <1>2
    <2>1. IsFrame(frames[i])
      BY DEF FramesSound
    <2> QED BY <1>2, <2>1
  <1>4. frames'[1].fn = "program"
    <2>1. frames'[1] = IF 1 = Len(frames) THEN f ELSE frames[1]
      <3>1. 1 \in 1 .. Len(frames)
        BY <1>1
      <3> QED BY <1>2, <3>1
    <2>2. frames[1].fn = "program"
      BY DEF FramesSound
    <2>3. 1 = Len(frames) => f.fn = "program"
      BY <2>2 DEF Top
    <2> QED BY <2>1, <2>2, <2>3
  <1> QED BY <1>1, <1>2, <1>3, <1>4 DEF FramesSound

LEMMA TopSound ==
  ASSUME FramesSound
  PROVE  IsFrame(Top) /\ Sound(Top.list)
PROOF
  <1>1. Len(frames) \in 1 .. Len(frames)
    BY SequenceFacts DEF FramesSound
  <1> QED BY <1>1 DEF FramesSound, Top, IsFrame

LEMMA ReturnStep == PInv /\ Return => PInv'
PROOF
  <1> SUFFICES ASSUME PInv, Return PROVE PInv'
    OBVIOUS
  <1> DEFINE v == AppendExpr(Top.list, value)
  <1>1. status = "parsing" /\ FramesSound
    BY DEF PInv, Return, Parsing
  <1>2. Sound(v) /\ (Overrun(v) => Len(Top.list.elements) + 1 >= ListCapacity)
    BY <1>1, TopSound, AppendExprSound
  <1>3. CASE Overrun(v)
    <2>1. frames' = frames
      BY <1>3 DEF Return
    <2>2. FramesSound'
      BY <1>1, <2>1 DEF FramesSound
    <2>3. ShortListsSafe'
      BY <1>2, <1>3, <2>1 DEF ShortListsSafe, Top
    <2> QED BY <2>2, <2>3 DEF PInv
  <1>4. CASE ~Overrun(v) /\ Top.fn = "quote"
    <2>1. frames' = Pop /\ status' = status
      BY <1>4 DEF Return
    <2>2. FramesSound'
      BY <1>1, <1>4, <2>1, Popped
    <2> QED BY <1>1, <2>1, <2>2 DEF PInv, ShortListsSafe
  <1>5. CASE ~Overrun(v) /\ Top.fn # "quote"
    <2>1. frames' = [frames EXCEPT ![Len(frames)] = [Top EXCEPT !.list = v]] /\ status' = status
      BY <1>5 DEF Return, Top
    <2> HIDE DEF v
    <2>2. [Top EXCEPT !.list = v] = [fn |-> Top.fn, list |-> v, start |-> Top.start]
      BY <1>1, TopSound DEF IsFrame
    <2>3. frames' = [frames EXCEPT ![Len(frames)] = [fn |-> Top.fn, list |-> v, start |-> Top.start]]
      BY <2>1, <2>2
    <2>4. IsFrame([fn |-> Top.fn, list |-> v, start |-> Top.start])
      BY <1>2, FrameSound
    <2>5. FramesSound'
      BY <1>1, <2>3, <2>4, Replaced
    <2> QED BY <1>1, <2>1, <2>5 DEF PInv, ShortListsSafe
  <1> QED BY <1>3, <1>4, <1>5

LEMMA PInvInit == Init => PInv
PROOF
  <1> SUFFICES ASSUME Init PROVE PInv
    OBVIOUS
  <1>1. frames = <<Frame("program", <<1, 1>>)>> /\ status = "parsing"
    BY DEF Init
  <1>2. IsSequence(frames)
    <2>1. frames \in Seq({Frame("program", <<1, 1>>)})
      BY <1>1
    <2> QED BY <2>1 DEF IsSequence
  <1>3. Len(frames) = 1 /\ frames[1] = Frame("program", <<1, 1>>)
    BY <1>1
  <1>4. IsFrame(frames[1]) /\ frames[1].fn = "program"
    BY <1>3, EmptySound, FrameSound DEF Frame
  <1>5. FramesSound
    BY <1>2, <1>3, <1>4 DEF FramesSound
  <1> QED BY <1>1, <1>5 DEF PInv, ShortListsSafe

LEMMA PInvNext == PInv /\ [Next]_vars => PInv'
PROOF
  <1> SUFFICES ASSUME PInv, [Next]_vars PROVE PInv'
    OBVIOUS
  <1>1. FramesSound
    BY DEF PInv
  <1>2. ASSUME UNCHANGED <<frames, status>> PROVE PInv'
    BY <1>2 DEF PInv, FramesSound, ShortListsSafe, Top
  <1>3. ASSUME status' \in {"parsed", "failed"}, UNCHANGED frames PROVE PInv'
    BY <1>3 DEF PInv, FramesSound, ShortListsSafe
  <1>4. ASSUME NEW f, IsFrame(f), frames' = Append(frames, f), status = "parsing", UNCHANGED status
        PROVE  PInv'
    BY <1>1, <1>4, Pushed DEF PInv, ShortListsSafe
  <1>5. CASE OpenList
    <2>1. /\ IsFrame(Frame("list", CurrentToken.start))
          /\ frames' = Append(frames, Frame("list", CurrentToken.start))
          /\ status = "parsing" /\ UNCHANGED status
      BY <1>5, EmptySound, FrameSound DEF OpenList, Frame, Sees, Parsing
    <2> QED BY <1>4, <2>1
  <1>6. CASE Quote
    <2>1. /\ IsFrame(Frame("quoting", CurrentToken.start))
          /\ frames' = Append(frames, Frame("quoting", CurrentToken.start))
          /\ status = "parsing" /\ UNCHANGED status
      BY <1>6, EmptySound, FrameSound DEF Quote, Frame, Sees, Parsing
    <2> QED BY <1>4, <2>1
  <1>7. CASE CloseList
    <2>1. Top.fn # "program" /\ frames' = Pop /\ status = "parsing" /\ UNCHANGED status
      BY <1>7 DEF CloseList, Sees, Parsing
    <2> QED BY <1>1, <2>1, Popped DEF PInv, ShortListsSafe
  <1>8. CASE BeginQuoted
    <2> DEFINE at == CurrentToken.start
               f == [fn |-> "quote", list |-> AppendExpr(EmptyVector, QuoteAtom(at)), start |-> at]
    <2>1. /\ Top.fn = "quoting" /\ status = "parsing" /\ UNCHANGED status
          /\ frames' = [frames EXCEPT ![Len(frames)] = f]
      BY <1>8 DEF BeginQuoted, Parsing
    <2>2. IsFrame(f)
      BY EmptySound, AppendExprSound, FrameSound
    <2> HIDE DEF f
    <2> QED BY <1>1, <2>1, <2>2, Replaced DEF PInv, ShortListsSafe
  <1>9. CASE Return
    BY <1>9, ReturnStep
  <1>10. CASE Start \/ Lex \/ SkipBlank \/ ParseAtom \/ UNCHANGED vars
    BY <1>2, <1>10 DEF Start, Lex, SkipBlank, ParseAtom, vars
  <1>11. CASE EndProgram \/ ParserError
    BY <1>3, <1>11 DEF EndProgram, ParserError
  <1> QED BY <1>5, <1>6, <1>7, <1>8, <1>9, <1>10, <1>11 DEF Next

\* For every list capacity and size of an expression: a list is only ever written
\* outside its block when it has grown to its initial capacity.
THEOREM ShortLists == Spec => []ShortListsSafe
PROOF
  <1>1. PInv => ShortListsSafe
    BY DEF PInv
  <1> QED BY <1>1, PInvInit, PInvNext, PTL DEF Spec

-----------------------------------------------------------------------------
(* What may follow *)

\* How many tokens the parser has stepped over: all but the current one, or all
\* while the lexer reads the next.
Passed == IF handler = "idle" /\ tokens # <<>> THEN Len(tokens) - 1 ELSE Len(tokens)

\* An expression is due after a quote.
Awaits == Top.fn \in {"quoting", "quote"} /\ value = NoExpr

ListFrames == {i \in 1 .. Len(frames) : frames[i].fn = "list"}

\* Which activations follow each other.
FramesOrdered ==
  /\ \A i \in 1 .. Len(frames) :
       /\ frames[i].fn \in {"program", "list", "quoting", "quote"}
       /\ frames[i].fn = "program" <=> i = 1
       /\ frames[i].fn = "quoting" => i = Len(frames)
  /\ value # NoExpr => Top.fn # "quoting"

\* The descent agrees with counting: there are as many activations of parse_list
\* as lists are open, and one waits for a quoted expression exactly after a quote.
Descends ==
  /\ \A k \in 1 .. Passed : MayFollow(k)
  /\ Earlier(Passed + 1, "TOKEN_EOF") = {}
  /\ Cardinality(ListFrames) = OpenLists(Passed + 1)
  /\ AfterQuote(Passed + 1) <=> Awaits

Decided ==
  /\ status # "parsing" => handler = "idle"
  /\ status = "failed" => ~MayFollow(Len(tokens))
  /\ status = "parsed" => CurrentToken.type = "TOKEN_EOF" /\ MayFollow(Len(tokens))

DInv == FramesOrdered /\ Descends /\ Decided

LEMMA TokensSequence ==
  ASSUME IInv
  PROVE  tokens \in Seq(Token) /\ Len(tokens) \in Nat /\ (tokens # <<>> => Len(tokens) > 0)
BY DEF IInv, Typed

LEMMA EarlierFinite ==
  ASSUME NEW k \in Nat, NEW type
  PROVE  IsFiniteSet(Earlier(k, type)) /\ Cardinality(Earlier(k, type)) \in Nat
PROOF
  <1>1. IsFiniteSet(1 .. k - 1)
    BY FS_Interval
  <1>2. Earlier(k, type) \subseteq 1 .. k - 1
    BY DEF Earlier
  <1> QED BY <1>1, <1>2, FS_Subset, FS_CardinalityType

\* Stepping over token k.
LEMMA EarlierNext ==
  ASSUME NEW k \in Nat \ {0}, NEW type
  PROVE  /\ tokens[k].type = type => Cardinality(Earlier(k + 1, type)) = Cardinality(Earlier(k, type)) + 1
         /\ tokens[k].type # type => Earlier(k + 1, type) = Earlier(k, type)
PROOF
  <1>1. \A i : i \in 1 .. (k + 1) - 1 <=> i \in 1 .. k - 1 \/ i = k
    OBVIOUS
  <1>2. ASSUME tokens[k].type = type
        PROVE  Cardinality(Earlier(k + 1, type)) = Cardinality(Earlier(k, type)) + 1
    <2>1. Earlier(k + 1, type) = Earlier(k, type) \cup {k}
      BY <1>1, <1>2 DEF Earlier
    <2>2. k \notin Earlier(k, type)
      BY DEF Earlier
    <2> QED BY <2>1, <2>2, EarlierFinite, FS_AddElement
  <1>3. ASSUME tokens[k].type # type PROVE Earlier(k + 1, type) = Earlier(k, type)
    BY <1>1, <1>3 DEF Earlier
  <1> QED BY <1>2, <1>3

LEMMA OpenListsNext ==
  ASSUME NEW k \in Nat \ {0}
  PROVE  /\ OpenLists(k) \in Int
         /\ OpenLists(k + 1) = CASE tokens[k].type = "TOKEN_LPAREN" -> OpenLists(k) + 1
                                 [] tokens[k].type = "TOKEN_RPAREN" -> OpenLists(k) - 1
                                 [] OTHER -> OpenLists(k)
PROOF
  <1> DEFINE l == Cardinality(Earlier(k, "TOKEN_LPAREN"))
             r == Cardinality(Earlier(k, "TOKEN_RPAREN"))
             l1 == Cardinality(Earlier(k + 1, "TOKEN_LPAREN"))
             r1 == Cardinality(Earlier(k + 1, "TOKEN_RPAREN"))
  <1>1. l \in Nat /\ r \in Nat
    BY EarlierFinite
  <1>2. OpenLists(k) = l - r /\ OpenLists(k + 1) = l1 - r1
    BY DEF OpenLists
  <1>3. CASE tokens[k].type = "TOKEN_LPAREN"
    <2>1. l1 = l + 1 /\ r1 = r
      BY <1>3, EarlierNext
    <2> HIDE DEF l, r, l1, r1
    <2> QED BY <1>1, <1>2, <1>3, <2>1
  <1>4. CASE tokens[k].type = "TOKEN_RPAREN"
    <2>1. l1 = l /\ r1 = r + 1
      BY <1>4, EarlierNext
    <2> HIDE DEF l, r, l1, r1
    <2> QED BY <1>1, <1>2, <1>4, <2>1
  <1>5. CASE tokens[k].type \notin {"TOKEN_LPAREN", "TOKEN_RPAREN"}
    <2>1. l1 = l /\ r1 = r
      BY <1>5, EarlierNext
    <2> HIDE DEF l, r, l1, r1
    <2> QED BY <1>1, <1>2, <1>5, <2>1
  <1> QED BY <1>3, <1>4, <1>5

LEMMA AfterQuoteNext ==
  ASSUME NEW k \in Nat \ {0}
  PROVE  AfterQuote(k + 1) <=>
           tokens[k].type = "TOKEN_QUOTE" \/ (~Significant(tokens[k]) /\ AfterQuote(k))
PROOF
  <1>1. \A i : i \in 1 .. (k + 1) - 1 <=> i \in 1 .. k - 1 \/ i = k
    OBVIOUS
  <1>2. ASSUME tokens[k].type = "TOKEN_QUOTE" PROVE AfterQuote(k + 1)
    <2>1. k \in Earlier(k + 1, "TOKEN_QUOTE")
      BY <1>1, <1>2 DEF Earlier
    <2>2. k + 1 .. (k + 1) - 1 = {}
      OBVIOUS
    <2> QED BY <2>1, <2>2 DEF AfterQuote
  <1>3. ASSUME ~Significant(tokens[k]), AfterQuote(k) PROVE AfterQuote(k + 1)
    <2>1. PICK i \in Earlier(k, "TOKEN_QUOTE") : \A j \in i + 1 .. k - 1 : ~Significant(tokens[j])
      BY <1>3 DEF AfterQuote
    <2>2. i \in 1 .. k - 1 /\ i \in Earlier(k + 1, "TOKEN_QUOTE")
      BY <1>1 DEF Earlier
    <2>3. \A j \in i + 1 .. (k + 1) - 1 : j \in i + 1 .. k - 1 \/ j = k
      BY <2>2
    <2> QED BY <1>3, <2>1, <2>2, <2>3 DEF AfterQuote
  <1>4. ASSUME AfterQuote(k + 1), tokens[k].type # "TOKEN_QUOTE"
        PROVE  ~Significant(tokens[k]) /\ AfterQuote(k)
    <2>1. PICK i \in Earlier(k + 1, "TOKEN_QUOTE") : \A j \in i + 1 .. (k + 1) - 1 : ~Significant(tokens[j])
      BY <1>4 DEF AfterQuote
    <2>2. i \in 1 .. k - 1 /\ i \in Earlier(k, "TOKEN_QUOTE")
      BY <1>1, <1>4 DEF Earlier
    <2>3. k \in i + 1 .. (k + 1) - 1 /\ \A j \in i + 1 .. k - 1 : j \in i + 1 .. (k + 1) - 1
      BY <2>2
    <2> QED BY <2>1, <2>2, <2>3 DEF AfterQuote
  <1> QED BY <1>2, <1>3, <1>4

\* What is said of token k depends on the tokens up to it only.
LEMMA SameTokens ==
  ASSUME NEW k \in Nat, \A i \in 1 .. k - 1 : tokens'[i] = tokens[i]
  PROVE  /\ \A type : Earlier(k, type)' = Earlier(k, type)
         /\ OpenLists(k)' = OpenLists(k)
         /\ AfterQuote(k)' <=> AfterQuote(k)
         /\ tokens'[k] = tokens[k] => (MayFollow(k)' <=> MayFollow(k))
PROOF
  <1>1. \A type : Earlier(k, type)' = Earlier(k, type)
    BY DEF Earlier
  <1>2. OpenLists(k)' = OpenLists(k)
    BY <1>1 DEF OpenLists
  <1>3. AfterQuote(k)' <=> AfterQuote(k)
    <2>1. \A i \in Earlier(k, "TOKEN_QUOTE") : \A j \in i + 1 .. k - 1 : tokens'[j] = tokens[j]
      BY DEF Earlier
    <2> QED BY <1>1, <2>1 DEF AfterQuote, Significant
  <1> QED BY <1>1, <1>2, <1>3 DEF MayFollow

\* The innermost activation.
LEMMA TopFrame ==
  ASSUME FramesSound, FramesOrdered
  PROVE  /\ Len(frames) \in Nat /\ Len(frames) > 0 /\ Len(frames) \in 1 .. Len(frames)
         /\ Top.fn \in {"program", "list", "quoting", "quote"}
         /\ Top.fn = "program" <=> Len(frames) = 1
         /\ IsFiniteSet(ListFrames) /\ Cardinality(ListFrames) \in Nat
         /\ Top.fn = "list" => Cardinality(ListFrames) > 0
         /\ Top.fn = "program" => Cardinality(ListFrames) = 0
PROOF
  <1>1. Len(frames) \in Nat /\ Len(frames) > 0 /\ Len(frames) \in 1 .. Len(frames)
    BY SequenceFacts DEF FramesSound
  <1>2. Top.fn \in {"program", "list", "quoting", "quote"} /\ (Top.fn = "program" <=> Len(frames) = 1)
    BY <1>1 DEF FramesOrdered, Top
  <1>3. IsFiniteSet(ListFrames) /\ Cardinality(ListFrames) \in Nat
    <2>1. IsFiniteSet(1 .. Len(frames)) /\ ListFrames \subseteq 1 .. Len(frames)
      BY <1>1, FS_Interval DEF ListFrames
    <2> QED BY <2>1, FS_Subset, FS_CardinalityType
  <1>4. ASSUME Top.fn = "list" PROVE Cardinality(ListFrames) > 0
    <2>1. Len(frames) \in ListFrames
      BY <1>1, <1>4 DEF ListFrames, Top
    <2>2. Cardinality(ListFrames) # 0
      BY <1>3, <2>1, FS_EmptySet
    <2> QED BY <1>3, <2>2
  <1>5. ASSUME Top.fn = "program" PROVE Cardinality(ListFrames) = 0
    <2>1. Len(frames) = 1
      BY <1>2, <1>5
    <2>2. \A i \in 1 .. Len(frames) : frames[i].fn = "program"
      BY <1>2, <1>5, <2>1 DEF Top
    <2>3. ListFrames = {}
      BY <2>2 DEF ListFrames
    <2> QED BY <2>3, FS_EmptySet
  <1> QED BY <1>1, <1>2, <1>3, <1>4, <1>5

LEMMA PushOrdered ==
  ASSUME FramesSound, FramesOrdered, Top.fn # "quoting", NEW f, frames' = Append(frames, f),
         f.fn \in {"list", "quoting"}, value' = NoExpr
  PROVE  /\ FramesOrdered' /\ Top' = f
         /\ Cardinality(ListFrames') = Cardinality(ListFrames) + (IF f.fn = "list" THEN 1 ELSE 0)
PROOF
  <1> DEFINE n == Len(frames)
  <1>1. n \in Nat /\ n > 0 /\ IsSequence(frames)
    BY TopFrame DEF FramesSound
  <1>2. /\ Len(frames') = n + 1
        /\ \A i \in 1 .. n : frames'[i] = frames[i]
        /\ frames'[n + 1] = f
    BY <1>1, AppendAny
  <1>3. \A i \in 1 .. n : frames[i].fn # "quoting"
    BY DEF FramesOrdered, Top
  <1> HIDE DEF n
  <1>4. \A i \in 1 .. n + 1 : i \in 1 .. n \/ i = n + 1
    BY <1>1
  <1>5. Top' = f
    BY <1>2 DEF Top
  <1>6. FramesOrdered'
    <2> SUFFICES ASSUME NEW i \in 1 .. n + 1
                 PROVE  /\ frames'[i].fn \in {"program", "list", "quoting", "quote"}
                        /\ frames'[i].fn = "program" <=> i = 1
                        /\ frames'[i].fn = "quoting" => i = n + 1
      BY <1>2 DEF FramesOrdered
    <2>1. CASE i \in 1 .. n
      BY <1>2, <1>3, <2>1 DEF FramesOrdered, n
    <2>2. CASE i = n + 1
      BY <1>1, <1>2, <2>2
    <2> QED BY <1>4, <2>1, <2>2
  <1>7. \A i \in 1 .. n : i \in 1 .. n + 1 /\ i # n + 1
    BY <1>1
  <1>8. ListFrames' = ListFrames \cup (IF f.fn = "list" THEN {n + 1} ELSE {})
    <2>1. \A i \in 1 .. n + 1 : frames'[i].fn = "list" <=>
            i \in ListFrames \/ (i = n + 1 /\ f.fn = "list")
      BY <1>2, <1>4, <1>7 DEF ListFrames, n
    <2>2. ListFrames' = {i \in 1 .. n + 1 : frames'[i].fn = "list"} /\ ListFrames \subseteq 1 .. n
      BY <1>2 DEF ListFrames, n
    <2>3. n + 1 \in 1 .. n + 1
      BY <1>1
    <2> QED BY <1>7, <2>1, <2>2, <2>3
  <1>9. n + 1 \notin ListFrames
    BY <1>7 DEF ListFrames, n
  <1>10. IsFiniteSet(ListFrames) /\ Cardinality(ListFrames) \in Nat
    BY TopFrame
  <1>11. CASE f.fn = "list"
    <2>1. Cardinality(ListFrames \cup {n + 1}) = Cardinality(ListFrames) + 1
      BY <1>9, <1>10, FS_AddElement
    <2> QED BY <1>5, <1>6, <1>8, <1>11, <2>1
  <1>12. CASE f.fn # "list"
    <2>1. ListFrames' = ListFrames
      BY <1>8, <1>12
    <2> QED BY <1>5, <1>6, <1>10, <1>12, <2>1
  <1> QED BY <1>11, <1>12

LEMMA PopOrdered ==
  ASSUME FramesSound, FramesOrdered, Top.fn \in {"list", "quote"}, frames' = Pop
  PROVE  /\ FramesOrdered' /\ Top'.fn # "quoting"
         /\ Cardinality(ListFrames') = Cardinality(ListFrames) - (IF Top.fn = "list" THEN 1 ELSE 0)
PROOF
  <1> DEFINE n == Len(frames)
  <1>1. n \in Nat /\ n > 1 /\ IsSequence(frames)
    <2>1. n \in Nat /\ n > 0 /\ n # 1
      BY TopFrame
    <2> HIDE DEF n
    <2>2. n > 1
      BY <2>1
    <2> QED BY <2>1, <2>2 DEF FramesSound
  <1>2. Len(frames') = n - 1 /\ \A i \in 1 .. n - 1 : frames'[i] = frames[i]
    BY <1>1, FrontAny DEF Pop
  <1> HIDE DEF n
  <1>3. \A i \in 1 .. n : i \in 1 .. n - 1 \/ i = n
    BY <1>1
  <1>4. \A i \in 1 .. n - 1 : i \in 1 .. n /\ i # n
    BY <1>1
  <1>5. \A i \in 1 .. n - 1 : frames'[i].fn # "quoting"
    BY <1>2, <1>4 DEF FramesOrdered, n
  <1>6. n - 1 \in 1 .. n - 1
    BY <1>1
  <1>7. Top'.fn # "quoting"
    BY <1>2, <1>5, <1>6 DEF Top
  <1>8. FramesOrdered'
    <2> SUFFICES ASSUME NEW i \in 1 .. n - 1
                 PROVE  /\ frames'[i].fn \in {"program", "list", "quoting", "quote"}
                        /\ frames'[i].fn = "program" <=> i = 1
                        /\ frames'[i].fn = "quoting" => i = n - 1
      BY <1>2, <1>7 DEF FramesOrdered
    <2> QED BY <1>2, <1>4, <1>5 DEF FramesOrdered, n
  <1>9. ListFrames' = ListFrames \ (IF Top.fn = "list" THEN {n} ELSE {})
    <2>1. ListFrames' = {i \in 1 .. n - 1 : frames[i].fn = "list"}
      BY <1>2 DEF ListFrames
    <2>2. ListFrames = {i \in 1 .. n : frames[i].fn = "list"} /\ Top = frames[n]
      BY DEF ListFrames, Top, n
    <2> QED BY <1>3, <1>4, <2>1, <2>2
  <1>10. Top.fn = "list" => n \in ListFrames
    <2>1. n \in 1 .. n
      BY <1>1
    <2> QED BY <2>1 DEF ListFrames, Top, n
  <1>11. CASE Top.fn = "list"
    <2>1. Cardinality(ListFrames \ {n}) = Cardinality(ListFrames) - 1
      BY <1>10, <1>11, TopFrame, FS_RemoveElement
    <2> QED BY <1>7, <1>8, <1>9, <1>11, <2>1
  <1>12. CASE Top.fn # "list"
    <2>1. ListFrames' = ListFrames
      BY <1>9, <1>12
    <2> QED BY <1>7, <1>8, <1>12, <2>1, TopFrame
  <1> QED BY <1>11, <1>12

LEMMA ReplaceOrdered ==
  ASSUME FramesSound, FramesOrdered, NEW f, frames' = [frames EXCEPT ![Len(frames)] = f],
         f.fn = Top.fn \/ (f.fn = "quote" /\ Top.fn = "quoting"),
         value' # NoExpr => f.fn # "quoting"
  PROVE  FramesOrdered' /\ Top' = f /\ ListFrames' = ListFrames
PROOF
  <1> DEFINE n == Len(frames)
  <1>1. n \in Nat /\ n > 0 /\ IsSequence(frames) /\ n \in 1 .. n
    BY TopFrame DEF FramesSound
  <1>2. Len(frames') = n /\ \A i \in 1 .. n : frames'[i] = IF i = n THEN f ELSE frames[i]
    BY <1>1, ReplaceLast
  <1> HIDE DEF n
  <1>3. Top' = f
    BY <1>1, <1>2 DEF Top
  <1>4. Top = frames[n]
    BY DEF Top, n
  <1>5. FramesOrdered'
    <2> SUFFICES ASSUME NEW i \in 1 .. n
                 PROVE  /\ frames'[i].fn \in {"program", "list", "quoting", "quote"}
                        /\ frames'[i].fn = "program" <=> i = 1
                        /\ frames'[i].fn = "quoting" => i = n
      BY <1>2, <1>3 DEF FramesOrdered
    <2>1. /\ frames[i].fn \in {"program", "list", "quoting", "quote"}
          /\ frames[i].fn = "program" <=> i = 1
          /\ frames[i].fn = "quoting" => i = n
      BY DEF FramesOrdered, n
    <2> QED BY <1>2, <1>4, <2>1
  <1>6. \A i \in 1 .. n : frames'[i].fn = "list" <=> frames[i].fn = "list"
    BY <1>2, <1>4
  <1>7. ListFrames' = ListFrames
    <2>1. ListFrames' = {i \in 1 .. n : frames'[i].fn = "list"} /\ ListFrames = {i \in 1 .. n : frames[i].fn = "list"}
      BY <1>2 DEF ListFrames, n
    <2> QED BY <1>6, <2>1
  <1> QED BY <1>3, <1>5, <1>7

\* The parser steps over the current token, which may stand where it does.
LEMMA Stepped ==
  ASSUME IInv, Descends, handler = "idle", tokens # <<>>, LexerCall,
         MayFollow(Len(tokens)), CurrentToken.type # "TOKEN_EOF"
  PROVE  /\ (\A k \in 1 .. Passed : MayFollow(k))'
         /\ (Earlier(Passed + 1, "TOKEN_EOF") = {})'
         /\ OpenLists(Passed + 1) \in Int
         /\ OpenLists(Passed + 1)' = CASE CurrentToken.type = "TOKEN_LPAREN" -> OpenLists(Passed + 1) + 1
                                       [] CurrentToken.type = "TOKEN_RPAREN" -> OpenLists(Passed + 1) - 1
                                       [] OTHER -> OpenLists(Passed + 1)
         /\ AfterQuote(Passed + 1)' <=>
              \/ CurrentToken.type = "TOKEN_QUOTE"
              \/ ~Significant(CurrentToken) /\ AfterQuote(Passed + 1)
PROOF
  <1> PICK n \in Nat : n = Len(tokens)
    BY TokensSequence
  <1>1. n \in Nat /\ n > 0
    BY TokensSequence
  <1>2. tokens' = tokens /\ handler' = "call"
    BY DEF LexerCall
  <1>3. Passed = n - 1 /\ Passed' = n
    BY <1>2 DEF Passed
  <1>4. CurrentToken = tokens[n]
    BY DEF CurrentToken
  <1>5. n \in Nat \ {0} /\ Passed + 1 = n
    BY <1>1, <1>3
  <1>6. \A k \in Nat : MayFollow(k)' <=> MayFollow(k)
    BY <1>2, SameTokens
  <1>7. (\A k \in 1 .. Passed : MayFollow(k))'
    <2> SUFFICES ASSUME NEW k \in 1 .. n PROVE MayFollow(k)'
      BY <1>3
    <2>1. MayFollow(k)
      <3>1. CASE k = n
        BY <3>1
      <3>2. CASE k # n
        <4>1. k \in 1 .. n - 1
          BY <1>1, <3>2
        <4> QED BY <1>3, <4>1 DEF Descends
      <3> QED BY <3>1, <3>2
    <2> QED BY <1>6, <2>1
  <1>8. /\ \A type : Earlier(n + 1, type)' = Earlier(n + 1, type)
        /\ OpenLists(n + 1)' = OpenLists(n + 1)
        /\ AfterQuote(n + 1)' <=> AfterQuote(n + 1)
    BY <1>1, <1>2, SameTokens
  <1>9. (Earlier(Passed + 1, "TOKEN_EOF") = {})'
    <2>1. Earlier(n, "TOKEN_EOF") = {}
      BY <1>5 DEF Descends
    <2>2. Earlier(n + 1, "TOKEN_EOF") = {}
      BY <1>4, <1>5, <2>1, EarlierNext
    <2> QED BY <1>3, <1>8, <2>2
  <1>10. /\ OpenLists(Passed + 1)' = OpenLists(n + 1) /\ OpenLists(Passed + 1) = OpenLists(n)
         /\ AfterQuote(Passed + 1)' <=> AfterQuote(n + 1)
         /\ AfterQuote(Passed + 1) <=> AfterQuote(n)
    BY <1>3, <1>5, <1>8
  <1>11. OpenLists(n) \in Int
    BY <1>5, OpenListsNext
  <1>12. OpenLists(n + 1) = CASE tokens[n].type = "TOKEN_LPAREN" -> OpenLists(n) + 1
                              [] tokens[n].type = "TOKEN_RPAREN" -> OpenLists(n) - 1
                              [] OTHER -> OpenLists(n)
    BY <1>5, OpenListsNext
  <1>13. AfterQuote(n + 1) <=> tokens[n].type = "TOKEN_QUOTE" \/ (~Significant(tokens[n]) /\ AfterQuote(n))
    BY <1>5, AfterQuoteNext
  <1> QED BY <1>4, <1>7, <1>9, <1>10, <1>11, <1>12, <1>13

\* While the lexer reads, nothing is stepped over.
LEMMA Lexed ==
  ASSUME IInv, DInv, handler # "idle", UNCHANGED <<frames, value, status>>,
         \/ tokens' = tokens /\ handler' # "idle"
         \/ \E t : tokens' = Append(tokens, t) /\ handler' = "idle"
  PROVE  DInv'
PROOF
  <1> PICK n \in Nat : n = Len(tokens)
    BY TokensSequence
  <1>1. n \in Nat /\ tokens \in Seq(Token) /\ IsSequence(tokens)
    BY TokensSequence DEF IsSequence
  <1>2. Passed = n /\ Passed' = n /\ \A i \in 1 .. n : tokens'[i] = tokens[i]
    <2>1. CASE tokens' = tokens /\ handler' # "idle"
      BY <2>1 DEF Passed
    <2>2. CASE \E t : tokens' = Append(tokens, t) /\ handler' = "idle"
      <3>1. PICK t : tokens' = Append(tokens, t) /\ handler' = "idle"
        BY <2>2
      <3>2. Len(tokens') = n + 1 /\ \A i \in 1 .. n : tokens'[i] = tokens[i]
        BY <1>1, <3>1, AppendAny
      <3>3. tokens' # <<>>
        BY <1>1, <3>2
      <3>4. (n + 1) - 1 = n
        BY <1>1
      <3> QED BY <3>1, <3>2, <3>3, <3>4 DEF Passed
    <2> QED BY <2>1, <2>2
  <1>3. \A k \in 1 .. n + 1 : k \in Nat /\ \A i \in 1 .. k - 1 : i \in 1 .. n
    BY <1>1
  <1>4. \A k \in 1 .. n : k \in 1 .. n + 1
    BY <1>1
  <1>5. \A k \in 1 .. n : MayFollow(k)'
    <2> SUFFICES ASSUME NEW k \in 1 .. n PROVE MayFollow(k)'
      OBVIOUS
    <2>1. k \in Nat /\ \A i \in 1 .. k - 1 : tokens'[i] = tokens[i]
      BY <1>2, <1>3, <1>4
    <2>2. MayFollow(k)
      BY <1>2 DEF DInv, Descends
    <2> QED BY <1>2, <2>1, <2>2, SameTokens
  <1>6. /\ Earlier(n + 1, "TOKEN_EOF")' = Earlier(n + 1, "TOKEN_EOF")
        /\ OpenLists(n + 1)' = OpenLists(n + 1)
        /\ AfterQuote(n + 1)' <=> AfterQuote(n + 1)
    <2>1. n + 1 \in 1 .. n + 1
      BY <1>1
    <2> QED BY <1>2, <1>3, <2>1, SameTokens
  <1>7. UNCHANGED ListFrames /\ (Awaits' <=> Awaits)
    BY DEF ListFrames, Awaits, Top
  <1>8. Descends'
    BY <1>2, <1>5, <1>6, <1>7 DEF DInv, Descends
  <1>9. FramesOrdered'
    BY DEF DInv, FramesOrdered, Top
  <1>10. Decided'
    <2>1. status = "parsing" /\ status' = "parsing"
      BY DEF DInv, Decided
    <2> QED BY <2>1 DEF Decided
  <1> QED BY <1>8, <1>9, <1>10 DEF DInv

LEMMA LexerSteps ==
  ASSUME LexerStep
  PROVE  /\ handler # "idle"
         /\ \/ tokens' = tokens /\ handler' # "idle"
            \/ handler \in Handlers /\ handler' = "idle" /\ \E t : t.start = start /\ tokens' = Append(tokens, t)
PROOF
  <1>1. Scanned \subseteq Handlers /\ Single \subseteq Handlers /\ "TOKEN_ERROR" \in Handlers
        /\ "idle" \notin Handlers
    BY DEF Handlers, Scanned, Single
  <1>2. ASSUME NEW type, NEW lexeme, NEW to, Returns(type, lexeme, to)
        PROVE  handler' = "idle" /\ \E t : t.start = start /\ tokens' = Append(tokens, t)
    <2> DEFINE t == [type |-> type, lexeme |-> lexeme, start |-> start, end |-> to, upto |-> current_pos']
    <2>1. tokens' = Append(tokens, t) /\ handler' = "idle" /\ t.start = start
      BY <1>2 DEF Returns
    <2> HIDE DEF t
    <2> QED BY <2>1
  <1>3. CASE Dispatch
    <2>1. handler = "call" /\ handler' \in Handlers /\ tokens' = tokens
      BY <1>3, HandlerForType DEF Dispatch
    <2> QED BY <1>1, <2>1
  <1>4. CASE Scan
    BY <1>1, <1>4 DEF Scan
  <1>5. CASE FinishScan
    <2>1. handler \in Handlers /\ \/ Returns("TOKEN_ERROR", <<"Unterminated string literal">>, end)
                                  \/ Returns(handler, Lexeme, end)
      BY <1>1, <1>5 DEF FinishScan
    <2> QED BY <1>1, <1>2, <2>1
  <1>6. CASE FinishSymbol
    <2>1. handler \in Handlers /\ \E type \in {"TOKEN_NUMBER", "TOKEN_SYMBOL"} : Returns(type, Lexeme, end)
      BY <1>1, <1>6 DEF FinishSymbol, Scanned
    <2> QED BY <1>1, <1>2, <2>1
  <1>7. CASE SingleChar
    <2>1. handler \in Handlers /\ \E lexeme : Returns(handler, lexeme, end')
      BY <1>1, <1>7 DEF SingleChar
    <2> QED BY <1>1, <1>2, <2>1
  <1>8. CASE IllegalChar
    <2>1. handler \in Handlers /\ \E lexeme : Returns("TOKEN_ERROR", lexeme, end)
      BY <1>1, <1>8 DEF IllegalChar
    <2> QED BY <1>1, <1>2, <2>1
  <1> QED BY <1>3, <1>4, <1>5, <1>6, <1>7, <1>8 DEF LexerStep

\* What the parser knows of the current token.
LEMMA CurrentMayFollow ==
  ASSUME IInv, DInv, handler = "idle", tokens # <<>>
  PROVE  MayFollow(Len(tokens)) <=>
           /\ CurrentToken.type # "TOKEN_ERROR"
           /\ CurrentToken.type = "TOKEN_RPAREN" => Cardinality(ListFrames) > 0 /\ ~Awaits
           /\ CurrentToken.type = "TOKEN_EOF" => Cardinality(ListFrames) = 0 /\ ~Awaits
PROOF
  <1> PICK n \in Nat : n = Len(tokens)
    BY TokensSequence
  <1>1. Passed + 1 = n
    BY DEF Passed
  <1>2. /\ Cardinality(ListFrames) = OpenLists(n) /\ (AfterQuote(n) <=> Awaits)
        /\ Earlier(n, "TOKEN_EOF") = {}
    BY <1>1 DEF DInv, Descends
  <1> QED BY <1>2 DEF MayFollow, CurrentToken

LEMMA PassStep ==
  ASSUME IInv, DInv, Parsing, tokens # <<>>, LexerCall, UNCHANGED status,
         MayFollow(Len(tokens)), CurrentToken.type # "TOKEN_EOF", FramesOrdered',
         Cardinality(ListFrames') = CASE CurrentToken.type = "TOKEN_LPAREN" -> Cardinality(ListFrames) + 1
                                      [] CurrentToken.type = "TOKEN_RPAREN" -> Cardinality(ListFrames) - 1
                                      [] OTHER -> Cardinality(ListFrames),
         Awaits' <=> \/ CurrentToken.type = "TOKEN_QUOTE"
                     \/ ~Significant(CurrentToken) /\ Awaits
  PROVE  DInv'
PROOF
  <1>1. handler = "idle" /\ status' = "parsing" /\ Descends
    BY DEF Parsing, DInv
  <1>2. /\ (\A k \in 1 .. Passed : MayFollow(k))'
        /\ (Earlier(Passed + 1, "TOKEN_EOF") = {})'
        /\ OpenLists(Passed + 1)' = CASE CurrentToken.type = "TOKEN_LPAREN" -> OpenLists(Passed + 1) + 1
                                      [] CurrentToken.type = "TOKEN_RPAREN" -> OpenLists(Passed + 1) - 1
                                      [] OTHER -> OpenLists(Passed + 1)
        /\ AfterQuote(Passed + 1)' <=>
             \/ CurrentToken.type = "TOKEN_QUOTE"
             \/ ~Significant(CurrentToken) /\ AfterQuote(Passed + 1)
    BY <1>1, Stepped
  <1>3. Cardinality(ListFrames) = OpenLists(Passed + 1) /\ (AfterQuote(Passed + 1) <=> Awaits)
    BY DEF DInv, Descends
  <1>4. Descends'
    <2>1. (Cardinality(ListFrames) = OpenLists(Passed + 1))'
      BY <1>2, <1>3
    <2>2. (AfterQuote(Passed + 1) <=> Awaits)'
      BY <1>2, <1>3
    <2> QED BY <1>2, <2>1, <2>2 DEF Descends
  <1> QED BY <1>1, <1>4 DEF DInv, Decided

LEMMA SeesFacts ==
  ASSUME NEW types, Sees(types)
  PROVE  /\ Parsing /\ handler = "idle" /\ status = "parsing" /\ tokens # <<>> /\ value = NoExpr
         /\ CurrentToken.type \in types
BY DEF Sees, Parsing

\* White space, comments and atoms.
LEMMA SkipBlankDescends == IInv /\ FramesSound /\ DInv /\ SkipBlank => DInv'
PROOF
  <1> SUFFICES ASSUME IInv, FramesSound, DInv, SkipBlank PROVE DInv'
    OBVIOUS
  <1>1. /\ CurrentToken.type \in {"TOKEN_WHITESPACE", "TOKEN_COMMENT"}
        /\ Parsing /\ handler = "idle" /\ tokens # <<>>
        /\ LexerCall /\ UNCHANGED <<frames, value, status>>
    BY SeesFacts DEF SkipBlank, ParserAdvance
  <1>2. ~Significant(CurrentToken) /\ MayFollow(Len(tokens))
    BY <1>1, CurrentMayFollow DEF Significant
  <1>3. UNCHANGED ListFrames /\ (Awaits' <=> Awaits) /\ FramesOrdered'
    BY <1>1 DEF ListFrames, Awaits, Top, FramesOrdered, DInv
  <1> QED BY <1>1, <1>2, <1>3, PassStep

LEMMA ParseAtomDescends == IInv /\ FramesSound /\ DInv /\ ParseAtom => DInv'
PROOF
  <1> SUFFICES ASSUME IInv, FramesSound, DInv, ParseAtom PROVE DInv'
    OBVIOUS
  <1>1. /\ CurrentToken.type \in {"TOKEN_SYMBOL", "TOKEN_NUMBER", "TOKEN_STRING"}
        /\ Parsing /\ handler = "idle" /\ tokens # <<>> /\ Top.fn # "quoting"
        /\ value' = Atom(CurrentToken) /\ LexerCall /\ UNCHANGED <<frames, status>>
    BY SeesFacts DEF ParseAtom, ParserAdvance
  <1>2. Significant(CurrentToken) /\ MayFollow(Len(tokens))
    BY <1>1, CurrentMayFollow DEF Significant
  <1>3. value' # NoExpr
    BY <1>1 DEF Atom, NoExpr
  <1>4. UNCHANGED ListFrames /\ ~Awaits' /\ FramesOrdered'
    BY <1>1, <1>3 DEF ListFrames, Awaits, Top, FramesOrdered, DInv
  <1> QED BY <1>1, <1>2, <1>4, PassStep

LEMMA OpenListDescends == IInv /\ FramesSound /\ DInv /\ OpenList => DInv'
PROOF
  <1> SUFFICES ASSUME IInv, FramesSound, DInv, OpenList PROVE DInv'
    OBVIOUS
  <1> DEFINE f == Frame("list", CurrentToken.start)
  <1>1. /\ CurrentToken.type = "TOKEN_LPAREN"
        /\ Parsing /\ handler = "idle" /\ tokens # <<>> /\ Top.fn # "quoting" /\ value' = NoExpr
        /\ frames' = Append(frames, f) /\ LexerCall /\ UNCHANGED status
    BY SeesFacts DEF OpenList, ParserAdvance
  <1>2. f.fn = "list"
    BY DEF Frame
  <1> HIDE DEF f
  <1>3. Significant(CurrentToken) /\ MayFollow(Len(tokens))
    BY <1>1, CurrentMayFollow DEF Significant
  <1>4. FramesOrdered' /\ Top' = f /\ Cardinality(ListFrames') = Cardinality(ListFrames) + 1
    BY <1>1, <1>2, PushOrdered DEF DInv
  <1>5. ~Awaits'
    BY <1>2, <1>4 DEF Awaits
  <1> QED BY <1>1, <1>3, <1>4, <1>5, PassStep

LEMMA QuoteDescends == IInv /\ FramesSound /\ DInv /\ Quote => DInv'
PROOF
  <1> SUFFICES ASSUME IInv, FramesSound, DInv, Quote PROVE DInv'
    OBVIOUS
  <1> DEFINE f == Frame("quoting", CurrentToken.start)
  <1>1. /\ CurrentToken.type = "TOKEN_QUOTE"
        /\ Parsing /\ handler = "idle" /\ tokens # <<>> /\ Top.fn # "quoting" /\ value' = NoExpr
        /\ frames' = Append(frames, f) /\ LexerCall /\ UNCHANGED status
    BY SeesFacts DEF Quote, ParserAdvance
  <1>2. f.fn = "quoting"
    BY DEF Frame
  <1> HIDE DEF f
  <1>3. MayFollow(Len(tokens))
    BY <1>1, CurrentMayFollow
  <1>4. FramesOrdered' /\ Top' = f /\ Cardinality(ListFrames') = Cardinality(ListFrames)
    BY <1>1, <1>2, PushOrdered, TopFrame DEF DInv
  <1>5. Awaits'
    BY <1>1, <1>2, <1>4 DEF Awaits
  <1> QED BY <1>1, <1>3, <1>4, <1>5, PassStep

LEMMA CloseListDescends == IInv /\ FramesSound /\ DInv /\ CloseList => DInv'
PROOF
  <1> SUFFICES ASSUME IInv, FramesSound, DInv, CloseList PROVE DInv'
    OBVIOUS
  <1>1. /\ CurrentToken.type = "TOKEN_RPAREN"
        /\ Parsing /\ handler = "idle" /\ tokens # <<>> /\ Top.fn = "list"
        /\ frames' = Pop /\ LexerCall /\ UNCHANGED status
        /\ value' = List(Top.list.elements, Top.start, CurrentToken.end)
    BY SeesFacts DEF CloseList, ParserAdvance
  <1>2. value' # NoExpr
    BY <1>1 DEF List, NoExpr
  <1>3. Significant(CurrentToken) /\ ~Awaits /\ ~Awaits'
    BY <1>1, <1>2 DEF Significant, Awaits
  <1>4. MayFollow(Len(tokens))
    BY <1>1, <1>3, CurrentMayFollow, TopFrame DEF DInv
  <1>5. FramesOrdered' /\ Cardinality(ListFrames') = Cardinality(ListFrames) - 1
    BY <1>1, PopOrdered DEF DInv
  <1> QED BY <1>1, <1>3, <1>4, <1>5, PassStep

\* The steps between two tokens.
LEMMA SameCall ==
  ASSUME UNCHANGED lexer, DInv, UNCHANGED status, FramesOrdered',
         Cardinality(ListFrames') = Cardinality(ListFrames), Awaits' <=> Awaits
  PROVE  DInv'
PROOF
  <1>1. tokens' = tokens /\ handler' = handler
    BY DEF lexer
  <1>2. Passed' = Passed
    BY <1>1 DEF Passed
  <1>3. Descends'
    BY <1>1, <1>2 DEF DInv, Descends, MayFollow, OpenLists, AfterQuote, Earlier
  <1>4. Decided'
    BY <1>1 DEF DInv, Decided, CurrentToken, MayFollow, OpenLists, AfterQuote, Earlier
  <1> QED BY <1>3, <1>4 DEF DInv

LEMMA BeginQuotedDescends == FramesSound /\ DInv /\ BeginQuoted => DInv'
PROOF
  <1> SUFFICES ASSUME FramesSound, DInv, BeginQuoted PROVE DInv'
    OBVIOUS
  <1> DEFINE at == CurrentToken.start
             f == [fn |-> "quote", list |-> AppendExpr(EmptyVector, QuoteAtom(at)), start |-> at]
  <1>1. Top.fn = "quoting" /\ frames' = [frames EXCEPT ![Len(frames)] = f] /\ UNCHANGED <<lexer, value, status>>
    BY DEF BeginQuoted
  <1>2. f.fn = "quote"
    OBVIOUS
  <1> HIDE DEF f
  <1>3. value = NoExpr /\ value' = NoExpr
    BY <1>1 DEF DInv, FramesOrdered
  <1>4. FramesOrdered' /\ Top' = f /\ ListFrames' = ListFrames
    BY <1>1, <1>2, ReplaceOrdered DEF DInv
  <1>5. Awaits' <=> Awaits
    BY <1>1, <1>2, <1>3, <1>4 DEF Awaits
  <1> QED BY <1>1, <1>4, <1>5, SameCall

LEMMA ReturnDescends == FramesSound /\ DInv /\ Return => DInv'
PROOF
  <1> SUFFICES ASSUME FramesSound, DInv, Return PROVE DInv'
    OBVIOUS
  <1> DEFINE v == AppendExpr(Top.list, value)
  <1>1. /\ status = "parsing" /\ handler = "idle" /\ value # NoExpr /\ UNCHANGED lexer
        /\ tokens' = tokens /\ handler' = handler
    BY DEF Return, Parsing, lexer
  <1>2. Top.fn # "quoting" /\ ~Awaits
    BY <1>1 DEF DInv, FramesOrdered, Awaits
  <1>3. CASE Overrun(v)
    <2>1. status' = "undefined" /\ UNCHANGED <<frames, value>>
      BY <1>3 DEF Return
    <2>2. FramesOrdered'
      BY <2>1 DEF DInv, FramesOrdered, Top
    <2>3. Descends'
      BY <1>1, <2>1 DEF DInv, Descends, ListFrames, Awaits, Top, Passed, MayFollow, OpenLists, AfterQuote, Earlier
    <2>4. Decided'
      BY <1>1, <2>1 DEF Decided
    <2> QED BY <2>2, <2>3, <2>4 DEF DInv
  <1>4. CASE ~Overrun(v) /\ Top.fn = "quote"
    <2>1. frames' = Pop /\ UNCHANGED status /\ value' = List(v.elements, Top.start, CurrentToken.end)
      BY <1>4 DEF Return
    <2>2. value' # NoExpr
      BY <2>1 DEF List, NoExpr
    <2>3. FramesOrdered' /\ Cardinality(ListFrames') = Cardinality(ListFrames)
      BY <1>4, <2>1, PopOrdered, TopFrame DEF DInv
    <2>4. ~Awaits'
      BY <2>2 DEF Awaits
    <2> QED BY <1>1, <1>2, <2>1, <2>3, <2>4, SameCall
  <1>5. CASE ~Overrun(v) /\ Top.fn # "quote"
    <2>1. frames' = [frames EXCEPT ![Len(frames)] = [Top EXCEPT !.list = v]] /\ UNCHANGED status /\ value' = NoExpr
      BY <1>5 DEF Return, Top
    <2> DEFINE f == [Top EXCEPT !.list = v]
    <2>2. f.fn = Top.fn
      BY TopSound DEF IsFrame
    <2> HIDE DEF f
    <2>3. FramesOrdered' /\ Top' = f /\ ListFrames' = ListFrames
      BY <2>1, <2>2, ReplaceOrdered DEF DInv, f
    <2>4. ~Awaits'
      BY <1>2, <1>5, <2>2, <2>3 DEF Awaits
    <2> QED BY <1>1, <1>2, <2>1, <2>3, <2>4, SameCall
  <1> QED BY <1>3, <1>4, <1>5

\* The ends.
LEMMA EndDescends ==
  ASSUME IInv, FramesSound, DInv, EndProgram \/ ParserError
  PROVE  DInv'
PROOF
  <1>1. /\ handler = "idle" /\ tokens # <<>> /\ value = NoExpr
        /\ UNCHANGED <<lexer, frames, value>>
    BY SeesFacts DEF EndProgram, ParserError
  <1>2. UNCHANGED <<tokens, handler>>
    BY <1>1 DEF lexer
  <1>3. FramesOrdered' /\ Descends'
    <2>1. FramesOrdered' /\ UNCHANGED ListFrames /\ (Awaits' <=> Awaits)
      BY <1>1 DEF DInv, FramesOrdered, ListFrames, Awaits, Top
    <2>2. Passed' = Passed
      BY <1>2 DEF Passed
    <2> QED BY <1>2, <2>1, <2>2 DEF DInv, Descends, MayFollow, OpenLists, AfterQuote, Earlier
  <1>4. (MayFollow(Len(tokens))' <=> MayFollow(Len(tokens))) /\ CurrentToken' = CurrentToken
    BY <1>2 DEF MayFollow, OpenLists, AfterQuote, Earlier, CurrentToken
  <1>5. CASE EndProgram
    <2>1. CurrentToken.type = "TOKEN_EOF" /\ Top.fn = "program" /\ status' = "parsed"
      BY <1>5, SeesFacts DEF EndProgram
    <2>2. Cardinality(ListFrames) = 0 /\ ~Awaits
      BY <2>1, TopFrame DEF DInv, Awaits
    <2>3. MayFollow(Len(tokens))
      BY <1>1, <2>1, <2>2, CurrentMayFollow
    <2> QED BY <1>1, <1>2, <1>3, <1>4, <2>1, <2>3 DEF DInv, Decided
  <1>6. CASE ParserError
    <2>1. status' = "failed"
      BY <1>6 DEF ParserError
    <2>2. \/ CurrentToken.type = "TOKEN_RPAREN" /\ Top.fn \in {"program", "quote"}
          \/ CurrentToken.type = "TOKEN_EOF" /\ Top.fn \in {"list", "quote"}
          \/ CurrentToken.type = "TOKEN_ERROR"
      BY <1>6, SeesFacts DEF ParserError
    <2>3. Top.fn = "quote" => Awaits
      BY <1>1 DEF Awaits
    <2>4. /\ Top.fn = "program" => ~(Cardinality(ListFrames) > 0)
          /\ Top.fn = "list" => Cardinality(ListFrames) # 0
      BY TopFrame DEF DInv
    <2>5. ~MayFollow(Len(tokens))
      BY <1>1, <2>2, <2>3, <2>4, CurrentMayFollow
    <2> QED BY <1>1, <1>2, <1>3, <1>4, <2>1, <2>5 DEF DInv, Decided
  <1> QED BY <1>5, <1>6

LEMMA StartDescends == DInv /\ Start => DInv'
PROOF
  <1> SUFFICES ASSUME DInv, Start PROVE DInv'
    OBVIOUS
  <1>1. /\ handler = "idle" /\ tokens = <<>> /\ tokens' = <<>> /\ status = "parsing"
        /\ UNCHANGED <<frames, value, status>>
    BY DEF Start, Parsing, ParserAdvance, LexerCall
  <1>2. Passed = 0 /\ Passed' = 0
    BY <1>1 DEF Passed
  <1>3. Descends'
    BY <1>1, <1>2 DEF DInv, Descends, ListFrames, Awaits, Top, MayFollow, OpenLists, AfterQuote, Earlier
  <1> QED BY <1>1, <1>3 DEF DInv, FramesOrdered, Top, Decided

LEMMA DInvInit == Init => DInv
PROOF
  <1> SUFFICES ASSUME Init PROVE DInv
    OBVIOUS
  <1>1. /\ Len(frames) = 1 /\ frames[1].fn = "program" /\ Top.fn = "program"
        /\ status = "parsing" /\ tokens = <<>> /\ value = NoExpr
    BY DEF Init, Frame, LexerInit, Top
  <1>2. FramesOrdered
    BY <1>1 DEF FramesOrdered
  <1>3. Passed = 0 /\ ListFrames = {} /\ ~Awaits
    BY <1>1 DEF Passed, ListFrames, Awaits
  <1>4. \A type : Earlier(1, type) = {}
    BY DEF Earlier
  <1>5. OpenLists(1) = 0 /\ ~AfterQuote(1)
    BY <1>4, FS_EmptySet DEF OpenLists, AfterQuote
  <1>6. Descends
    BY <1>3, <1>4, <1>5, FS_EmptySet DEF Descends
  <1> QED BY <1>1, <1>2, <1>6 DEF DInv, Decided

LEMMA DInvNext == IInv /\ FramesSound /\ DInv /\ [Next]_vars => DInv'
PROOF
  <1> SUFFICES ASSUME IInv, FramesSound, DInv, [Next]_vars PROVE DInv'
    OBVIOUS
  <1>1. CASE Lex
    <2>1. LexerStep /\ UNCHANGED <<frames, value, status>>
      BY <1>1 DEF Lex
    <2> QED BY <2>1, LexerSteps, Lexed
  <1>2. CASE UNCHANGED vars
    <2>1. UNCHANGED <<lexer, frames, value, status>>
      BY <1>2 DEF vars
    <2>2. FramesOrdered' /\ UNCHANGED ListFrames /\ (Awaits' <=> Awaits)
      BY <2>1 DEF DInv, FramesOrdered, ListFrames, Awaits, Top
    <2> QED BY <2>1, <2>2, SameCall
  <1>3. CASE Start \/ SkipBlank \/ ParseAtom \/ OpenList \/ CloseList \/ Quote
    BY <1>3, StartDescends, SkipBlankDescends, ParseAtomDescends, OpenListDescends, CloseListDescends,
       QuoteDescends
  <1>4. CASE BeginQuoted \/ Return \/ EndProgram \/ ParserError
    BY <1>4, BeginQuotedDescends, ReturnDescends, EndDescends
  <1> QED BY <1>1, <1>2, <1>3, <1>4 DEF Next

\* The descent implies the property: of the tokens it has not stepped over there
\* is only the current one.
LEMMA DInvRejects == IInv /\ DInv => RejectsAtFirstError
PROOF
  <1> SUFFICES ASSUME IInv, DInv PROVE RejectsAtFirstError
    OBVIOUS
  <1> PICK n \in Nat : n = Len(tokens)
    BY TokensSequence
  <1>1. \A k \in 1 .. n - 1 : k \in 1 .. Passed
    BY DEF Passed
  <1>2. \A k \in 1 .. n - 1 : MayFollow(k)
    BY <1>1 DEF DInv, Descends
  <1> QED BY <1>2 DEF RejectsAtFirstError, DInv, Decided

\* For every text: the parser accepts what the grammar allows, goes on as long as
\* some program can, and reports an error at the first token where none can.
THEOREM ErrorsFoundAtOnce == Spec => []RejectsAtFirstError
PROOF
  <1>1. Spec => []IInv
    BY ParserDrivesLexer, LexerInvariant, PTL
  <1>2. Spec => []PInv
    BY PInvInit, PInvNext, PTL DEF Spec
  <1>3. PInv => FramesSound
    BY DEF PInv
  <1>4. Spec => []DInv
    BY <1>1, <1>2, <1>3, DInvInit, DInvNext, PTL DEF Spec
  <1> QED BY <1>1, <1>4, DInvRejects, PTL

-----------------------------------------------------------------------------
(* Positions of expressions *)

Position == Nat \X Nat

LastStart == IF tokens = <<>> THEN <<1, 1>> ELSE CurrentToken.start

\* Frame f started at or before p, so did its elements, one after the other, and
\* they end at or before q.
Spans(f, p, q) ==
  /\ f.start \in Position /\ AtOrBefore(f.start, p)
  /\ \A i \in 1 .. Len(f.list.elements) :
       /\ f.list.elements[i].start \in Position
       /\ f.list.elements[i].end \in Position
       /\ AtOrBefore(f.start, f.list.elements[i].start)
       /\ AtOrBefore(f.list.elements[i].start, p)
       /\ AtOrBefore(f.list.elements[i].end, q)
       /\ i > 1 => AtOrBefore(f.list.elements[i - 1].start, f.list.elements[i].start)

\* Where the next element of frame i starts at the earliest.
Bound(i) ==
  IF i < Len(frames) THEN frames[i + 1].start
  ELSE IF value # NoExpr THEN value.start ELSE LastStart

SpanInv ==
  /\ \A i \in 1 .. Len(frames) : Spans(frames[i], Bound(i), LastEnd)
  /\ tokens = <<>> => Len(frames) = 1 /\ value = NoExpr
  /\ value # NoExpr =>
       /\ value.start \in Position /\ AtOrBefore(value.start, LastStart)
       /\ value.end \in Position /\ AtOrBefore(value.end, LastEnd)
       /\ Encloses(value)

LEMMA LastPlaces ==
  ASSUME IInv, Ordered
  PROVE  /\ LastStart \in Position /\ LastEnd \in Position /\ AtOrBefore(LastStart, LastEnd)
         /\ tokens # <<>> => LastStart = CurrentToken.start /\ LastEnd = CurrentToken.end
PROOF
  <1>1. CASE tokens = <<>>
    BY <1>1 DEF LastStart, LastEnd, Position, AtOrBefore
  <1>2. CASE tokens # <<>>
    <2>1. Len(tokens) \in 1 .. Len(tokens)
      BY <1>2, TokensSequence
    <2>2. CurrentToken \in Token
      BY <2>1, TokensSequence DEF CurrentToken
    <2>3. AtOrBefore(CurrentToken.start, CurrentToken.end)
      BY <2>1 DEF Ordered, CurrentToken
    <2> QED BY <1>2, <2>2, <2>3 DEF LastStart, LastEnd, Position, Token, CurrentToken
  <1> QED BY <1>1, <1>2

LEMMA SpansLater ==
  ASSUME NEW f, NEW p \in Position, NEW p1 \in Position, NEW q \in Position, NEW q1 \in Position,
         Spans(f, p, q), AtOrBefore(p, p1), AtOrBefore(q, q1)
  PROVE  Spans(f, p1, q1)
PROOF
  <1>1. f.start \in Position /\ AtOrBefore(f.start, p1)
    BY OrderTransitive DEF Spans, Position
  <1>2. ASSUME NEW i \in 1 .. Len(f.list.elements)
        PROVE  /\ AtOrBefore(f.list.elements[i].start, p1)
               /\ AtOrBefore(f.list.elements[i].end, q1)
    <2>1. /\ f.list.elements[i].start \in Position /\ f.list.elements[i].end \in Position
          /\ AtOrBefore(f.list.elements[i].start, p) /\ AtOrBefore(f.list.elements[i].end, q)
      BY DEF Spans
    <2> QED BY <2>1, OrderTransitive DEF Position
  <1> QED BY <1>1, <1>2 DEF Spans

\* The element appended last starts last.
LEMMA SpansAppended ==
  ASSUME NEW f, Sound(f.list), NEW e, e.start \in Position, e.end \in Position, NEW q, Spans(f, e.start, q),
         AtOrBefore(e.end, q), NEW g, g.start = f.start, g.list = AppendExpr(f.list, e)
  PROVE  Spans(g, e.start, q)
PROOF
  <1> DEFINE es == f.list.elements
             gs == g.list.elements
  <1>1. IsSequence(es) /\ gs = Append(es, e)
    BY DEF Sound, AppendExpr
  <1> PICK n \in Nat : n = Len(es)
    BY <1>1, SequenceFacts
  <1>2. Len(gs) = n + 1 /\ (\A i \in 1 .. n : gs[i] = es[i]) /\ gs[n + 1] = e
    BY <1>1, AppendAny
  <1>3. AtOrBefore(e.start, e.start)
    BY OrderReflexive DEF Position
  <1>4. f.start \in Position /\ AtOrBefore(f.start, e.start)
    BY DEF Spans
  <1>5. \A i \in 1 .. n : /\ es[i].start \in Position /\ es[i].end \in Position
                          /\ AtOrBefore(f.start, es[i].start) /\ AtOrBefore(es[i].start, e.start)
                          /\ AtOrBefore(es[i].end, q)
                          /\ i > 1 => AtOrBefore(es[i - 1].start, es[i].start)
    BY DEF Spans
  <1> HIDE DEF es, gs
  <1>6. ASSUME NEW i \in 1 .. n + 1
        PROVE  /\ gs[i].start \in Position /\ gs[i].end \in Position
               /\ AtOrBefore(f.start, gs[i].start) /\ AtOrBefore(gs[i].start, e.start)
               /\ AtOrBefore(gs[i].end, q)
               /\ i > 1 => AtOrBefore(gs[i - 1].start, gs[i].start)
    <2>1. i > 1 => i - 1 \in 1 .. n
      OBVIOUS
    <2>2. CASE i = n + 1
      BY <1>2, <1>3, <1>4, <1>5, <2>1, <2>2
    <2>3. CASE i # n + 1
      <3>1. i \in 1 .. n
        BY <2>3
      <3> QED BY <1>2, <1>5, <2>1, <3>1
    <2> QED BY <2>2, <2>3
  <1> QED BY <1>2, <1>4, <1>6 DEF Spans, gs

\* A list that ends behind its elements encloses them.
LEMMA SpansEnclose ==
  ASSUME NEW f, NEW p \in Position, NEW q \in Position, Spans(f, p, q), AtOrBefore(p, q), Sound(f.list)
  PROVE  Encloses(List(f.list.elements, f.start, q))
PROOF
  <1> DEFINE e == List(f.list.elements, f.start, q)
  <1>1. e.start = f.start /\ e.end = q /\ e.list = f.list.elements
    BY DEF List
  <1>2. DOMAIN e.list = 1 .. Len(f.list.elements)
    BY <1>1, SequenceFacts DEF Sound
  <1>3. AtOrBefore(f.start, q)
    BY OrderTransitive DEF Spans, Position
  <1> HIDE DEF e
  <1> QED BY <1>1, <1>2, <1>3 DEF Encloses, Spans, e

LEMMA BoundPosition ==
  ASSUME IInv, Ordered, FramesSound, SpanInv, NEW i \in 1 .. Len(frames)
  PROVE  Bound(i) \in Position
PROOF
  <1> PICK n \in Nat : n = Len(frames)
    BY SequenceFacts DEF FramesSound
  <1>1. CASE i < n
    <2>1. i + 1 \in 1 .. n
      BY <1>1
    <2>2. frames[i + 1].start \in Position
      BY <2>1 DEF SpanInv, Spans
    <2> QED BY <1>1, <2>2 DEF Bound
  <1>2. CASE ~(i < n)
    BY <1>2, LastPlaces DEF Bound, SpanInv
  <1> QED BY <1>1, <1>2

\* What the innermost activation has, when no expression is being returned.
LEMMA TopSpans ==
  ASSUME FramesSound, SpanInv
  PROVE  /\ Top.start \in Position
         /\ value = NoExpr => Spans(Top, LastStart, LastEnd)
         /\ value # NoExpr => Spans(Top, value.start, LastEnd)
PROOF
  <1>1. Len(frames) \in 1 .. Len(frames)
    BY SequenceFacts DEF FramesSound
  <1>2. Spans(Top, Bound(Len(frames)), LastEnd)
    BY <1>1 DEF SpanInv, Top
  <1>3. Bound(Len(frames)) = IF value # NoExpr THEN value.start ELSE LastStart
    BY SequenceFacts DEF FramesSound, Bound
  <1> QED BY <1>2, <1>3 DEF Spans

LEMMA SameSpans ==
  ASSUME SpanInv, UNCHANGED <<tokens, frames, value>>
  PROVE  SpanInv'
PROOF
  <1>1. LastEnd' = LastEnd /\ LastStart' = LastStart
    BY DEF LastEnd, LastStart, CurrentToken
  <1>2. \A i \in 1 .. Len(frames) : Bound(i)' = Bound(i)
    BY <1>1 DEF Bound
  <1>3. value' # NoExpr => Encloses(value')
    BY DEF SpanInv
  <1> QED BY <1>1, <1>2, <1>3 DEF SpanInv

LEMMA PushSpans ==
  ASSUME IInv, Ordered, FramesSound, SpanInv, NEW fn, frames' = Append(frames, Frame(fn, CurrentToken.start)),
         value = NoExpr, value' = NoExpr, tokens # <<>>, tokens' = tokens
  PROVE  SpanInv'
PROOF
  <1> DEFINE f == Frame(fn, CurrentToken.start)
  <1> PICK n \in Nat : n = Len(frames)
    BY SequenceFacts DEF FramesSound
  <1>1. LastEnd' = LastEnd /\ LastStart' = LastStart
    BY DEF LastEnd, LastStart, CurrentToken
  <1>2. /\ Len(frames') = n + 1 /\ \A i \in 1 .. n : frames'[i] = frames[i]
        /\ frames'[n + 1] = f
    BY AppendAny DEF FramesSound
  <1>3. f.start = LastStart /\ f.list.elements = <<>>
    BY DEF Frame, EmptyVector, LastStart
  <1> HIDE DEF f
  <1>4. LastStart \in Position /\ AtOrBefore(LastStart, LastStart)
    BY LastPlaces, OrderReflexive DEF Position
  <1>5. Spans(f, LastStart, LastEnd)
    BY <1>3, <1>4 DEF Spans
  <1>6. ASSUME NEW i \in 1 .. n + 1
        PROVE  Spans(frames'[i], Bound(i)', LastEnd')
    <2>1. CASE i = n + 1
      <3>1. Bound(i)' = LastStart
        BY <1>1, <1>2, <2>1 DEF Bound
      <3> QED BY <1>1, <1>2, <1>5, <2>1, <3>1
    <2>2. CASE i = n
      <3>1. Bound(i)' = LastStart /\ Bound(i) = LastStart
        BY <1>1, <1>2, <1>3, <2>2 DEF Bound
      <3> QED BY <1>1, <1>2, <2>2, <3>1 DEF SpanInv
    <2>3. CASE i < n
      <3>1. i \in 1 .. n /\ i + 1 \in 1 .. n
        BY <2>3
      <3>2. Bound(i)' = Bound(i)
        BY <1>2, <2>3, <3>1 DEF Bound
      <3> QED BY <1>1, <1>2, <3>1, <3>2 DEF SpanInv
    <2> QED BY <2>1, <2>2, <2>3
  <1> QED BY <1>2, <1>6 DEF SpanInv

LEMMA PopSpans ==
  ASSUME IInv, Ordered, FramesSound, SpanInv, Len(frames) > 1, frames' = Pop, tokens # <<>>, tokens' = tokens,
         NEW es, value' = List(es, Top.start, LastEnd), AtOrBefore(Top.start, LastStart), Encloses(value')
  PROVE  SpanInv'
PROOF
  <1> PICK n \in Nat : n = Len(frames)
    BY SequenceFacts DEF FramesSound
  <1>1. LastEnd' = LastEnd /\ LastStart' = LastStart
    BY DEF LastEnd, LastStart, CurrentToken
  <1>2. Len(frames') = n - 1 /\ \A i \in 1 .. n - 1 : frames'[i] = frames[i]
    BY FrontAny DEF Pop, FramesSound
  <1>3. value' # NoExpr /\ value'.start = Top.start /\ value'.end = LastEnd
    BY DEF List, NoExpr
  <1>4. LastEnd \in Position /\ AtOrBefore(LastEnd, LastEnd)
    BY LastPlaces, OrderReflexive DEF Position
  <1>5. ASSUME NEW i \in 1 .. n - 1
        PROVE  Spans(frames'[i], Bound(i)', LastEnd')
    <2>1. i \in 1 .. n
      OBVIOUS
    <2>2. Bound(i)' = Bound(i)
      <3>1. CASE i = n - 1
        <4>1. Bound(i) = frames[n].start
          BY <3>1 DEF Bound
        <4> QED BY <1>2, <1>3, <3>1, <4>1 DEF Bound, Top
      <3>2. CASE i < n - 1
        <4>1. i + 1 \in 1 .. n - 1
          BY <3>2
        <4> QED BY <1>2, <3>2, <4>1 DEF Bound
      <3> QED BY <3>1, <3>2
    <2> QED BY <1>1, <1>2, <2>1, <2>2 DEF SpanInv
  <1> QED BY <1>1, <1>2, <1>3, <1>4, <1>5, TopSpans DEF SpanInv

\* The innermost activation goes on, and no expression is being returned.
LEMMA ReplaceSpans ==
  ASSUME IInv, Ordered, FramesSound, SpanInv, NEW g, frames' = [frames EXCEPT ![Len(frames)] = g],
         value' = NoExpr, tokens # <<>>, tokens' = tokens, Spans(g, LastStart, LastEnd),
         AtOrBefore(Top.start, g.start)
  PROVE  SpanInv'
PROOF
  <1> PICK n \in Nat : n = Len(frames) /\ n > 0
    BY SequenceFacts DEF FramesSound
  <1>1. LastEnd' = LastEnd /\ LastStart' = LastStart
    BY DEF LastEnd, LastStart, CurrentToken
  <1>2. Len(frames') = n /\ \A i \in 1 .. n : frames'[i] = IF i = n THEN g ELSE frames[i]
    BY ReplaceLast DEF FramesSound
  <1>3. ASSUME NEW i \in 1 .. n
        PROVE  Spans(frames'[i], Bound(i)', LastEnd')
    <2>1. CASE i = n
      <3>1. Bound(i)' = LastStart
        BY <1>1, <1>2, <2>1 DEF Bound
      <3> QED BY <1>1, <1>2, <2>1, <3>1
    <2>2. CASE i < n
      <3>1. i + 1 \in 1 .. n /\ Bound(i) = frames[i + 1].start
        BY <2>2 DEF Bound
      <3>2. Bound(i)' = frames'[i + 1].start
        BY <1>2, <2>2 DEF Bound
      <3>3. Spans(frames[i], frames[i + 1].start, LastEnd)
        BY <3>1 DEF SpanInv
      <3>4. CASE i + 1 = n
        <4>1. Bound(i)' = g.start /\ frames[i + 1].start = Top.start
          BY <1>2, <3>2, <3>4 DEF Top
        <4>2. g.start \in Position /\ Top.start \in Position /\ LastEnd \in Position
          BY TopSpans, LastPlaces DEF Spans
        <4>3. AtOrBefore(LastEnd, LastEnd)
          BY <4>2, OrderReflexive DEF Position
        <4>4. Spans(frames[i], g.start, LastEnd)
          BY <3>3, <4>1, <4>2, <4>3, SpansLater
        <4> QED BY <1>1, <1>2, <2>2, <4>1, <4>4
      <3>5. CASE i + 1 # n
        BY <1>1, <1>2, <2>2, <3>1, <3>2, <3>3, <3>5
      <3> QED BY <3>4, <3>5
    <2> QED BY <2>1, <2>2
  <1> QED BY <1>2, <1>3 DEF SpanInv

LEMMA LexSpans ==
  ASSUME IInv, IInv', Ordered, Ordered', FramesSound, SpanInv, LexerStep, UNCHANGED <<frames, value>>
  PROVE  SpanInv'
PROOF
  <1>1. CASE tokens' = tokens
    BY <1>1, SameSpans
  <1>2. ASSUME handler \in Handlers, NEW t, t.start = start, tokens' = Append(tokens, t)
        PROVE  SpanInv'
    <2> PICK n \in Nat : n = Len(tokens)
      BY TokensSequence
    <2>1. tokens \in Seq(Token \cup {t})
      BY TokensSequence
    <2>2. tokens' # <<>> /\ Len(tokens') = n + 1 /\ tokens'[n + 1] = t
      BY <1>2, <2>1, AppendProperties
    <2>3. LastStart' = start /\ LastEnd' = t.end
      BY <1>2, <2>2 DEF LastStart, LastEnd, CurrentToken
    <2>4. /\ LastStart \in Position /\ LastEnd \in Position /\ AtOrBefore(LastStart, LastEnd)
          /\ LastStart' \in Position /\ LastEnd' \in Position /\ AtOrBefore(LastStart', LastEnd')
      <3>1. (LastStart \in Position /\ LastEnd \in Position /\ AtOrBefore(LastStart, LastEnd))'
        BY LastPlaces, PTL
      <3> QED BY <3>1, LastPlaces
    <2>5. AtOrBefore(LastEnd, LastStart')
      BY <1>2, <2>3 DEF Ordered
    <2>6. AtOrBefore(LastStart, LastStart') /\ AtOrBefore(LastEnd, LastEnd')
      BY <2>4, <2>5, OrderTransitive DEF Position
    <2>7. ASSUME NEW i \in 1 .. Len(frames)
          PROVE  Spans(frames[i], Bound(i)', LastEnd')
      <3>1. Spans(frames[i], Bound(i), LastEnd) /\ Bound(i) \in Position
        BY BoundPosition DEF SpanInv
      <3>2. CASE i < Len(frames) \/ value # NoExpr
        <4>1. Bound(i)' = Bound(i)
          BY <3>2 DEF Bound
        <4>2. AtOrBefore(Bound(i), Bound(i))
          BY <3>1, OrderReflexive DEF Position
        <4>3. Spans(frames[i], Bound(i), LastEnd')
          BY <2>4, <2>6, <3>1, <4>2, SpansLater
        <4> QED BY <4>1, <4>3
      <3>3. CASE ~(i < Len(frames)) /\ value = NoExpr
        <4>1. Bound(i) = LastStart /\ Bound(i)' = LastStart'
          BY <3>3 DEF Bound
        <4>2. Spans(frames[i], LastStart, LastEnd)
          BY <3>1, <4>1
        <4>3. Spans(frames[i], LastStart', LastEnd')
          BY <2>4, <2>6, <4>2, SpansLater
        <4> QED BY <4>1, <4>3
      <3> QED BY <3>2, <3>3
    <2>8. ASSUME value # NoExpr
          PROVE  /\ value.start \in Position /\ AtOrBefore(value.start, LastStart')
                 /\ value.end \in Position /\ AtOrBefore(value.end, LastEnd')
                 /\ Encloses(value)
      <3>1. /\ value.start \in Position /\ AtOrBefore(value.start, LastStart)
            /\ value.end \in Position /\ AtOrBefore(value.end, LastEnd) /\ Encloses(value)
        BY <2>8 DEF SpanInv
      <3> QED BY <2>4, <2>6, <3>1, OrderTransitive DEF Position
    <2>9. value' # NoExpr => Encloses(value')
      BY <2>8
    <2> QED BY <2>2, <2>7, <2>8, <2>9 DEF SpanInv
  <1> QED BY <1>1, <1>2, LexerSteps

LEMMA ParseAtomSpans ==
  ASSUME IInv, Ordered, FramesSound, SpanInv, ParseAtom
  PROVE  SpanInv'
PROOF
  <1>1. /\ tokens # <<>> /\ tokens' = tokens /\ value = NoExpr /\ value' = Atom(CurrentToken)
        /\ frames' = frames
    BY SeesFacts DEF ParseAtom, ParserAdvance, LexerCall
  <1>2. LastEnd' = LastEnd /\ LastStart' = LastStart
    BY <1>1 DEF LastEnd, LastStart, CurrentToken
  <1>3. LastStart = CurrentToken.start /\ LastEnd = CurrentToken.end
    BY <1>1, LastPlaces
  <1>4. /\ value' # NoExpr /\ value'.start = LastStart /\ value'.end = LastEnd /\ value'.type # "list"
    BY <1>1, <1>3 DEF Atom, NoExpr
  <1>5. /\ LastStart \in Position /\ LastEnd \in Position /\ AtOrBefore(LastStart, LastEnd)
        /\ AtOrBefore(LastStart, LastStart) /\ AtOrBefore(LastEnd, LastEnd)
    BY LastPlaces, OrderReflexive DEF Position
  <1>6. Encloses(value')
    BY <1>4, <1>5 DEF Encloses
  <1>7. \A i \in 1 .. Len(frames) : Bound(i)' = Bound(i)
    BY <1>1, <1>2, <1>4 DEF Bound
  <1> QED BY <1>1, <1>2, <1>4, <1>5, <1>6, <1>7 DEF SpanInv

LEMMA CalleeFrame ==
  ASSUME FramesSound, FramesOrdered, Top.fn # "program"
  PROVE  Len(frames) > 1
PROOF
  <1> PICK n \in Nat : n = Len(frames) /\ n > 0 /\ n # 1
    BY TopFrame
  <1> QED OBVIOUS

LEMMA CloseListSpans ==
  ASSUME IInv, Ordered, FramesSound, FramesOrdered, SpanInv, CloseList
  PROVE  SpanInv'
PROOF
  <1>1. /\ tokens # <<>> /\ tokens' = tokens /\ value = NoExpr /\ frames' = Pop /\ Top.fn = "list"
        /\ value' = List(Top.list.elements, Top.start, CurrentToken.end)
    BY SeesFacts DEF CloseList, ParserAdvance, LexerCall
  <1>2. value' = List(Top.list.elements, Top.start, LastEnd)
    BY <1>1, LastPlaces
  <1>3. Spans(Top, LastStart, LastEnd) /\ AtOrBefore(Top.start, LastStart)
    BY <1>1, TopSpans DEF Spans
  <1>4. Encloses(value')
    BY <1>2, <1>3, LastPlaces, TopSound, SpansEnclose
  <1>5. Len(frames) > 1
    BY <1>1, CalleeFrame
  <1> QED BY <1>1, <1>2, <1>3, <1>4, <1>5, PopSpans

LEMMA BeginQuotedSpans ==
  ASSUME IInv, Ordered, FramesSound, FramesOrdered, SpanInv, BeginQuoted
  PROVE  SpanInv'
PROOF
  <1> DEFINE at == CurrentToken.start
             e == QuoteAtom(at)
             f == [fn |-> "quote", list |-> EmptyVector, start |-> at]
             g == [fn |-> "quote", list |-> AppendExpr(EmptyVector, e), start |-> at]
  <1>1. Top.fn = "quoting" /\ frames' = [frames EXCEPT ![Len(frames)] = g] /\ UNCHANGED <<lexer, value>>
    BY DEF BeginQuoted
  <1>2. value = NoExpr /\ Len(frames) # 1
    BY <1>1, TopFrame DEF FramesOrdered
  <1>3. tokens # <<>> /\ tokens' = tokens
    BY <1>1, <1>2 DEF SpanInv, lexer
  <1>4. at = LastStart
    BY <1>3, LastPlaces
  <1>5. /\ f.start = at /\ f.list = EmptyVector /\ EmptyVector.elements = <<>>
        /\ g.start = f.start /\ g.list = AppendExpr(f.list, e) /\ e.start = at /\ e.end = at
    BY DEF EmptyVector, QuoteAtom
  <1> HIDE DEF at, e, f, g
  <1>6. /\ at \in Position /\ LastEnd \in Position /\ AtOrBefore(at, LastEnd) /\ AtOrBefore(at, at)
    BY <1>4, LastPlaces, OrderReflexive DEF Position
  <1>7. Spans(f, at, LastEnd)
    BY <1>5, <1>6 DEF Spans
  <1>8. Spans(g, e.start, LastEnd)
    BY <1>5, <1>6, <1>7, EmptySound, SpansAppended
  <1>9. AtOrBefore(Top.start, g.start)
    BY <1>2, <1>4, <1>5, TopSpans DEF Spans
  <1> QED BY <1>1, <1>2, <1>3, <1>4, <1>5, <1>8, <1>9, ReplaceSpans

LEMMA ReturnSpans ==
  ASSUME IInv, Ordered, FramesSound, FramesOrdered, SpanInv, Return
  PROVE  SpanInv'
PROOF
  <1> DEFINE v == AppendExpr(Top.list, value)
             g == [Top EXCEPT !.list = v]
  <1>1. value # NoExpr /\ tokens' = tokens /\ tokens # <<>>
    BY DEF Return, lexer, SpanInv
  <1>2. CASE Overrun(v)
    <2>1. UNCHANGED <<frames, value>>
      BY <1>2 DEF Return
    <2> QED BY <1>1, <2>1, SameSpans
  <1>3. /\ value.start \in Position /\ AtOrBefore(value.start, LastStart)
        /\ value.end \in Position /\ AtOrBefore(value.end, LastEnd)
        /\ Spans(Top, value.start, LastEnd) /\ Top.start \in Position /\ AtOrBefore(Top.start, value.start)
    BY <1>1, TopSpans DEF SpanInv, Spans
  <1>4. g.start = Top.start /\ g.list = v
    BY TopSound DEF IsFrame
  <1>5. Spans(g, value.start, LastEnd)
    BY <1>3, <1>4, TopSound, SpansAppended
  <1>6. /\ LastStart \in Position /\ LastEnd \in Position /\ AtOrBefore(LastStart, LastEnd)
        /\ AtOrBefore(LastEnd, LastEnd)
    BY LastPlaces, OrderReflexive DEF Position
  <1>7. Spans(g, LastStart, LastEnd) /\ AtOrBefore(Top.start, LastStart)
    BY <1>3, <1>5, <1>6, SpansLater, OrderTransitive DEF Position
  <1>8. CASE ~Overrun(v) /\ Top.fn = "quote"
    <2>1. frames' = Pop /\ value' = List(v.elements, Top.start, CurrentToken.end)
      BY <1>8 DEF Return
    <2>2. value' = List(v.elements, Top.start, LastEnd)
      BY <1>1, <2>1, LastPlaces
    <2>3. Sound(g.list)
      BY <1>4, TopSound, AppendExprSound
    <2>4. Encloses(List(g.list.elements, g.start, LastEnd))
      BY <1>6, <1>7, <2>3, SpansEnclose
    <2>5. Encloses(value')
      BY <1>4, <2>2, <2>4
    <2>6. Len(frames) > 1
      BY <1>8, CalleeFrame
    <2> QED BY <1>1, <1>7, <2>1, <2>2, <2>5, <2>6, PopSpans
  <1>9. CASE ~Overrun(v) /\ Top.fn # "quote"
    <2>1. frames' = [frames EXCEPT ![Len(frames)].list = v] /\ value' = NoExpr
      BY <1>9 DEF Return
    <2>2. frames' = [frames EXCEPT ![Len(frames)] = g]
      BY <2>1 DEF Top
    <2>3. AtOrBefore(Top.start, g.start)
      BY <1>3, <1>4, OrderReflexive DEF Position
    <2> QED BY <1>1, <1>7, <2>1, <2>2, <2>3, ReplaceSpans
  <1> QED BY <1>2, <1>8, <1>9

LEMMA SpanInvInit == Init => SpanInv
PROOF
  <1> SUFFICES ASSUME Init PROVE SpanInv
    OBVIOUS
  <1>1. /\ Len(frames) = 1 /\ frames[1].start = <<1, 1>> /\ frames[1].list.elements = <<>>
        /\ tokens = <<>> /\ value = NoExpr
    BY DEF Init, Frame, EmptyVector, LexerInit
  <1>2. Bound(1) = <<1, 1>>
    BY <1>1 DEF Bound, LastStart
  <1>3. <<1, 1>> \in Position /\ AtOrBefore(<<1, 1>>, <<1, 1>>)
    BY DEF Position, AtOrBefore
  <1> QED BY <1>1, <1>2, <1>3 DEF SpanInv, Spans

LEMMA SpanInvNext ==
  IInv /\ IInv' /\ Ordered /\ Ordered' /\ FramesSound /\ FramesOrdered /\ SpanInv /\ [Next]_vars => SpanInv'
PROOF
  <1> SUFFICES ASSUME IInv, IInv', Ordered, Ordered', FramesSound, FramesOrdered, SpanInv, [Next]_vars
               PROVE  SpanInv'
    OBVIOUS
  <1>1. CASE Lex
    BY <1>1, LexSpans DEF Lex
  <1>2. CASE Start \/ SkipBlank \/ EndProgram \/ ParserError \/ UNCHANGED vars
    <2>1. UNCHANGED <<tokens, frames, value>>
      BY <1>2 DEF Start, SkipBlank, EndProgram, ParserError, ParserAdvance, LexerCall, vars, lexer
    <2> QED BY <2>1, SameSpans
  <1>3. CASE OpenList
    <2>1. /\ tokens # <<>> /\ value = NoExpr /\ value' = value /\ tokens' = tokens
          /\ frames' = Append(frames, Frame("list", CurrentToken.start))
      BY <1>3, SeesFacts DEF OpenList, ParserAdvance, LexerCall
    <2> QED BY <2>1, PushSpans
  <1>4. CASE Quote
    <2>1. /\ tokens # <<>> /\ value = NoExpr /\ value' = value /\ tokens' = tokens
          /\ frames' = Append(frames, Frame("quoting", CurrentToken.start))
      BY <1>4, SeesFacts DEF Quote, ParserAdvance, LexerCall
    <2> QED BY <2>1, PushSpans
  <1> QED BY <1>1, <1>2, <1>3, <1>4, ParseAtomSpans, CloseListSpans, BeginQuotedSpans, ReturnSpans DEF Next

\* For every text: wherever an expression is returned, its positions enclose those
\* of its parts, which start one after the other.
THEOREM PositionsNest == Spec => []SpansNest
PROOF
  <1>1. Spec => []IInv /\ []Ordered
    BY ParserDrivesLexer, LexerInvariant, PositionsOrdered, PTL
  <1>2. Spec => []PInv
    BY PInvInit, PInvNext, PTL DEF Spec
  <1>3. PInv => FramesSound
    BY DEF PInv
  <1>4. DInv => FramesOrdered
    BY DEF DInv
  <1>5. Spec => []DInv
    BY <1>1, <1>2, <1>3, DInvInit, DInvNext, PTL DEF Spec
  <1>6. Spec => []SpanInv
    BY <1>1, <1>2, <1>3, <1>4, <1>5, SpanInvInit, SpanInvNext, PTL DEF Spec
  <1>7. SpanInv => SpansNest
    BY DEF SpanInv, SpansNest
  <1> QED BY <1>6, <1>7, PTL
=============================================================================
