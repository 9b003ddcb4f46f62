---------------------------- MODULE MachineProofs ----------------------------
(***************************************************************************)
(* Proofs about the generated program while it runs, for any program and   *)
(* any size of the stack: types, that control is never damaged, and that   *)
(* variables lie in the frame of their function.                           *)
(*                                                                         *)
(* The heights that CodegenProofs gives to the code of each section are    *)
(* those of the linked image.  While it runs, the height of the current    *)
(* instruction is the distance of rsp and rbp, and below rbp lies a chain  *)
(* of frames: each holds the rbp of the frame it was called from and, next *)
(* to it, the place where that frame's function goes on.  Code writes      *)
(* above rbp only.                                                         *)
(*                                                                         *)
(* The frame of a function is what is reserved after mov rbp, rsp.  SInv,  *)
(* the third invariant of the generator, says that the slots it gives out  *)
(* and those its tasks will still ask for fit that frame.                  *)
(***************************************************************************)
EXTENDS Machine, CodegenProofs

-----------------------------------------------------------------------------
(* Instructions *)

LEMMA NeutralOps ==
  ASSUME NEW i \in Neutral
  PROVE  /\ i[1] \in {"mov", "movsd", "call", "lea", "load", "store", "cmp", "loadslot", "saveslot",
                      "null", "je", "jmp", "label"}
         /\ i[1] = "mov" => i[2] \in WordRegs /\ i[3] \in WordRegs
         /\ i[1] \in {"loadslot", "saveslot"} => i[2] \in Nat \ (0 .. SlotSize - 1)
         /\ i[1] = "saveslot" => i[3] \in WordRegs
         /\ i[1] = "label" => i[2] \in LocalLabels
PROOF
  <1>1. CASE i \in {"mov"} \X WordRegs \X WordRegs BY <1>1
  <1>2. CASE i \in {"movsd"} \X LiteralLabels BY <1>2
  <1>3. CASE i \in {"call"} \X (UserLabels \cup Runtime \cup {Garbage}) BY <1>3
  <1>4. CASE i \in {"lea", "load", "store", "cmp"} \X DataLabels BY <1>4
  <1>5. CASE i \in {"loadslot"} \X (Nat \ (0 .. SlotSize - 1)) BY <1>5
  <1>6. CASE i \in {"saveslot"} \X (Nat \ (0 .. SlotSize - 1)) \X WordRegs BY <1>6
  <1>7. CASE i = <<"null">> BY <1>7
  <1>8. CASE i \in {"je", "jmp", "label"} \X LocalLabels BY <1>8
  <1> QED BY <1>1, <1>2, <1>3, <1>4, <1>5, <1>6, <1>7, <1>8 DEF Neutral

-----------------------------------------------------------------------------
(* The frames of functions: the words reserved for variables *)

\* Where a frame starts, and where its words are reserved.
Mark(x) == x[1] = "reserve" \/ x = <<"mov", "rbp", "rsp">>
Size(x) == IF x[1] = "reserve" THEN x[2] ELSE 0

Marks(code, i) == {r \in 1 .. i - 1 : Mark(code[r])}

\* The bytes reserved in the frame in use before instruction i.
Frame(code, i) ==
  IF Marks(code, i) = {} THEN 0
  ELSE Size(code[CHOOSE r \in Marks(code, i) : \A s \in Marks(code, i) : s <= r])

\* Words are reserved as soon as a frame is made.
Adjacent(code) ==
  \A i \in 1 .. Len(code) : code[i][1] = "reserve" => i > 1 /\ code[i - 1] = <<"mov", "rbp", "rsp">>

LEMMA SizesNat == ASSUME NEW x \in Instructions PROVE Size(x) \in Nat
PROOF
  <1>1. CASE x \in {"reserve"} \X Nat
    BY <1>1 DEF Size
  <1>2. CASE x \notin {"reserve"} \X Nat
    <2>1. x \in BodyCode \/ x \in {"label"} \X (UserLabels \cup {MainLabel})
            \/ x[1] \in {"push", "mov", "pop", "ret"}
      BY <1>2 DEF Instructions
    <2>2. x \in BodyCode => x[1] # "reserve"
      BY NeutralOps DEF BodyCode, PushRax
    <2> QED BY <2>1, <2>2 DEF Size
  <1> QED BY <1>1, <1>2

LEMMA FrameIs ==
  ASSUME NEW code, NEW i \in Nat, NEW r \in Marks(code, i), \A s \in Marks(code, i) : s <= r
  PROVE  Frame(code, i) = Size(code[r])
PROOF
  <1> DEFINE M == Marks(code, i)
             c == CHOOSE q \in M : \A s \in M : s <= q
  <1>1. c \in M /\ \A s \in M : s <= c
    OBVIOUS
  <1>2. \A s \in M : s \in Int
    BY DEF Marks
  <1>3. c = r
    BY <1>1, <1>2
  <1> QED BY <1>3 DEF Frame

LEMMA NoFrame == ASSUME NEW code, NEW i, Marks(code, i) = {} PROVE Frame(code, i) = 0
BY DEF Frame

LEMMA LastMark ==
  ASSUME NEW code, NEW i \in Nat, Marks(code, i) # {}
  PROVE  \E r \in Marks(code, i) : \A s \in Marks(code, i) : s <= r
PROOF
  <1>1. i # 0 /\ Marks(code, i) \in SUBSET (1 .. i - 1)
    <2>1. Marks(code, i) \in SUBSET (1 .. i - 1)
      BY DEF Marks
    <2>2. i = 0 => 1 .. i - 1 = {}
      OBVIOUS
    <2> QED BY <2>1, <2>2
  <1>2. i - 1 \in Nat
    BY <1>1
  <1> QED BY <1>1, <1>2, Greatest

LEMMA FrameNat ==
  ASSUME NEW code \in Seq(Instructions), NEW i \in 1 .. Len(code) + 1
  PROVE  Frame(code, i) \in Nat
PROOF
  <1>1. Len(code) \in Nat /\ i \in Nat
    OBVIOUS
  <1>2. CASE Marks(code, i) = {}
    BY <1>2, NoFrame
  <1>3. CASE Marks(code, i) # {}
    <2>1. PICK r \in Marks(code, i) : \A s \in Marks(code, i) : s <= r
      BY <1>1, <1>3, LastMark
    <2>2. Frame(code, i) = Size(code[r])
      BY <1>1, <2>1, FrameIs
    <2>3. r \in 1 .. Len(code)
      BY <1>1, <2>1 DEF Marks
    <2> QED BY <2>2, <2>3, SizesNat
  <1> QED BY <1>2, <1>3

\* Frames depend on the code before only.
LEMMA SameMarks ==
  ASSUME NEW code, NEW code1, NEW i \in Nat, NEW j \in Nat, Marks(code1, j) = Marks(code, i),
         \A r \in Marks(code, i) : code1[r] = code[r]
  PROVE  Frame(code1, j) = Frame(code, i)
PROOF
  <1>1. CASE Marks(code, i) = {}
    BY <1>1, NoFrame
  <1>2. CASE Marks(code, i) # {}
    <2>1. PICK r \in Marks(code, i) : \A s \in Marks(code, i) : s <= r
      BY <1>2, LastMark
    <2>2. Frame(code, i) = Size(code[r]) /\ Frame(code1, j) = Size(code1[r])
      BY <2>1, FrameIs
    <2> QED BY <2>1, <2>2
  <1> QED BY <1>1, <1>2

LEMMA FramePrefix ==
  ASSUME NEW code, NEW code1, NEW i \in Nat, \A r \in 1 .. i - 1 : code1[r] = code[r]
  PROVE  Frame(code1, i) = Frame(code, i)
PROOF
  <1>1. Marks(code1, i) = Marks(code, i) /\ \A r \in Marks(code, i) : r \in 1 .. i - 1
    BY DEF Marks
  <1> QED BY <1>1, SameMarks

LEMMA FrameGoesOn ==
  ASSUME NEW code, NEW i \in Nat, NEW j \in Nat, i <= j, \A r \in i .. j - 1 : r > 0 => ~Mark(code[r])
  PROVE  Frame(code, j) = Frame(code, i)
PROOF
  <1>1. \A r : r \in 1 .. j - 1 /\ Mark(code[r]) <=> r \in 1 .. i - 1 /\ Mark(code[r])
    <2>1. ASSUME NEW r \in 1 .. j - 1, Mark(code[r]) PROVE r \in 1 .. i - 1
      <3>1. CASE r <= i - 1
        BY <3>1
      <3>2. CASE ~(r <= i - 1)
        <4>1. r \in i .. j - 1 /\ r > 0
          BY <3>2
        <4> QED BY <2>1, <4>1
      <3> QED BY <3>1, <3>2
    <2>2. \A r \in 1 .. i - 1 : r \in 1 .. j - 1
      OBVIOUS
    <2> QED BY <2>1, <2>2
  <1>2. Marks(code, j) = Marks(code, i)
    BY <1>1 DEF Marks
  <1> QED BY <1>2, SameMarks

LEMMA FrameMade ==
  ASSUME NEW code, NEW i \in Nat, i > 0, Mark(code[i])
  PROVE  Frame(code, i + 1) = Size(code[i])
PROOF
  <1>1. i \in Marks(code, i + 1)
    BY DEF Marks
  <1>2. \A s \in Marks(code, i + 1) : s <= i
    BY DEF Marks
  <1> QED BY <1>1, <1>2, FrameIs

-----------------------------------------------------------------------------
(* Expressions and their definitions *)

\* What DefineFree and Orderly say of expression e.
FreeOf(f, e) ==
  e.t = "list" =>
    /\ e.es # <<>> => e.es[1] # Sym(Define_)
    /\ \A i \in DOMAIN e.es : f[e.es[i]]

FunctionForm(e) == Len(e.es) >= 3 /\ e.es[1] = Sym(Define_) /\ e.es[2].t = "list"

OrderOf(f, e) ==
  e.t = "list" =>
    /\ \A i \in DOMAIN e.es : f[e.es[i]]
    /\ FunctionForm(e) => \A i \in 3 .. Len(e.es) : Statement(e.es[i])

LEMMA PartsOf ==
  ASSUME NEW e \in Exprs, e.t = "list"
  PROVE  \A i \in DOMAIN e.es : e.es[i] \in Exprs
BY ExprFacts

\* There are functions that satisfy these equations: whether an expression belongs to a
\* set of expressions of the kind that holds the parts of its elements.
LEMMA FreeEquation == \A e \in Exprs : DefineFree[e] = FreeOf(DefineFree, e)
PROOF
  <1> DEFINE Good(C) == \A e \in C : e.t = "list" =>
                 (e.es # <<>> => e.es[1] # Sym(Define_)) /\ \A i \in DOMAIN e.es : e.es[i] \in C
             f == [e \in Exprs |-> \E C \in SUBSET Exprs : Good(C) /\ e \in C]
  <1>1. \A e \in Exprs : f[e] = \E C \in SUBSET Exprs : Good(C) /\ e \in C
    OBVIOUS
  <1>2. ASSUME NEW e \in Exprs PROVE f[e] <=> FreeOf(f, e)
    <2>1. ASSUME f[e] PROVE FreeOf(f, e)
      <3>1. PICK C \in SUBSET Exprs : Good(C) /\ e \in C
        BY <1>1, <2>1
      <3>2. ASSUME e.t = "list" PROVE (e.es # <<>> => e.es[1] # Sym(Define_)) /\ \A i \in DOMAIN e.es : e.es[i] \in C
        BY <3>1, <3>2
      <3>3. ASSUME e.t = "list", NEW i \in DOMAIN e.es PROVE f[e.es[i]]
        <4>1. e.es[i] \in C /\ e.es[i] \in Exprs
          BY <3>2, <3>3
        <4> QED BY <1>1, <3>1, <4>1
      <3> HIDE DEF f
      <3> QED BY <3>2, <3>3 DEF FreeOf
    <2>2. ASSUME FreeOf(f, e) PROVE f[e]
      <3>1. CASE e.t # "list"
        <4>1. Good({e}) /\ {e} \in SUBSET Exprs /\ e \in {e}
          BY <3>1
        <4> QED BY <1>1, <4>1
      <3>2. CASE e.t = "list"
        <4>1. (e.es # <<>> => e.es[1] # Sym(Define_)) /\ \A i \in DOMAIN e.es : f[e.es[i]]
          <5> HIDE DEF f
          <5> QED BY <2>2, <3>2 DEF FreeOf
        <4> DEFINE A == {C \in SUBSET Exprs : Good(C)}
                   U == (UNION A) \cup {e}
        <4>2. U \in SUBSET Exprs /\ e \in U
          OBVIOUS
        <4>3. ASSUME NEW i \in DOMAIN e.es PROVE e.es[i] \in UNION A
          <5>1. e.es[i] \in Exprs /\ f[e.es[i]]
            BY <3>2, <4>1, PartsOf
          <5> QED BY <1>1, <5>1
        <4>4. ASSUME NEW x \in UNION A, x.t = "list"
              PROVE  (x.es # <<>> => x.es[1] # Sym(Define_)) /\ \A i \in DOMAIN x.es : x.es[i] \in UNION A
          <5>1. PICK C \in A : x \in C
            OBVIOUS
          <5>2. (x.es # <<>> => x.es[1] # Sym(Define_)) /\ \A i \in DOMAIN x.es : x.es[i] \in C
            BY <4>4, <5>1
          <5> QED BY <5>1, <5>2
        <4> HIDE DEF A
        <4>5. Good(U)
          BY <4>1, <4>3, <4>4
        <4> HIDE DEF U, Good
        <4> QED BY <1>1, <4>2, <4>5
      <3> QED BY <3>1, <3>2
    <2> QED BY <2>1, <2>2
  <1>3. f = [e \in Exprs |-> FreeOf(f, e)]
    <2>1. \A e \in Exprs : f[e] \in BOOLEAN /\ FreeOf(f, e) \in BOOLEAN
      BY <1>1 DEF FreeOf
    <2>2. \A e \in Exprs : f[e] = FreeOf(f, e)
      BY <1>2, <2>1, Zenon
    <2> QED BY <2>2, Zenon
  <1>4. DefineFree = CHOOSE g : g = [e \in Exprs |-> FreeOf(g, e)]
    BY DEF DefineFree, FreeOf
  <1> HIDE DEF f
  <1>5. DefineFree = [e \in Exprs |-> FreeOf(DefineFree, e)]
    BY <1>3, <1>4
  <1> QED BY <1>5, Zenon

LEMMA OrderEquation == \A e \in Exprs : Orderly[e] = OrderOf(Orderly, e)
PROOF
  <1> DEFINE Fine(e) == FunctionForm(e) => \A i \in 3 .. Len(e.es) : Statement(e.es[i])
             Good(C) == \A e \in C : e.t = "list" => Fine(e) /\ \A i \in DOMAIN e.es : e.es[i] \in C
             f == [e \in Exprs |-> \E C \in SUBSET Exprs : Good(C) /\ e \in C]
  <1>1. \A e \in Exprs : f[e] = \E C \in SUBSET Exprs : Good(C) /\ e \in C
    OBVIOUS
  <1>2. ASSUME NEW e \in Exprs PROVE f[e] <=> OrderOf(f, e)
    <2>1. ASSUME f[e] PROVE OrderOf(f, e)
      <3>1. PICK C \in SUBSET Exprs : Good(C) /\ e \in C
        BY <1>1, <2>1
      <3>2. ASSUME e.t = "list" PROVE Fine(e) /\ \A i \in DOMAIN e.es : e.es[i] \in C
        BY <3>1, <3>2
      <3>3. ASSUME e.t = "list", NEW i \in DOMAIN e.es PROVE f[e.es[i]]
        <4>1. e.es[i] \in C /\ e.es[i] \in Exprs
          BY <3>2, <3>3
        <4> QED BY <1>1, <3>1, <4>1
      <3> HIDE DEF f
      <3> QED BY <3>2, <3>3 DEF OrderOf
    <2>2. ASSUME OrderOf(f, e) PROVE f[e]
      <3>1. CASE e.t # "list"
        <4>1. Good({e}) /\ {e} \in SUBSET Exprs /\ e \in {e}
          BY <3>1
        <4> QED BY <1>1, <4>1
      <3>2. CASE e.t = "list"
        <4>1. Fine(e) /\ \A i \in DOMAIN e.es : f[e.es[i]]
          <5> HIDE DEF f
          <5> QED BY <2>2, <3>2 DEF OrderOf
        <4> DEFINE A == {C \in SUBSET Exprs : Good(C)}
                   U == (UNION A) \cup {e}
        <4> HIDE DEF Fine
        <4>2. U \in SUBSET Exprs /\ e \in U
          OBVIOUS
        <4>3. ASSUME NEW i \in DOMAIN e.es PROVE e.es[i] \in UNION A
          <5>1. e.es[i] \in Exprs /\ f[e.es[i]]
            BY <3>2, <4>1, PartsOf
          <5> QED BY <1>1, <5>1
        <4>4. ASSUME NEW x \in UNION A, x.t = "list"
              PROVE  Fine(x) /\ \A i \in DOMAIN x.es : x.es[i] \in UNION A
          <5>1. PICK C \in A : x \in C
            OBVIOUS
          <5>2. Fine(x) /\ \A i \in DOMAIN x.es : x.es[i] \in C
            BY <4>4, <5>1
          <5> QED BY <5>1, <5>2
        <4> HIDE DEF A
        <4>5. Good(U)
          BY <4>1, <4>3, <4>4
        <4> HIDE DEF U, Good
        <4> QED BY <1>1, <4>2, <4>5
      <3> QED BY <3>1, <3>2
    <2> QED BY <2>1, <2>2
  <1>3. f = [e \in Exprs |-> OrderOf(f, e)]
    <2>1. \A e \in Exprs : f[e] \in BOOLEAN /\ OrderOf(f, e) \in BOOLEAN
      BY <1>1 DEF OrderOf
    <2>2. \A e \in Exprs : f[e] = OrderOf(f, e)
      BY <1>2, <2>1, Zenon
    <2> QED BY <2>2, Zenon
  <1>4. Orderly = CHOOSE g : g = [e \in Exprs |-> OrderOf(g, e)]
    BY DEF Orderly, OrderOf, FunctionForm
  <1> HIDE DEF f
  <1>5. Orderly = [e \in Exprs |-> OrderOf(Orderly, e)]
    BY <1>3, <1>4
  <1> QED BY <1>5, Zenon

\* The parts of a statement, and of an expression in order.
LEMMA StatementParts ==
  ASSUME NEW e \in Exprs, e.t = "list", Statement(e)
  PROVE  \A i \in 2 .. Len(e.es) : DefineFree[e.es[i]]
PROOF
  <1>1. CASE DefineFree[e]
    <2>1. FreeOf(DefineFree, e)
      BY <1>1, FreeEquation
    <2>2. e.es \in Seq(Exprs)
      BY ExprFacts
    <2>3. \A i \in 2 .. Len(e.es) : i \in DOMAIN e.es
      BY <2>2
    <2> QED BY <2>1, <2>3 DEF FreeOf
  <1> QED BY <1>1 DEF Statement

LEMMA OrderlyParts ==
  ASSUME NEW e \in Exprs, e.t = "list", Orderly[e]
  PROVE  /\ \A i \in 1 .. Len(e.es) : Orderly[e.es[i]]
         /\ FunctionForm(e) => \A i \in 3 .. Len(e.es) : Statement(e.es[i])
PROOF
  <1>1. OrderOf(Orderly, e)
    BY OrderEquation
  <1>2. e.es \in Seq(Exprs)
    BY ExprFacts
  <1> QED BY <1>1, <1>2 DEF OrderOf

\* A definition is not free of definitions.
LEMMA DefinitionForm ==
  ASSUME TableOK(st), NEW e \in Exprs, IsDefine(e)
  PROVE  e.t = "list" /\ e.es[1] = Sym(Define_) /\ ~DefineFree[e]
PROOF
  <1>1. OpKind(e) = "special" /\ e.es[1].s = Define_ /\ Len(e.es) >= 3
    BY DEF IsDefine, IsForm
  <1>2. e.t = "list" /\ e.es \in Seq(Exprs) /\ Len(e.es) \in Nat \ {0} /\ e.es[1] \in Exprs
    BY <1>1, FormFacts
  <1>3. e.es[1].t = "sym"
    BY <1>1, <1>2 DEF OpKind, OpId
  <1>4. e.es[1] = Sym(Define_)
    <2>1. e.es[1] \in Atoms \/ e.es[1] \in [t : {"list"}, es : Seq(Exprs)]
      BY <1>2, CodegenAssumption
    <2>2. e.es[1] \in [t : {"sym", "str"}, s : Names]
      BY <1>3, <2>1 DEF Atoms
    <2> QED BY <1>1, <1>3, <2>2 DEF Sym
  <1>5. ~FreeOf(DefineFree, e)
    BY <1>2, <1>4 DEF FreeOf
  <1> QED BY <1>2, <1>4, <1>5, FreeEquation

-----------------------------------------------------------------------------
(* What is still to be compiled *)

\* Tasks for expressions: functions are left with statements.
Sorted(wk) ==
  \A d \in 1 .. Len(wk) : At(wk, d).do = "expr" =>
    IF EndBelow(wk, d) THEN Statement(At(wk, d).e) ELSE Orderly[At(wk, d).e]

\* Tasks that will each give out a slot, or may.
Wants(t) == t.do \in {"local", "param"} \/ (t.do = "expr" /\ ~DefineFree[t.e])
Pending(wk) == {d \in 1 .. Len(wk) : EndBelow(wk, d) /\ Wants(At(wk, d))}

LEMMA EndsKept ==
  ASSUME NEW wk, NEW ts, NEW wk1, ReplacesTop(wk, ts, wk1)
  PROVE  /\ \A d \in 1 .. Len(wk) : EndBelow(wk1, d) <=> EndBelow(wk, d)
         /\ (\A i \in 1 .. Len(ts) : ts[i].do # "endfunc") =>
              \A d \in 1 .. Len(wk1) : d \notin 1 .. Len(wk) - 1 => (EndBelow(wk1, d) <=> EndBelow(wk, Len(wk)))
PROOF
  <1> DEFINE n == Len(wk)
             m == Len(ts)
  <1>1. /\ m \in Nat /\ n \in Nat \ {0} /\ Len(wk1) = n - 1 + m
        /\ \A d \in 1 .. n - 1 : At(wk1, d) = At(wk, d)
        /\ \A i \in 1 .. m : At(wk1, n + m - i) = ts[i]
        /\ \A d \in 1 .. Len(wk1) : d \notin 1 .. n - 1 => \E i \in 1 .. m : d = n + m - i
    BY DEF ReplacesTop
  <1> HIDE DEF n, m
  <1>2. ASSUME NEW d \in 1 .. n PROVE EndBelow(wk1, d) <=> EndBelow(wk, d)
    <2>1. \A c \in 1 .. d - 1 : At(wk1, c) = At(wk, c)
      BY <1>1
    <2> QED BY <2>1 DEF EndBelow
  <1>3. ASSUME \A i \in 1 .. m : ts[i].do # "endfunc", NEW d \in 1 .. Len(wk1), d \notin 1 .. n - 1
        PROVE  EndBelow(wk1, d) <=> EndBelow(wk, n)
    <2>1. ASSUME EndBelow(wk1, d) PROVE EndBelow(wk, n)
      <3>1. PICK c \in 1 .. d - 1 : At(wk1, c).do = "endfunc"
        BY <2>1 DEF EndBelow
      <3>2. c \in 1 .. Len(wk1)
        BY <1>1
      <3>3. ASSUME c \notin 1 .. n - 1 PROVE FALSE
        <4>1. PICK i \in 1 .. m : c = n + m - i
          BY <1>1, <3>2, <3>3
        <4>2. At(wk1, c) = ts[i]
          BY <1>1, <4>1
        <4> QED BY <1>3, <3>1, <4>2
      <3> QED BY <1>1, <3>1, <3>3 DEF EndBelow
    <2>2. ASSUME EndBelow(wk, n) PROVE EndBelow(wk1, d)
      <3>1. PICK c \in 1 .. n - 1 : At(wk, c).do = "endfunc"
        BY <2>2 DEF EndBelow
      <3>2. c \in 1 .. d - 1 /\ At(wk1, c) = At(wk, c)
        BY <1>1, <1>3
      <3> QED BY <3>1, <3>2 DEF EndBelow
    <2> QED BY <2>1, <2>2
  <1> QED BY <1>2, <1>3 DEF n, m

LEMMA SortedAfter ==
  ASSUME NEW wk, NEW ts, NEW wk1, ReplacesTop(wk, ts, wk1), Sorted(wk),
         \A i \in 1 .. Len(ts) : ts[i].do # "endfunc",
         \A i \in 1 .. Len(ts) : ts[i].do = "expr" =>
           IF EndBelow(wk, Len(wk)) THEN DefineFree[ts[i].e] ELSE Orderly[ts[i].e]
  PROVE  Sorted(wk1)
PROOF
  <1> SUFFICES ASSUME NEW d \in 1 .. Len(wk1), At(wk1, d).do = "expr"
               PROVE  IF EndBelow(wk1, d) THEN Statement(At(wk1, d).e) ELSE Orderly[At(wk1, d).e]
    BY DEF Sorted
  <1>1. CASE d \in 1 .. Len(wk) - 1
    <2>1. d \in 1 .. Len(wk) /\ At(wk1, d) = At(wk, d)
      BY <1>1 DEF ReplacesTop
    <2>2. EndBelow(wk1, d) <=> EndBelow(wk, d)
      BY <2>1, EndsKept
    <2> QED BY <2>1, <2>2 DEF Sorted
  <1>2. CASE d \notin 1 .. Len(wk) - 1
    <2>1. PICK i \in 1 .. Len(ts) : At(wk1, d) = ts[i]
      BY <1>2 DEF ReplacesTop
    <2>2. EndBelow(wk1, d) <=> EndBelow(wk, Len(wk))
      BY <1>2, EndsKept
    <2> QED BY <2>1, <2>2 DEF Statement
  <1> QED BY <1>1, <1>2

LEMMA PendingCount ==
  ASSUME NEW wk \in Seq(Tasks), NEW wk1 \in Seq(Tasks), Pending(wk1) \subseteq Pending(wk)
  PROVE  /\ IsFiniteSet(Pending(wk)) /\ Cardinality(Pending(wk)) \in Nat /\ Cardinality(Pending(wk1)) \in Nat
         /\ Cardinality(Pending(wk1)) <= Cardinality(Pending(wk))
         /\ \A d \in Pending(wk) : d \notin Pending(wk1) => Cardinality(Pending(wk1)) + 1 <= Cardinality(Pending(wk))
PROOF
  <1> DEFINE A == Pending(wk)
             B == Pending(wk1)
  <1>1. IsFiniteSet(A)
    <2>1. A \in SUBSET (1 .. Len(wk)) /\ Len(wk) \in Int /\ 1 \in Int
      BY DEF Pending
    <2>2. IsFiniteSet(1 .. Len(wk))
      BY <2>1, FS_Interval
    <2> HIDE DEF A
    <2> QED BY <2>1, <2>2, FS_Subset
  <1>2. IsFiniteSet(B) /\ Cardinality(B) <= Cardinality(A)
    BY <1>1, FS_Subset
  <1>3. Cardinality(A) \in Nat /\ Cardinality(B) \in Nat
    BY <1>1, <1>2, FS_CardinalityType
  <1>4. ASSUME NEW d \in A, d \notin B PROVE Cardinality(B) + 1 <= Cardinality(A)
    <2>1. IsFiniteSet(A \ {d}) /\ Cardinality(A \ {d}) = Cardinality(A) - 1
      BY <1>1, <1>4, FS_RemoveElement
    <2>2. B \in SUBSET (A \ {d})
      BY <1>4
    <2>3. Cardinality(B) <= Cardinality(A \ {d})
      BY <2>1, <2>2, FS_Subset
    <2> HIDE DEF A, B
    <2> QED BY <1>3, <2>1, <2>3
  <1> QED BY <1>1, <1>2, <1>3, <1>4

\* No more slots are wanted after a step that adds no task that does.
LEMMA PendingAfter ==
  ASSUME NEW wk \in Seq(Tasks), NEW ts, NEW wk1, ReplacesTop(wk, ts, wk1),
         \A i \in 1 .. Len(ts) : ts[i].do # "endfunc",
         \A i \in 1 .. Len(ts) : ~Wants(ts[i])
  PROVE  /\ Pending(wk1) \subseteq Pending(wk) /\ Len(wk) \notin Pending(wk1)
PROOF
  <1>1. ASSUME NEW d \in Pending(wk1) PROVE d \in Pending(wk) /\ d # Len(wk)
    <2>1. d \in 1 .. Len(wk1) /\ EndBelow(wk1, d) /\ Wants(At(wk1, d))
      BY DEF Pending
    <2>2. d \in 1 .. Len(wk) - 1
      BY <2>1 DEF ReplacesTop
    <2>3. d \in 1 .. Len(wk) /\ At(wk1, d) = At(wk, d) /\ d # Len(wk)
      BY <2>2 DEF ReplacesTop
    <2>4. EndBelow(wk, d)
      BY <2>1, <2>3, EndsKept
    <2> QED BY <2>1, <2>3, <2>4 DEF Pending
  <1> QED BY <1>1

-----------------------------------------------------------------------------
(* Slots and frames *)

\* Instructions that use a slot; code whose slots lie in its frames; and code
\* without either.
Touches(x) == x[1] \in {"saveslot", "loadslot"}
Framed(code) == \A i \in 1 .. Len(code) : Touches(code[i]) => code[i][2] <= Frame(code, i)
Frameless(code) == \A i \in 1 .. Len(code) : ~Touches(code[i]) /\ code[i][1] # "reserve"

\* Code without a frame of its own, behind other code.
LEMMA FrameAfter ==
  ASSUME NEW f \in Seq(Instructions), NEW c \in Seq(Instructions), \A i \in 1 .. Len(c) : ~Mark(c[i])
  PROVE  /\ \A i \in 1 .. Len(f) : Frame(f \o c, i) = Frame(f, i)
         /\ \A j \in 1 .. Len(c) + 1 : Frame(f \o c, Len(f) + j) = Frame(f, Len(f) + 1)
PROOF
  <1>1. /\ Len(f) \in Nat /\ Len(c) \in Nat
        /\ \A i \in 1 .. Len(f) : (f \o c)[i] = f[i]
        /\ \A j \in 1 .. Len(c) : (f \o c)[Len(f) + j] = c[j]
    BY LongConcat
  <1>2. ASSUME NEW i \in 1 .. Len(f) + 1 PROVE Frame(f \o c, i) = Frame(f, i)
    <2>1. i \in Nat /\ \A r \in 1 .. i - 1 : r \in 1 .. Len(f)
      BY <1>1
    <2>2. \A r \in 1 .. i - 1 : (f \o c)[r] = f[r]
      BY <1>1, <2>1
    <2> QED BY <2>1, <2>2, FramePrefix
  <1>3. ASSUME NEW j \in 1 .. Len(c) + 1 PROVE Frame(f \o c, Len(f) + j) = Frame(f, Len(f) + 1)
    <2>1. ASSUME NEW r \in Len(f) + 1 .. (Len(f) + j) - 1 PROVE ~Mark((f \o c)[r])
      <3>1. r - Len(f) \in 1 .. Len(c) /\ r = Len(f) + (r - Len(f))
        BY <1>1
      <3> QED BY <1>1, <3>1
    <2>2. Len(f) + 1 \in Nat /\ Len(f) + j \in Nat /\ Len(f) + 1 <= Len(f) + j /\ Len(f) + 1 \in 1 .. Len(f) + 1
      BY <1>1
    <2>3. Frame(f \o c, Len(f) + j) = Frame(f \o c, Len(f) + 1)
      BY <2>1, <2>2, FrameGoesOn
    <2> QED BY <1>2, <2>2, <2>3
  <1>4. \A i \in 1 .. Len(f) : i \in 1 .. Len(f) + 1
    BY <1>1
  <1> QED BY <1>2, <1>3, <1>4

LEMMA FramedAfter ==
  ASSUME NEW f \in Seq(Instructions), NEW c \in Seq(Instructions), \A i \in 1 .. Len(c) : ~Mark(c[i]),
         Framed(f), \A i \in 1 .. Len(c) : Touches(c[i]) => c[i][2] <= Frame(f, Len(f) + 1)
  PROVE  Framed(f \o c)
PROOF
  <1>1. /\ \A i \in 1 .. Len(f) : (f \o c)[i] = f[i]
        /\ \A j \in 1 .. Len(c) : (f \o c)[Len(f) + j] = c[j] /\ j \in 1 .. Len(c) + 1
        /\ \A i \in 1 .. Len(f \o c) : i \in 1 .. Len(f) \/ \E j \in 1 .. Len(c) : i = Len(f) + j
    BY LongConcat
  <1>2. ASSUME NEW i \in 1 .. Len(f), Touches((f \o c)[i]) PROVE (f \o c)[i][2] <= Frame(f \o c, i)
    BY <1>1, <1>2, FrameAfter DEF Framed
  <1>3. ASSUME NEW j \in 1 .. Len(c), Touches((f \o c)[Len(f) + j])
        PROVE  (f \o c)[Len(f) + j][2] <= Frame(f \o c, Len(f) + j)
    BY <1>1, <1>3, FrameAfter
  <1> QED BY <1>1, <1>2, <1>3 DEF Framed

LEMMA AdjacentAfter ==
  ASSUME NEW f \in Seq(Instructions), NEW c \in Seq(Instructions), Adjacent(f), Adjacent(c)
  PROVE  Adjacent(f \o c)
PROOF
  <1>1. /\ Len(f) \in Nat /\ Len(c) \in Nat
        /\ \A i \in 1 .. Len(f) : (f \o c)[i] = f[i]
        /\ \A j \in 1 .. Len(c) : (f \o c)[Len(f) + j] = c[j]
        /\ \A i \in 1 .. Len(f \o c) : i \in 1 .. Len(f) \/ \E j \in 1 .. Len(c) : i = Len(f) + j
    BY LongConcat
  <1>2. ASSUME NEW i \in 1 .. Len(f), (f \o c)[i][1] = "reserve"
        PROVE  i > 1 /\ (f \o c)[i - 1] = <<"mov", "rbp", "rsp">>
    <2>1. i > 1 /\ f[i - 1] = <<"mov", "rbp", "rsp">>
      BY <1>1, <1>2 DEF Adjacent
    <2>2. i - 1 \in 1 .. Len(f)
      BY <1>1, <2>1
    <2> QED BY <1>1, <2>1, <2>2
  <1>3. ASSUME NEW j \in 1 .. Len(c), (f \o c)[Len(f) + j][1] = "reserve"
        PROVE  Len(f) + j > 1 /\ (f \o c)[(Len(f) + j) - 1] = <<"mov", "rbp", "rsp">>
    <2>1. j > 1 /\ c[j - 1] = <<"mov", "rbp", "rsp">>
      BY <1>1, <1>3 DEF Adjacent
    <2>2. j - 1 \in 1 .. Len(c) /\ Len(f) + (j - 1) = (Len(f) + j) - 1
      BY <1>1, <2>1
    <2>3. (f \o c)[Len(f) + (j - 1)] = c[j - 1]
      BY <1>1, <2>2
    <2>4. Len(f) + j > 1
      BY <1>1, <2>1
    <2> QED BY <2>1, <2>2, <2>3, <2>4
  <1> QED BY <1>1, <1>2, <1>3 DEF Adjacent

LEMMA FramelessAfter ==
  ASSUME NEW f \in Seq(Instructions), NEW c \in Seq(Instructions), Frameless(f), Frameless(c)
  PROVE  Frameless(f \o c)
PROOF
  <1>1. /\ \A i \in 1 .. Len(f) : (f \o c)[i] = f[i]
        /\ \A j \in 1 .. Len(c) : (f \o c)[Len(f) + j] = c[j]
        /\ \A i \in 1 .. Len(f \o c) : i \in 1 .. Len(f) \/ \E j \in 1 .. Len(c) : i = Len(f) + j
    BY LongConcat
  <1> QED BY <1>1 DEF Frameless

LEMMA UnmarkedAdjacent == ASSUME NEW c, \A i \in 1 .. Len(c) : ~Mark(c[i]) PROVE Adjacent(c)
BY DEF Mark, Adjacent

\* The frames of functions behind main.
LEMMA FrameShift ==
  ASSUME NEW tx \in Seq(Instructions), NEW f \in Seq(Instructions), Frameless(tx), Framed(f),
         \A j \in 1 .. Len(f) : Touches(f[j]) => f[j][2] > 0
  PROVE  Framed(tx \o f)
PROOF
  <1>1. /\ Len(tx) \in Nat /\ Len(f) \in Nat
        /\ \A i \in 1 .. Len(tx) : (tx \o f)[i] = tx[i]
        /\ \A j \in 1 .. Len(f) : (tx \o f)[Len(tx) + j] = f[j]
        /\ \A i \in 1 .. Len(tx \o f) : i \in 1 .. Len(tx) \/ \E j \in 1 .. Len(f) : i = Len(tx) + j
    BY LongConcat
  <1> DEFINE n == Len(tx)
             im == tx \o f
  <1> HIDE DEF n, im
  <1>2. ASSUME NEW j \in 1 .. Len(f), Touches(f[j]) PROVE f[j][2] <= Frame(im, n + j)
    <2>1. f[j][2] <= Frame(f, j) /\ f[j][2] > 0
      BY <1>2 DEF Framed
    <2>2. Frame(f, j) \in Nat /\ j \in Nat
      BY <1>1, FrameNat
    <2>3. Marks(f, j) # {}
      <3>1. Marks(f, j) = {} => Frame(f, j) = 0
        BY NoFrame
      <3>2. f[j][2] <= 0 /\ f[j][2] > 0 => FALSE
        <4>1. f[j][2] \in Nat
          <5>1. f[j] \in Instructions
            OBVIOUS
          <5>2. f[j] \in Neutral
            BY <1>2, <5>1 DEF Instructions, BodyCode, PushRax, Touches
          <5>3. f[j][1] \in {"saveslot", "loadslot"}
            BY <1>2 DEF Touches
          <5> QED BY <5>2, <5>3, NeutralOps
        <4> QED BY <4>1
      <3> QED BY <2>1, <3>1, <3>2
    <2>4. PICK r \in Marks(f, j) : \A s \in Marks(f, j) : s <= r
      BY <2>2, <2>3, LastMark
    <2>5. r \in 1 .. j - 1 /\ Mark(f[r]) /\ r \in 1 .. Len(f)
      BY <1>1, <2>4 DEF Marks
    <2>6. n + r \in Marks(im, n + j) /\ im[n + r] = f[r]
      <3>1. im[n + r] = f[r]
        BY <1>1, <2>5 DEF im, n
      <3>2. n + r \in 1 .. (n + j) - 1
        BY <1>1, <2>2, <2>5 DEF n
      <3> QED BY <2>5, <3>1, <3>2 DEF Marks
    <2>7. ASSUME NEW s \in Marks(im, n + j) PROVE s <= n + r
      <3>1. s \in 1 .. (n + j) - 1 /\ Mark(im[s]) /\ n \in Nat
        BY <1>1 DEF Marks, n
      <3>2. CASE s <= n
        BY <2>5, <3>1, <3>2
      <3>3. CASE ~(s <= n)
        <4>1. s - n \in 1 .. j - 1 /\ s = n + (s - n) /\ s - n \in 1 .. Len(f)
          BY <1>1, <2>2, <3>1, <3>3
        <4>2. im[n + (s - n)] = f[s - n]
          BY <1>1, <4>1 DEF im, n
        <4>3. s - n \in Marks(f, j)
          BY <3>1, <4>1, <4>2 DEF Marks
        <4>4. s - n <= r
          BY <2>4, <4>3
        <4> QED BY <2>5, <3>1, <4>1, <4>4
      <3> QED BY <3>2, <3>3
    <2>8. n + j \in Nat
      BY <1>1, <2>2 DEF n
    <2>9. Frame(im, n + j) = Size(im[n + r]) /\ Frame(f, j) = Size(f[r])
      BY <2>2, <2>4, <2>6, <2>7, <2>8, FrameIs
    <2> QED BY <2>1, <2>6, <2>9
  <1>3. \A i \in 1 .. n : ~Touches(im[i])
    BY <1>1 DEF Frameless, im, n
  <1>4. \A j \in 1 .. Len(f) : im[n + j] = f[j]
    BY <1>1 DEF im, n
  <1>5. \A i \in 1 .. Len(im) : i \in 1 .. n \/ \E j \in 1 .. Len(f) : i = n + j
    BY <1>1 DEF im, n
  <1>6. Framed(im)
    BY <1>2, <1>3, <1>4, <1>5 DEF Framed
  <1> QED BY <1>6 DEF im

-----------------------------------------------------------------------------
(* Frames have room for what the generator gives out: the third invariant *)

\* Local variables have the slots that the scope of the function has counted.
LocalsIn(t) ==
  /\ Depth(t) > 0 =>
       /\ t.scopes[1].offset = 0
       /\ \A n \in Names : t.scopes[1].map[n] # NoInfo => t.infos[t.scopes[1].map[n]].kind # "local"
  /\ Depth(t) = 2 =>
       \A n \in Names : t.scopes[2].map[n] # NoInfo => t.infos[t.scopes[2].map[n]].offset <= t.scopes[2].offset

\* The frame of the function being compiled has a slot for every task that wants one.
Wanted(t, wk) == t.scopes[2].offset + SlotSize * Cardinality(Pending(wk))
Room == inFunc => Wanted(st, work) <= Frame(func, Len(func) + 1)

Nice == \A i \in DOMAIN program : Orderly[program[i]]

SInv ==
  /\ Adjacent(func) /\ Frameless(text) /\ LocalsIn(st)
  /\ Nice => Sorted(work) /\ Framed(func) /\ Room

\* Code c may be written where the generator is.
InPlace(c) ==
  \A i \in 1 .. Len(c) :
    /\ ~Mark(c[i])
    /\ Touches(c[i]) => inFunc /\ (Nice => c[i][2] <= Frame(func, Len(func) + 1))

\* Tasks ts fit the place of the task on top.
Suits(ts) ==
  \A i \in 1 .. Len(ts) : ts[i].do = "expr" => IF inFunc THEN DefineFree[ts[i].e] ELSE Orderly[ts[i].e]

LEMMA TopNow ==
  ASSUME CInv, status = "running", NEW ts \in Seq(Tasks), Then(ts)
  PROVE  /\ work \in Seq(Tasks) /\ work' \in Seq(Tasks) /\ ReplacesTop(work, ts, work')
         /\ Len(work) \in 1 .. Len(work) /\ Task = At(work, Len(work))
         /\ Task.do # "endfunc" => (inFunc <=> EndBelow(work, Len(work)))
PROOF
  <1>1. Generated /\ inFunc \in BOOLEAN
    BY CInvFacts DEF DataOK
  <1>2. work \in Seq(Tasks) /\ work # <<>>
    BY <1>1, TopTask
  <1>3. ReplacesTop(work, ts, work')
    BY <1>2, TasksAfter DEF Then
  <1>4. Len(work) \in Nat \ {0} /\ Task = At(work, Len(work))
    BY <1>2, TaskOnTop DEF Task
  <1>5. Task.do # "endfunc" => (inFunc <=> EndBelow(work, Len(work)))
    BY <1>1, InFunction
  <1> QED BY <1>2, <1>3, <1>4, <1>5 DEF ReplacesTop

\* A step that writes c and leaves ts to do.
LEMMA StepSlots ==
  ASSUME CInv, SInv, status = "running", UNCHANGED <<program, inFunc>>,
         NEW c \in Seq(Instructions), Writes(c), InPlace(c),
         NEW ts \in Seq(Tasks), Then(ts), Task.do # "endfunc",
         \A i \in 1 .. Len(ts) : ts[i].do # "endfunc",
         Nice => Suits(ts), LocalsIn(st'),
         Nice /\ inFunc => Wanted(st', work') \in Int /\ Wanted(st', work') <= Wanted(st, work) /\ Wanted(st, work) \in Int
  PROVE  SInv'
PROOF
  <1>1. func \in Seq(Instructions) /\ text \in Seq(Instructions)
    BY DEF CInv, Generated, Code, Shape
  <1>2. Adjacent(func) /\ Frameless(text) /\ (Nice => Sorted(work) /\ Framed(func) /\ Room)
    BY DEF SInv
  <1>3. Nice' <=> Nice
    BY DEF Nice
  <1>4. \A i \in 1 .. Len(c) : ~Mark(c[i])
    BY DEF InPlace
  <1>5. Adjacent(func') /\ Frameless(text')
    <2>1. CASE inFunc
      <3>1. func' = func \o c /\ text' = text
        BY <2>1 DEF Writes
      <3> QED BY <1>1, <1>2, <1>4, <3>1, AdjacentAfter, UnmarkedAdjacent
    <2>2. CASE ~inFunc
      <3>1. func' = func /\ text' = text \o c
        BY <2>2 DEF Writes
      <3>2. Frameless(c)
        BY <1>4, <2>2 DEF InPlace, Frameless, Mark
      <3> QED BY <1>1, <1>2, <3>1, <3>2, FramelessAfter
    <2> QED BY <2>1, <2>2
  <1>6. ASSUME Nice PROVE Sorted(work')
    <2>1. ReplacesTop(work, ts, work') /\ (inFunc <=> EndBelow(work, Len(work)))
      BY TopNow
    <2>2. \A i \in 1 .. Len(ts) : ts[i].do = "expr" =>
            IF EndBelow(work, Len(work)) THEN DefineFree[ts[i].e] ELSE Orderly[ts[i].e]
      BY <1>6, <2>1 DEF Suits
    <2> QED BY <1>2, <1>6, <2>1, <2>2, SortedAfter
  <1>7. ASSUME Nice PROVE Framed(func') /\ Room'
    <2>1. CASE inFunc
      <3>1. func' = func \o c
        BY <2>1 DEF Writes
      <3>2. \A i \in 1 .. Len(c) : Touches(c[i]) => c[i][2] <= Frame(func, Len(func) + 1)
        BY <1>7 DEF InPlace
      <3>3. Framed(func')
        BY <1>1, <1>2, <1>4, <1>7, <3>1, <3>2, FramedAfter
      <3>4. Frame(func', Len(func') + 1) = Frame(func, Len(func) + 1)
        <4>1. /\ Len(func) \in Nat /\ Len(c) \in Nat /\ Len(func \o c) = Len(func) + Len(c)
          BY <1>1, LongConcat
        <4>2. Len(c) + 1 \in 1 .. Len(c) + 1 /\ Len(func \o c) + 1 = Len(func) + (Len(c) + 1)
          BY <4>1
        <4> QED BY <1>1, <1>4, <3>1, <4>2, FrameAfter
      <3>5. Frame(func, Len(func) + 1) \in Nat
        <4>1. Len(func) + 1 \in 1 .. Len(func) + 1
          BY <1>1
        <4> QED BY <1>1, <4>1, FrameNat
      <3>6. Wanted(st, work) <= Frame(func, Len(func) + 1)
        BY <1>2, <1>7, <2>1 DEF Room
      <3>7. Wanted(st', work') <= Frame(func', Len(func') + 1)
        BY <1>7, <2>1, <3>4, <3>5, <3>6
      <3>8. Room'
        BY <3>7 DEF Room, Wanted
      <3> QED BY <3>3, <3>8
    <2>2. CASE ~inFunc
      BY <1>2, <1>7, <2>2 DEF Writes, Room
    <2> QED BY <2>1, <2>2
  <1> QED BY <1>3, <1>5, <1>6, <1>7 DEF SInv

\* Code without slots may be written everywhere.
LEMMA SlotlessInPlace ==
  ASSUME NEW c, \A i \in 1 .. Len(c) : ~Mark(c[i]) /\ ~Touches(c[i])
  PROVE  InPlace(c)
BY DEF InPlace

LEMMA WantedType ==
  ASSUME CInv, inFunc, status = "running"
  PROVE  /\ Depth(st) = 2 /\ st.scopes[2].offset \in Nat /\ Cardinality(Pending(work)) \in Nat
         /\ Wanted(st, work) \in Int
PROOF
  <1>1. Generated /\ inFunc \in BOOLEAN /\ Depth(st) = 2 /\ TableOK(st)
    BY CInvFacts
  <1>2. st.scopes[2].offset \in Nat
    <2>1. st.scopes \in Seq(ScopeSet) /\ Len(st.scopes) = 2
      BY <1>1 DEF TableOK, Depth
    <2>2. st.scopes[2] \in ScopeSet
      BY <2>1
    <2> QED BY <2>2 DEF ScopeSet
  <1>3. work \in Seq(Tasks)
    BY <1>1, TopTask
  <1>4. Cardinality(Pending(work)) \in Nat
    BY <1>3, PendingCount
  <1> QED BY <1>1, <1>2, <1>4 DEF Wanted, SlotSize

\* Steps that leave the symbol table alone.
LEMMA StillSlots ==
  ASSUME CInv, SInv, status = "running", UNCHANGED <<program, inFunc, st>>,
         NEW c \in Seq(Instructions), Writes(c), InPlace(c),
         NEW ts \in Seq(Tasks), Then(ts), Task.do # "endfunc",
         \A i \in 1 .. Len(ts) : ts[i].do \notin {"endfunc", "local", "param"},
         Nice => Suits(ts)
  PROVE  SInv'
PROOF
  <1>1. LocalsIn(st')
    BY DEF SInv
  <1>2. ASSUME Nice, inFunc
        PROVE  Wanted(st', work') \in Int /\ Wanted(st', work') <= Wanted(st, work) /\ Wanted(st, work) \in Int
    <2>1. /\ work \in Seq(Tasks) /\ work' \in Seq(Tasks) /\ ReplacesTop(work, ts, work')
      BY TopNow
    <2>2. \A i \in 1 .. Len(ts) : ~Wants(ts[i])
      BY <1>2 DEF Wants, Suits
    <2>3. Pending(work') \subseteq Pending(work)
      BY <2>1, <2>2, PendingAfter
    <2>4. /\ Cardinality(Pending(work)) \in Nat /\ Cardinality(Pending(work')) \in Nat
          /\ Cardinality(Pending(work')) <= Cardinality(Pending(work))
      BY <2>1, <2>3, PendingCount
    <2>5. st.scopes[2].offset \in Nat /\ st' = st
      BY <1>2, WantedType
    <2> QED BY <2>4, <2>5 DEF Wanted, SlotSize
  <1> QED BY <1>1, <1>2, StepSlots

\* Steps that only start something.
LEMMA StartSlots ==
  ASSUME CInv, SInv, status = "running", UNCHANGED <<program, inFunc, st, sections>>,
         NEW ts \in Seq(Tasks), Then(ts), Task.do # "endfunc",
         \A i \in 1 .. Len(ts) : ts[i].do \notin {"endfunc", "local", "param"},
         Nice => Suits(ts)
  PROVE  SInv'
PROOF
  <1>1. <<>> \in Seq(Instructions) /\ \A i \in 1 .. Len(<<>>) : FALSE
    OBVIOUS
  <1>2. Writes(<<>>)
    BY NothingWritten DEF CInv, sections
  <1>3. InPlace(<<>>)
    BY <1>1, SlotlessInPlace
  <1> QED BY <1>1, <1>2, <1>3, StillSlots

\* Steps that only write.
LEMMA WriteSlots ==
  ASSUME CInv, SInv, status = "running", UNCHANGED <<program, inFunc, st>>,
         NEW c \in Seq(Instructions), Writes(c), InPlace(c), Then(<<>>), Task.do # "endfunc"
  PROVE  SInv'
PROOF
  <1>1. <<>> \in Seq(Tasks) /\ \A i \in 1 .. Len(<<>>) : FALSE
    OBVIOUS
  <1>2. Suits(<<>>)
    BY <1>1 DEF Suits
  <1> QED BY <1>1, <1>2, StillSlots

\* What an expression is made of suits its place.
LEMMA PartsSuit ==
  ASSUME CInv, SInv, Nice, status = "running", Task.do = "expr", Task.e \in Exprs, Task.e.t = "list",
         NEW i \in 2 .. Len(Task.e.es)
  PROVE  IF inFunc THEN DefineFree[Task.e.es[i]] ELSE Orderly[Task.e.es[i]]
PROOF
  <1>1. Generated /\ inFunc \in BOOLEAN
    BY CInvFacts DEF DataOK
  <1>2. work \in Seq(Tasks) /\ work # <<>>
    BY <1>1, TopTask
  <1>3. Len(work) \in 1 .. Len(work) /\ Task = At(work, Len(work))
    BY <1>2, TaskOnTop DEF Task
  <1>4. inFunc <=> EndBelow(work, Len(work))
    BY <1>1, InFunction
  <1>5. IF inFunc THEN Statement(Task.e) ELSE Orderly[Task.e]
    <2>1. Sorted(work)
      BY DEF SInv
    <2> QED BY <1>3, <1>4, <2>1 DEF Sorted
  <1>6. ASSUME inFunc PROVE DefineFree[Task.e.es[i]]
    BY <1>5, <1>6, StatementParts
  <1>7. ASSUME ~inFunc PROVE Orderly[Task.e.es[i]]
    <2>1. Task.e.es \in Seq(Exprs)
      BY ExprFacts
    <2>2. i \in 1 .. Len(Task.e.es)
      BY <2>1
    <2> QED BY <1>5, <1>7, <2>2, OrderlyParts
  <1> QED BY <1>6, <1>7

-----------------------------------------------------------------------------
(* Every step of the code generator keeps the slots in their frames *)

\* What symbol_table_define does to the slots counted.
LEMMA DefineLocals ==
  ASSUME NEW t, TableOK(t), LiveHeld(t), Depth(t) \in 1 .. 2, LocalsIn(t), NEW info \in NewInfos,
         info.kind = "local" <=> Depth(t) = 2, NEW t1, t1 = Define(t, info)
  PROVE  /\ LocalsIn(t1) /\ Depth(t1) = Depth(t)
         /\ info.kind = "local" => /\ t1.scopes[2].offset = t.scopes[2].offset + SlotSize
                                   /\ ReturnedOffset(t1) = t1.scopes[2].offset
PROOF
  <1> DEFINE D == Depth(t)
             id == Len(t.infos) + 1
             offset == Current(t).offset + (IF info.kind = "local" THEN SlotSize ELSE 0)
             placed == IF info.kind = "local" THEN [info EXCEPT !.offset = offset] ELSE info
             map == [t.scopes[D].map EXCEPT ![info.name] = id]
             scope == [map |-> map, offset |-> offset]
  <1>1. t.scopes \in Seq(ScopeSet) /\ t.infos \in Seq(InfoSet)
    BY DEF TableOK
  <1>2. D \in Nat \ {0} /\ D = Len(t.scopes) /\ D \in 1 .. D /\ D > 0
    <2>1. D \in Nat /\ D = Len(t.scopes) /\ D \in 1 .. 2
      BY <1>1 DEF Depth
    <2> HIDE DEF D
    <2>2. D = 1 \/ D = 2
      BY <2>1
    <2>3. D \in Nat \ {0} /\ D \in 1 .. D /\ D > 0
      BY <2>2
    <2> QED BY <2>1, <2>3
  <1>3. t.scopes[D] \in ScopeSet /\ Current(t) = t.scopes[D]
    BY <1>1, <1>2 DEF Current
  <1>4. Defined(t, info, t1)
    BY <1>2, DefineTable
  <1>5. \A n \in Names : map[n] = IF n = info.name THEN id ELSE t.scopes[D].map[n]
    BY <1>3 DEF ScopeSet
  <1>6. scope.map = map /\ scope.offset = offset
    OBVIOUS
  <1>7. /\ t1.scopes = [t.scopes EXCEPT ![D] = scope] /\ t1.infos = Append(t.infos, placed)
    BY <1>2, <1>3 DEF Define
  <1>8. /\ t.scopes[D].offset \in Nat
        /\ offset = t.scopes[D].offset + (IF info.kind = "local" THEN SlotSize ELSE 0)
    BY <1>3 DEF ScopeSet
  <1>9. /\ placed.kind = info.kind
        /\ info.kind = "local" => placed.offset = offset
    BY DEF NewInfos
  <1>10. Len(t1.infos) = id /\ id \in Nat
    BY <1>1, <1>4 DEF Defined
  <1>11. t1.infos[id] = placed
    BY <1>1, <1>7
  <1> HIDE DEF scope, map, offset, placed
  <1>12. \A d \in 1 .. D : t1.scopes[d] = IF d = D THEN scope ELSE t.scopes[d]
    BY <1>1, <1>2, <1>7
  <1>13. ASSUME NEW d \in 1 .. D, NEW n \in Names, t.scopes[d].map[n] # NoInfo
         PROVE  t1.infos[t.scopes[d].map[n]] = t.infos[t.scopes[d].map[n]]
    <2>1. t.scopes[d].map[n] \in Ids(t)
      BY <1>13 DEF TableOK
    <2> QED BY <1>4, <2>1 DEF Defined
  <1>14. Depth(t1) = D
    BY <1>4 DEF Defined
  <1>15. CASE D = 1
    <2>1. t1.scopes[1] = scope /\ 1 \in 1 .. D
      BY <1>12, <1>15
    <2>2. scope.offset = 0
      BY <1>6, <1>8, <1>15 DEF LocalsIn
    <2>3. ASSUME NEW n \in Names, scope.map[n] # NoInfo PROVE t1.infos[scope.map[n]].kind # "local"
      <3>1. CASE n = info.name
        BY <1>5, <1>6, <1>9, <1>11, <1>15, <3>1
      <3>2. CASE n # info.name
        <4>1. scope.map[n] = t.scopes[1].map[n] /\ t.scopes[1].map[n] # NoInfo
          BY <1>5, <1>6, <1>15, <2>3, <3>2
        <4>2. t.infos[t.scopes[1].map[n]].kind # "local"
          BY <1>15, <4>1 DEF LocalsIn
        <4> QED BY <1>13, <2>1, <4>1, <4>2
      <3> QED BY <3>1, <3>2
    <2> QED BY <1>14, <1>15, <2>1, <2>2, <2>3 DEF LocalsIn
  <1>16. CASE D = 2
    <2>1. t1.scopes[1] = t.scopes[1] /\ t1.scopes[2] = scope /\ 1 \in 1 .. D /\ 2 \in 1 .. D
      BY <1>12, <1>16
    <2>2. /\ t.scopes[1].offset = 0
          /\ \A n \in Names : t.scopes[1].map[n] # NoInfo => t1.infos[t.scopes[1].map[n]].kind # "local"
      BY <1>13, <1>16, <2>1 DEF LocalsIn
    <2>3. offset = t.scopes[2].offset + SlotSize /\ t.scopes[2].offset \in Nat /\ placed.offset = offset
      BY <1>8, <1>9, <1>16
    <2>4. ASSUME NEW n \in Names, scope.map[n] # NoInfo PROVE t1.infos[scope.map[n]].offset <= offset
      <3>1. CASE n = info.name
        BY <1>5, <1>6, <1>11, <2>3, <3>1 DEF SlotSize
      <3>2. CASE n # info.name
        <4>1. scope.map[n] = t.scopes[2].map[n] /\ t.scopes[2].map[n] # NoInfo
          BY <1>5, <1>6, <1>16, <2>4, <3>2
        <4>2. t.infos[t.scopes[2].map[n]].offset <= t.scopes[2].offset
          BY <1>16, <4>1 DEF LocalsIn
        <4>3. t1.infos[scope.map[n]].offset <= t.scopes[2].offset
          BY <1>13, <2>1, <4>1, <4>2
        <4>4. t1.infos[scope.map[n]].offset \in Nat
          <5>1. scope.map[n] \in Ids(t1)
            BY <1>4, <1>14, <2>1, <2>4 DEF Defined, TableOK
          <5>2. t1.infos \in Seq(InfoSet)
            BY <1>4 DEF Defined, TableOK
          <5>3. t1.infos[scope.map[n]] \in InfoSet
            BY <5>1, <5>2 DEF Ids
          <5> QED BY <5>3 DEF InfoSet
        <4> QED BY <2>3, <4>3, <4>4 DEF SlotSize
      <3> QED BY <3>1, <3>2
    <2>5. ReturnedOffset(t1) = offset
      BY <1>10, <1>11, <2>3 DEF ReturnedOffset
    <2>6. LocalsIn(t1)
      BY <1>6, <1>14, <1>16, <2>1, <2>2, <2>4 DEF LocalsIn
    <2> QED BY <1>6, <1>14, <1>16, <2>1, <2>3, <2>5, <2>6
  <1>17. D = 1 \/ D = 2
    OBVIOUS
  <1> QED BY <1>15, <1>16, <1>17

\* A local variable that is found is in the scope of the function.
LEMMA LookupLocal ==
  ASSUME NEW t, TableOK(t), Depth(t) \in 1 .. 2, LocalsIn(t), NEW n \in Names, Lookup(t, n) # NoInfo,
         t.infos[Lookup(t, n)].kind = "local"
  PROVE  Depth(t) = 2 /\ t.infos[Lookup(t, n)].offset <= t.scopes[2].offset
PROOF
  <1> DEFINE knowing == {d \in 1 .. Depth(t) : t.scopes[d].map[n] # NoInfo}
             best == CHOOSE d \in knowing : \A c \in knowing : c <= d
  <1>1. knowing # {} /\ Lookup(t, n) = t.scopes[best].map[n]
    BY DEF Lookup
  <1>2. knowing \in SUBSET (1 .. Depth(t)) /\ Depth(t) \in Nat
    OBVIOUS
  <1>3. \E d \in knowing : \A c \in knowing : c <= d
    <2> HIDE DEF knowing
    <2> QED BY <1>1, <1>2, Greatest
  <1>4. best \in knowing
    BY <1>3
  <1>5. best \in 1 .. Depth(t) /\ t.scopes[best].map[n] # NoInfo
    BY <1>4
  <1> HIDE DEF best, knowing
  <1>6. best # 1
    BY <1>1, <1>5 DEF LocalsIn
  <1>7. best = 2 /\ Depth(t) = 2
    BY <1>5, <1>6
  <1> QED BY <1>1, <1>5, <1>7 DEF LocalsIn

\* Instructions that neither use a slot nor make a frame.
Slotless(x) == ~Mark(x) /\ ~Touches(x)

LEMMA SlotlessOps ==
  ASSUME NEW x, x[1] \notin {"mov", "reserve", "saveslot", "loadslot"}
  PROVE  Slotless(x)
PROOF
  <1>1. <<"mov", "rbp", "rsp">>[1] = "mov"
    OBVIOUS
  <1> QED BY <1>1 DEF Slotless, Mark, Touches

LEMMA SlotlessMov ==
  ASSUME NEW x, x[1] = "mov", x[2] # "rbp"
  PROVE  Slotless(x)
PROOF
  <1>1. <<"mov", "rbp", "rsp">>[2] = "rbp"
    OBVIOUS
  <1> QED BY <1>1 DEF Slotless, Mark, Touches

LEMMA OneSlotless == ASSUME NEW x, Slotless(x) PROVE InPlace(<<x>>)
PROOF
  <1>1. Len(<<x>>) = 1 /\ <<x>>[1] = x
    OBVIOUS
  <1> QED BY <1>1, SlotlessInPlace DEF Slotless

LEMMA TwoSlotless == ASSUME NEW x, NEW y, Slotless(x), Slotless(y) PROVE InPlace(<<x, y>>)
PROOF
  <1>1. Len(<<x, y>>) = 2 /\ <<x, y>>[1] = x /\ <<x, y>>[2] = y /\ \A i \in 1 .. 2 : i = 1 \/ i = 2
    OBVIOUS
  <1> QED BY <1>1, SlotlessInPlace DEF Slotless

LEMMA CompileNilSlots == CInv /\ RInv /\ SInv /\ CompileNil => SInv'
PROOF
  <1> SUFFICES ASSUME CInv, RInv, SInv, CompileNil PROVE SInv'
    OBVIOUS
  <1>1. /\ status = "running" /\ Task.do # "endfunc" /\ Emit(<< LoadNil >>) /\ Then(<<>>)
        /\ UNCHANGED <<program, inFunc, st>>
    BY DEF CompileNil, Doing
  <1>2. << LoadNil >> \in Seq(Instructions) /\ Writes(<< LoadNil >>)
    BY <1>1, NilFixed, EmitWrites
  <1>3. InPlace(<< LoadNil >>)
    BY SlotlessOps, OneSlotless DEF LoadNil
  <1> QED BY <1>1, <1>2, <1>3, WriteSlots

LEMMA CompileNumberSlots == CInv /\ RInv /\ SInv /\ CompileNumber => SInv'
PROOF
  <1> DEFINE i == <<"movsd", DoubleLabel(labels)>>
             j == <<"call", <<"lisp_make_number">> >>
  <1> SUFFICES ASSUME CInv, RInv, SInv, CompileNumber PROVE SInv'
    OBVIOUS
  <1>1. /\ status = "running" /\ Task.do # "endfunc" /\ Emit(<<i, j>>) /\ Then(<<>>)
        /\ UNCHANGED <<program, inFunc, st>>
    BY DEF CompileNumber, Doing
  <1>2. labels \in Nat
    BY <1>1, CInvFacts
  <1>3. i \in Instructions /\ j \in Instructions
    BY <1>2, SomeNeutral DEF LiteralLabels, DoubleLabel, Instructions, BodyCode, Runtime
  <1>4. Slotless(i) /\ Slotless(j)
    BY SlotlessOps
  <1> HIDE DEF i, j
  <1>5. <<i, j>> \in Seq(Instructions) /\ InPlace(<<i, j>>) /\ Writes(<<i, j>>)
    BY <1>1, <1>3, <1>4, TwoSlotless, EmitWrites
  <1> QED BY <1>1, <1>5, WriteSlots

LEMMA FinishBuiltinSlots == CInv /\ RInv /\ SInv /\ FinishBuiltin => SInv'
PROOF
  <1> SUFFICES ASSUME CInv, RInv, SInv, FinishBuiltin PROVE SInv'
    OBVIOUS
  <1>1. PICK name \in NamesRead(Task.op) : Emit(<< <<"call", MatchBuiltinFunction(name)>> >>)
    BY DEF FinishBuiltin
  <1>2. status = "running" /\ Task.do # "endfunc" /\ Then(<<>>) /\ UNCHANGED <<program, inFunc, st>>
    BY DEF FinishBuiltin, Doing
  <1> DEFINE i == <<"call", MatchBuiltinFunction(name)>>
  <1>3. MatchBuiltinFunction(name) \in Runtime
    BY DEF MatchBuiltinFunction, Runtime
  <1>4. i \in Instructions /\ Slotless(i)
    BY <1>3, SlotlessOps, SomeNeutral DEF Instructions, BodyCode
  <1>5. Emit(<<i>>)
    BY <1>1
  <1> HIDE DEF i
  <1>6. <<i>> \in Seq(Instructions) /\ InPlace(<<i>>) /\ Writes(<<i>>)
    BY <1>4, <1>5, OneSlotless, EmitWrites
  <1> QED BY <1>2, <1>6, WriteSlots

LEMMA EmittedSlotless ==
  ASSUME NEW t, NEW a, NEW b, TaskMoves(t, a, b), t.do = "emit"
  PROVE  t.code \in Seq(Instructions) /\ InPlace(t.code)
PROOF
  <1>1. \A c : Emitted(c).code = c
    BY DEF Emitted
  <1>2. t.code \in Seq(Instructions)
    BY EmittedFixed
  <1>3. Slotless(LoadNil) /\ Slotless(PushRax) /\ Slotless(<<"pop", "rsi">>) /\ Slotless(<<"cmp", NilLabel>>)
    BY SlotlessOps DEF LoadNil, PushRax
  <1>4. Slotless(<<"mov", "rdi", "rax">>)
    BY SlotlessMov
  <1>5. \A l : Slotless(<<"je", l>>) /\ Slotless(<<"jmp", l>>) /\ Slotless(<<"label", l>>)
    BY SlotlessOps
  <1>6. InPlace(t.code)
    <2>1. CASE t = Emitted(<< LoadNil >>)
      BY <1>1, <1>3, <2>1, OneSlotless
    <2>2. CASE t = Emitted(<< PushRax >>)
      BY <1>1, <1>3, <2>2, OneSlotless
    <2>3. CASE t = LoadOperands
      BY <1>1, <1>3, <1>4, <2>3, TwoSlotless DEF LoadOperands
    <2>4. CASE \E l \in LocalLabels : t = CompareAndBranch(l)
      BY <1>1, <1>3, <1>5, <2>4, TwoSlotless DEF CompareAndBranch
    <2>5. CASE \E m, l \in LocalLabels : t = BranchAndLabel(m, l)
      BY <1>1, <1>5, <2>5, TwoSlotless DEF BranchAndLabel
    <2>6. CASE \E l \in LocalLabels : t = LabelAlone(l)
      BY <1>1, <1>5, <2>6, OneSlotless DEF LabelAlone
    <2> QED BY <2>1, <2>2, <2>3, <2>4, <2>5, <2>6, EmitKinds
  <1> QED BY <1>2, <1>6

LEMMA EmitTaskSlots == CInv /\ RInv /\ SInv /\ EmitTask => SInv'
PROOF
  <1> SUFFICES ASSUME CInv, RInv, SInv, EmitTask PROVE SInv'
    OBVIOUS
  <1>1. /\ status = "running" /\ Task.do = "emit" /\ Emit(Task.code) /\ Then(<<>>)
        /\ UNCHANGED <<program, inFunc, st>>
    BY DEF EmitTask, Doing
  <1>2. Generated
    BY DEF CInv
  <1>3. PICK w, e : Stack(work, w, e)
    BY <1>2 DEF Generated, Code
  <1>4. work \in Seq(Tasks) /\ work # <<>>
    BY <1>1, <1>2, TopTask
  <1>5. Len(work) \in 1 .. Len(work) /\ Task = At(work, Len(work))
    BY <1>4, TaskOnTop DEF Task
  <1>6. TaskMoves(Task, w[Len(work)], w[Len(work) - 1])
    BY <1>3, <1>5 DEF Stack
  <1>7. Task.code \in Seq(Instructions) /\ InPlace(Task.code) /\ Writes(Task.code)
    BY <1>1, <1>6, EmittedSlotless, EmitWrites
  <1> QED BY <1>1, <1>7, WriteSlots

LEMMA InPlaceConcat ==
  ASSUME NEW a \in Seq(Instructions), NEW c \in Seq(Instructions), InPlace(a), InPlace(c)
  PROVE  a \o c \in Seq(Instructions) /\ InPlace(a \o c)
PROOF
  <1>1. /\ a \o c \in Seq(Instructions)
        /\ \A i \in 1 .. Len(a) : (a \o c)[i] = a[i]
        /\ \A j \in 1 .. Len(c) : (a \o c)[Len(a) + j] = c[j]
        /\ \A i \in 1 .. Len(a \o c) : i \in 1 .. Len(a) \/ \E j \in 1 .. Len(c) : i = Len(a) + j
    BY LongConcat
  <1> QED BY <1>1 DEF InPlace

LEMMA FinishCallSlots == CInv /\ RInv /\ SInv /\ FinishCall => SInv'
PROOF
  <1> SUFFICES ASSUME CInv, RInv, SInv, FinishCall PROVE SInv'
    OBVIOUS
  <1> DEFINE n == Task.args
             op == Task.op
  <1>1. PICK label \in LabelsRead(op) : Emit(Pops(n) \o << <<"call", label>> >>)
    BY DEF FinishCall, Pops
  <1>2. status = "running" /\ Task.do = "call" /\ Then(<<>>) /\ UNCHANGED <<program, inFunc, st>>
    BY DEF FinishCall, Doing
  <1>3. TableOK(st) /\ Generated /\ OperatorsKnown(work, st) /\ Task \in Tasks
    BY <1>2, CInvFacts
  <1>4. op \in Ids(st) /\ st.infos[op].kind = "user"
    <2>1. work \in Seq(Tasks) /\ work # <<>>
      BY <1>2, <1>3, TopTask
    <2>2. Task = At(work, Len(work)) /\ Len(work) \in 1 .. Len(work)
      BY <2>1, TaskOnTop DEF Task
    <2> QED BY <1>2, <1>3, <2>2 DEF OperatorsKnown
  <1>5. n \in 0 .. MaxArgs
    BY <1>2, <1>3 DEF Tasks
  <1> DEFINE i == <<"call", label>>
             c == Pops(n) \o <<i>>
  <1>6. i \in Instructions /\ Slotless(i)
    <2>1. st.infos[op] \in InfoSet
      BY <1>3, <1>4 DEF TableOK, Ids
    <2>2. st.infos[op].label \in UserLabels
      BY <1>4, <2>1 DEF InfoSet
    <2>3. label \in UserLabels \cup {Garbage}
      BY <2>2 DEF LabelsRead
    <2> QED BY <2>3, SlotlessOps, SomeNeutral DEF Instructions, BodyCode
  <1>7. Emit(c)
    BY <1>1
  <1> HIDE DEF i, n, op
  <1>8. <<i>> \in Seq(Instructions) /\ InPlace(<<i>>)
    BY <1>6, OneSlotless
  <1>9. Pops(n) \in Seq(Instructions) /\ InPlace(Pops(n))
    <2>1. Pops(n) \in Seq(Instructions)
      BY <1>5, PopsFixed
    <2>2. ASSUME NEW k \in 1 .. Len(Pops(n)) PROVE Slotless(Pops(n)[k])
      <3>1. n \in Nat /\ Pops(n) = [q \in 1 .. n |-> <<"pop", ArgRegisters[n + 1 - q]>>]
        BY <1>5, RegisterNames DEF Pops
      <3>2. k \in 1 .. n
        BY <3>1
      <3>3. Pops(n)[k][1] = "pop"
        BY <3>1, <3>2
      <3> QED BY <3>3, SlotlessOps
    <2> QED BY <2>1, <2>2, SlotlessInPlace DEF Slotless
  <1>10. c \in Seq(Instructions) /\ InPlace(c)
    BY <1>8, <1>9, InPlaceConcat
  <1>11. Writes(c)
    BY <1>7, EmitWrites
  <1> HIDE DEF c
  <1> QED BY <1>2, <1>10, <1>11, WriteSlots

\* The slots given out are in the frame.
LEMMA SlotsGiven ==
  ASSUME CInv, SInv, status = "running", inFunc, Nice
  PROVE  st.scopes[2].offset \in Nat /\ Frame(func, Len(func) + 1) \in Nat
         /\ st.scopes[2].offset <= Frame(func, Len(func) + 1)
         /\ \A d \in Pending(work) : st.scopes[2].offset + SlotSize <= Frame(func, Len(func) + 1)
PROOF
  <1>1. /\ Depth(st) = 2 /\ st.scopes[2].offset \in Nat /\ Cardinality(Pending(work)) \in Nat
    BY WantedType
  <1>2. Wanted(st, work) <= Frame(func, Len(func) + 1)
    BY DEF SInv, Room
  <1>3. Frame(func, Len(func) + 1) \in Nat
    <2>1. func \in Seq(Instructions)
      BY DEF CInv, Generated, Code, Shape
    <2>2. Len(func) + 1 \in 1 .. Len(func) + 1
      BY <2>1
    <2> QED BY <2>1, <2>2, FrameNat
  <1>4. ASSUME NEW d \in Pending(work) PROVE Cardinality(Pending(work)) >= 1
    <2>1. work \in Seq(Tasks) /\ <<>> \in Seq(Tasks)
      BY TopTask DEF CInv
    <2>2. Pending(<<>>) = {}
      BY DEF Pending
    <2>3. Cardinality(Pending(<<>>)) \in Nat /\ Cardinality(Pending(<<>>)) + 1 <= Cardinality(Pending(work))
      BY <1>4, <2>1, <2>2, PendingCount
    <2> QED BY <1>1, <2>3
  <1>5. st.scopes[2].offset + SlotSize * Cardinality(Pending(work)) <= Frame(func, Len(func) + 1)
    BY <1>2 DEF Wanted
  <1> DEFINE a == st.scopes[2].offset
             b == Cardinality(Pending(work))
             f == Frame(func, Len(func) + 1)
  <1>6. a \in Nat /\ b \in Nat /\ f \in Nat /\ a + 8 * b <= f
    BY <1>1, <1>3, <1>5 DEF SlotSize
  <1>7. \A d \in Pending(work) : b >= 1
    BY <1>4
  <1> HIDE DEF a, b, f
  <1>8. a <= f /\ \A d \in Pending(work) : a + SlotSize <= f
    BY <1>6, <1>7 DEF SlotSize
  <1> QED BY <1>6, <1>8 DEF a, f

LEMMA CompileSymbolSlots == CInv /\ RInv /\ SInv /\ CompileSymbol => SInv'
PROOF
  <1> DEFINE id == Lookup(st, Task.e.s)
             info == st.infos[id]
             i == LoadVariable(info)
  <1> SUFFICES ASSUME CInv, RInv, SInv, CompileSymbol PROVE SInv'
    OBVIOUS
  <1>1. /\ status = "running" /\ Task.do = "expr" /\ Emit(<<i>>) /\ Then(<<>>)
        /\ UNCHANGED <<program, inFunc, st>>
        /\ Task.e.t = "sym" /\ IsVariable(id)
    BY DEF CompileSymbol, Doing
  <1>2. TableOK(st) /\ Task \in Tasks /\ Depth(st) = (IF inFunc THEN 2 ELSE 1)
    BY <1>1, CInvFacts
  <1>3. Task.e \in Exprs
    BY <1>1, <1>2 DEF Tasks
  <1>4. Task.e.s \in Names
    BY <1>1, <1>3, ExprFacts DEF HasName
  <1>5. info \in InfoSet /\ info.kind \in {"local", "global"} /\ id # NoInfo
    BY <1>1, <1>2, <1>4, LookupFinds DEF IsVariable, Ids
  <1>6. ASSUME info.kind = "local" PROVE inFunc /\ (Nice => info.offset <= Frame(func, Len(func) + 1))
    <2>1. LocalsIn(st) /\ Depth(st) \in 1 .. 2
      BY <1>2 DEF SInv
    <2>2. Depth(st) = 2 /\ info.offset <= st.scopes[2].offset
      BY <1>2, <1>4, <1>5, <1>6, <2>1, LookupLocal
    <2>3. inFunc
      BY <1>2, <2>2
    <2>4. ASSUME Nice PROVE info.offset <= Frame(func, Len(func) + 1)
      <3>1. info.offset \in Nat
        BY <1>5 DEF InfoSet
      <3>2. /\ st.scopes[2].offset \in Nat /\ Frame(func, Len(func) + 1) \in Nat
            /\ st.scopes[2].offset <= Frame(func, Len(func) + 1)
        BY <1>1, <2>3, <2>4, SlotsGiven
      <3> HIDE DEF info
      <3> QED BY <2>2, <3>1, <3>2
    <2> QED BY <2>3, <2>4
  <1> HIDE DEF info
  <1>7. i \in Instructions /\ InPlace(<<i>>)
    <2>1. CASE info.kind = "local"
      <3>1. i = <<"loadslot", info.offset>> /\ info.offset \in Nat /\ info.offset >= SlotSize
        BY <1>5, <2>1 DEF LoadVariable, InfoSet
      <3>2. i[1] = "loadslot" /\ i[2] = info.offset
        BY <3>1
      <3> HIDE DEF i
      <3>3. i \in Instructions
        BY <3>1, SomeNeutral DEF Instructions, BodyCode
      <3>4. ~Mark(i)
        <4>1. <<"mov", "rbp", "rsp">>[1] = "mov"
          OBVIOUS
        <4> QED BY <3>2, <4>1 DEF Mark
      <3>5. Len(<<i>>) = 1 /\ <<i>>[1] = i
        OBVIOUS
      <3>6. InPlace(<<i>>)
        BY <1>6, <2>1, <3>2, <3>4, <3>5 DEF InPlace
      <3> QED BY <3>3, <3>6
    <2>2. CASE info.kind = "global"
      <3>1. (i = <<"lea", info.label>> \/ i = <<"load", info.label>>) /\ info.label \in DataLabels
        BY <1>5, <2>2 DEF LoadVariable, InfoSet
      <3>2. i[1] \in {"lea", "load"} /\ i[2] = info.label
        BY <3>1
      <3> HIDE DEF i
      <3> QED BY <3>1, <3>2, SlotlessOps, OneSlotless, SomeNeutral DEF Instructions, BodyCode
    <2> QED BY <1>5, <2>1, <2>2
  <1> HIDE DEF i
  <1>8. <<i>> \in Seq(Instructions) /\ Writes(<<i>>)
    BY <1>1, <1>7, EmitWrites
  <1> QED BY <1>1, <1>7, <1>8, WriteSlots

LEMMA StartGlobalSlots == CInv /\ RInv /\ SInv /\ StartGlobal => SInv'
PROOF
  <1> SUFFICES ASSUME CInv, RInv, SInv, StartGlobal PROVE SInv'
    OBVIOUS
  <1> DEFINE x == Expr(Task.e.es[3])
             y == Emitted(<<PushRax>>)
             z == [do |-> "global", name |-> Task.e.es[2]]
  <1>1. /\ status = "running" /\ Task.do = "expr" /\ DefinesVariable(Task.e) /\ Then(<<x, y, z>>)
        /\ UNCHANGED <<program, st, sections, inFunc>>
    BY DEF StartGlobal, Doing
  <1>2. TableOK(st) /\ Task \in Tasks
    BY <1>1, CInvFacts
  <1>3. Task.e \in Exprs /\ Task.e.t = "list" /\ Task.e.es[2] \in Exprs /\ Task.e.es[3] \in Exprs /\ 3 \in 2 .. Len(Task.e.es)
    <2>1. Task.e \in Exprs
      BY <1>1, <1>2 DEF Tasks
    <2>2. OpKind(Task.e) = "special" /\ Len(Task.e.es) >= 3
      BY <1>1 DEF DefinesVariable, IsDefine, IsForm
    <2>3. Task.e.t = "list" /\ Len(Task.e.es) \in Nat /\ \A i \in 1 .. Len(Task.e.es) : Task.e.es[i] \in Exprs
      BY <1>2, <2>1, <2>2, FormFacts
    <2> QED BY <2>1, <2>2, <2>3
  <1>4. x \in Tasks /\ x.do = "expr" /\ x.e = Task.e.es[3] /\ y \in Tasks /\ y.do = "emit"
    BY <1>3, StartTasks DEF Expr
  <1>5. z \in Tasks /\ z.do = "global"
    BY <1>3 DEF Tasks
  <1>6. Nice => IF inFunc THEN DefineFree[Task.e.es[3]] ELSE Orderly[Task.e.es[3]]
    BY <1>1, <1>3, PartsSuit
  <1> HIDE DEF x, y, z
  <1> DEFINE ts == <<x, y, z>>
  <1>7. ts \in Seq(Tasks) /\ Len(ts) = 3 /\ ts[1] = x /\ ts[2] = y /\ ts[3] = z /\ \A i \in 1 .. 3 : i = 1 \/ i = 2 \/ i = 3
    BY <1>4, <1>5
  <1> HIDE DEF ts
  <1>8. Nice => Suits(ts)
    BY <1>4, <1>5, <1>6, <1>7 DEF Suits
  <1>9. \A i \in 1 .. Len(ts) : ts[i].do \notin {"endfunc", "local", "param"}
    BY <1>4, <1>5, <1>7
  <1>10. Then(ts)
    BY <1>1 DEF ts
  <1> QED BY <1>1, <1>7, <1>8, <1>9, <1>10, StartSlots

LEMMA StartBuiltinSlots == CInv /\ RInv /\ SInv /\ StartBuiltin => SInv'
PROOF
  <1> SUFFICES ASSUME CInv, RInv, SInv, StartBuiltin PROVE SInv'
    OBVIOUS
  <1> DEFINE x == Expr(Operands(Task.e)[2])
             p == Emitted(<<PushRax>>)
             y == Expr(Operands(Task.e)[1])
             l == LoadOperands
             z == [do |-> "builtin", op |-> OpId(Task.e)]
             ts == <<x, p, y, l, z>>
  <1>1. /\ status = "running" /\ Task.do = "expr" /\ OpKind(Task.e) = "builtin" /\ Then(ts)
        /\ UNCHANGED <<program, st, sections, inFunc>>
        /\ Len(Operands(Task.e)) = 2
    BY DEF StartBuiltin, Doing, LoadOperands
  <1>2. TableOK(st) /\ Task \in Tasks
    BY <1>1, CInvFacts
  <1>3. /\ Task.e \in Exprs /\ Task.e.t = "list" /\ OpId(Task.e) \in Nat
        /\ Operands(Task.e)[1] = Task.e.es[2] /\ Operands(Task.e)[2] = Task.e.es[3]
        /\ Task.e.es[2] \in Exprs /\ Task.e.es[3] \in Exprs /\ 2 \in 2 .. Len(Task.e.es) /\ 3 \in 2 .. Len(Task.e.es)
    <2>1. Task.e \in Exprs
      BY <1>1, <1>2 DEF Tasks
    <2>2. Task.e.t = "list" /\ Task.e.es \in Seq(Exprs) /\ Len(Task.e.es) \in Nat \ {0} /\ OpId(Task.e) \in Ids(st)
      BY <1>1, <1>2, <2>1, FormFacts
    <2>3. Task.e.es # <<>>
      BY <2>2
    <2>4. Len(Task.e.es) = 3 /\ \A i \in 1 .. 2 : Operands(Task.e)[i] = Task.e.es[i + 1]
      BY <1>1, <2>2, <2>3, HeadTailProperties DEF Operands
    <2>5. st.infos \in Seq(InfoSet)
      BY <1>2 DEF TableOK
    <2> QED BY <2>1, <2>2, <2>4, <2>5 DEF Ids
  <1>4. x \in Tasks /\ x.do = "expr" /\ x.e = Task.e.es[3] /\ y \in Tasks /\ y.do = "expr" /\ y.e = Task.e.es[2]
    BY <1>3, StartTasks DEF Expr
  <1>5. p \in Tasks /\ p.do = "emit" /\ l \in Tasks /\ l.do = "emit"
    BY StartTasks
  <1>6. z \in Tasks /\ z.do = "builtin"
    BY <1>3 DEF Tasks
  <1>7. Nice => IF inFunc THEN DefineFree[Task.e.es[2]] /\ DefineFree[Task.e.es[3]]
                ELSE Orderly[Task.e.es[2]] /\ Orderly[Task.e.es[3]]
    BY <1>1, <1>3, PartsSuit
  <1> HIDE DEF x, p, y, l, z
  <1>8. /\ Len(ts) = 5 /\ ts \in Seq(Tasks)
        /\ ts[1] = x /\ ts[2] = p /\ ts[3] = y /\ ts[4] = l /\ ts[5] = z
    BY <1>4, <1>5, <1>6, FiveLong
  <1> HIDE DEF ts
  <1>9. \A i \in 1 .. 5 : i = 1 \/ i = 2 \/ i = 3 \/ i = 4 \/ i = 5
    OBVIOUS
  <1>10. Nice => Suits(ts)
    BY <1>4, <1>5, <1>6, <1>7, <1>8, <1>9 DEF Suits
  <1>11. \A i \in 1 .. Len(ts) : ts[i].do \notin {"endfunc", "local", "param"}
    BY <1>4, <1>5, <1>6, <1>8, <1>9
  <1> QED BY <1>1, <1>8, <1>10, <1>11, StartSlots

LEMMA StartCallSlots == CInv /\ RInv /\ SInv /\ StartCall => SInv'
PROOF
  <1> SUFFICES ASSUME CInv, RInv, SInv, StartCall PROVE SInv'
    OBVIOUS
  <1> DEFINE es == Operands(Task.e)
             n == Len(es)
             ts == CallTasks(es, OpId(Task.e))
  <1>1. /\ status = "running" /\ Task.do = "expr" /\ OpKind(Task.e) = "user" /\ Then(ts)
        /\ UNCHANGED <<program, st, sections, inFunc>>
        /\ n <= MaxArgs
    BY DEF StartCall, Doing, CallTasks
  <1>2. TableOK(st) /\ Task \in Tasks
    BY <1>1, CInvFacts
  <1>3. /\ Task.e \in Exprs /\ Task.e.t = "list" /\ Task.e.es \in Seq(Exprs) /\ Len(Task.e.es) \in Nat \ {0}
        /\ OpId(Task.e) \in Nat
    <2>1. Task.e \in Exprs
      BY <1>1, <1>2 DEF Tasks
    <2>2. Task.e.t = "list" /\ Task.e.es \in Seq(Exprs) /\ Len(Task.e.es) \in Nat \ {0} /\ OpId(Task.e) \in Ids(st)
      BY <1>1, <1>2, <2>1, FormFacts
    <2>3. st.infos \in Seq(InfoSet)
      BY <1>2 DEF TableOK
    <2> QED BY <2>1, <2>2, <2>3 DEF Ids
  <1>4. es \in Seq(Exprs) /\ n = Len(Task.e.es) - 1 /\ \A k \in 1 .. n : es[k] = Task.e.es[k + 1]
    <2>1. Task.e.es # <<>>
      BY <1>3
    <2> QED BY <1>3, <2>1, HeadTailProperties DEF Operands
  <1>5. n \in Nat /\ n \in 0 .. MaxArgs
    <2>1. n \in Nat /\ MaxArgs \in Nat
      BY <1>3, <1>4, RegisterNames
    <2> HIDE DEF n
    <2> QED BY <1>1, <2>1
  <1>6. /\ ts \in Seq(Tasks) /\ Len(ts) = 2 * n + 1
        /\ \A i \in 1 .. 2 * n : ts[i] = IF i % 2 = 1 THEN Expr(es[(i + 1) \div 2]) ELSE Emitted(<<PushRax>>)
        /\ ts[2 * n + 1] = [do |-> "call", op |-> OpId(Task.e), args |-> n]
    BY <1>3, <1>4, <1>5, CallTasksAre
  <1> HIDE DEF ts, es
  <1>7. ts[2 * n + 1].do = "call"
    BY <1>6
  <1>8. ASSUME NEW i \in 1 .. 2 * n
        PROVE  \/ ts[i].do = "emit"
               \/ ts[i].do = "expr" /\ \E k \in 2 .. Len(Task.e.es) : ts[i].e = Task.e.es[k]
    <2>1. i \in Nat /\ i <= 2 * n
      BY <1>5
    <2>2. CASE i % 2 = 1
      <3>1. (i + 1) \div 2 \in 1 .. n
        BY <1>5, <2>1, <2>2, Halves
      <3>2. PICK k \in 1 .. n : k = (i + 1) \div 2
        BY <3>1
      <3>3. ts[i] = Expr(Task.e.es[k + 1]) /\ k + 1 \in 2 .. Len(Task.e.es)
        <4>1. ts[i] = Expr(es[k])
          BY <1>6, <2>2, <3>2
        <4>2. es[k] = Task.e.es[k + 1]
          BY <1>4
        <4>3. k + 1 \in 2 .. Len(Task.e.es)
          BY <1>3, <1>4, <1>5
        <4> QED BY <4>1, <4>2, <4>3
      <3>4. ts[i].do = "expr" /\ ts[i].e = Task.e.es[k + 1]
        BY <3>3 DEF Expr
      <3> QED BY <3>3, <3>4
    <2>3. CASE i % 2 # 1
      BY <1>6, <2>3 DEF Emitted
    <2> QED BY <2>2, <2>3
  <1>9. \A i \in 1 .. Len(ts) : i \in 1 .. 2 * n \/ i = 2 * n + 1
    <2>1. 2 * n \in Nat
      BY <1>5
    <2> QED BY <1>6, <2>1, LastOr
  <1>10. ASSUME Nice PROVE Suits(ts)
    <2>1. \A k \in 2 .. Len(Task.e.es) : IF inFunc THEN DefineFree[Task.e.es[k]] ELSE Orderly[Task.e.es[k]]
      BY <1>1, <1>3, <1>10, PartsSuit
    <2> QED BY <1>7, <1>8, <1>9, <2>1 DEF Suits
  <1>11. \A i \in 1 .. Len(ts) : ts[i].do \notin {"endfunc", "local", "param"}
    BY <1>7, <1>8, <1>9
  <1> QED BY <1>1, <1>6, <1>10, <1>11, StartSlots

LEMMA CompileIfSlots == CInv /\ RInv /\ SInv /\ CompileIf => SInv'
PROOF
  <1> SUFFICES ASSUME CInv, RInv, SInv, CompileIf PROVE SInv'
    OBVIOUS
  <1> DEFINE e  == Task.e
             x  == Expr(e.es[2])
             y  == Expr(e.es[3])
             z  == IF Len(e.es) = 4 THEN Expr(e.es[4]) ELSE Emitted(<< LoadNil >>)
             ts == IfTasks(x, y, z, labels)
  <1>1. /\ status = "running" /\ Task.do = "expr" /\ Then(ts)
        /\ UNCHANGED <<program, st, sections, inFunc>>
        /\ OpKind(e) = "special" /\ Len(e.es) \in 3 .. 4
    BY DEF CompileIf, Doing, IsForm, IfTasks, CompareAndBranch, BranchAndLabel, LabelAlone
  <1>2. TableOK(st) /\ Task \in Tasks /\ labels \in Nat
    BY <1>1, CInvFacts
  <1>3. /\ e \in Exprs /\ e.t = "list" /\ \A k \in 2 .. Len(e.es) : e.es[k] \in Exprs
    <2>1. e \in Exprs
      BY <1>1, <1>2 DEF Tasks
    <2>2. e.t = "list" /\ \A i \in 1 .. Len(e.es) : e.es[i] \in Exprs
      BY <1>1, <1>2, <2>1, FormFacts
    <2> HIDE DEF e
    <2>3. Len(e.es) = 3 \/ Len(e.es) = 4
      BY <1>1
    <2> QED BY <2>1, <2>2, <2>3
  <1>4. 2 \in 2 .. Len(e.es) /\ 3 \in 2 .. Len(e.es) /\ (Len(e.es) = 4 => 4 \in 2 .. Len(e.es))
    <2> DEFINE m == Len(e.es)
    <2>1. m \in 3 .. 4
      BY <1>1
    <2> HIDE DEF m
    <2>2. 2 \in 2 .. m /\ 3 \in 2 .. m /\ (m = 4 => 4 \in 2 .. m)
      BY <2>1
    <2> QED BY <2>2 DEF m
  <1>5. ASSUME NEW k \in 2 .. Len(e.es)
        PROVE  /\ Expr(e.es[k]) \in Tasks /\ Expr(e.es[k]).do = "expr" /\ Expr(e.es[k]).e = e.es[k]
               /\ Nice => IF inFunc THEN DefineFree[e.es[k]] ELSE Orderly[e.es[k]]
    <2>1. Expr(e.es[k]) \in Tasks /\ Expr(e.es[k]).do = "expr" /\ Expr(e.es[k]).e = e.es[k]
      BY <1>3, StartTasks DEF Expr
    <2>2. Nice => IF inFunc THEN DefineFree[e.es[k]] ELSE Orderly[e.es[k]]
      BY <1>1, <1>3, PartsSuit
    <2> QED BY <2>1, <2>2
  <1> DEFINE Fine(t) == /\ t \in Tasks /\ t.do \in {"expr", "emit"}
                        /\ t.do = "expr" => (Nice => IF inFunc THEN DefineFree[t.e] ELSE Orderly[t.e])
  <1>6. Fine(x) /\ Fine(y)
    BY <1>4, <1>5
  <1>7. Fine(z)
    <2>1. CASE Len(e.es) = 4
      <3>1. z = Expr(e.es[4])
        BY <2>1
      <3> HIDE DEF z, e
      <3> QED BY <1>4, <1>5, <2>1, <3>1
    <2>2. CASE Len(e.es) # 4
      <3>1. z = Emitted(<< LoadNil >>)
        BY <2>2
      <3> HIDE DEF z
      <3>2. LoadNil \in BodyCode
        BY SomeNeutral DEF BodyCode, LoadNil
      <3>3. << LoadNil >> \in Seq(BodyCode)
        BY <3>2
      <3> QED BY <3>1, <3>3 DEF Emitted, Tasks
    <2> QED BY <2>1, <2>2
  <1> DEFINE a == ElseLabel(labels)
             b == EndLabel(labels + 1)
             p == CompareAndBranch(a)
             q == BranchAndLabel(b, a)
             r == LabelAlone(b)
  <1>8. Fine(p) /\ Fine(q) /\ Fine(r)
    <2>1. a \in LocalLabels /\ b \in LocalLabels
      BY <1>2 DEF LocalLabels, ElseLabel, EndLabel
    <2> QED BY <2>1, BranchTasks
  <1>9. ts = <<x, p, y, q, z, r>>
    BY DEF IfTasks
  <1> HIDE DEF x, y, z, p, q, r, ts
  <1>10. ts \in Seq(Tasks) /\ Len(ts) = 6
    BY <1>6, <1>7, <1>8, <1>9
  <1>11. ts[1] = x /\ ts[2] = p /\ ts[3] = y /\ ts[4] = q /\ ts[5] = z /\ ts[6] = r
    BY <1>9
  <1>12. \A i \in 1 .. 6 : i = 1 \/ i = 2 \/ i = 3 \/ i = 4 \/ i = 5 \/ i = 6
    OBVIOUS
  <1> HIDE DEF Fine
  <1>13. \A i \in 1 .. Len(ts) : Fine(ts[i])
    BY <1>6, <1>7, <1>8, <1>10, <1>11, <1>12
  <1>14. (Nice => Suits(ts)) /\ \A i \in 1 .. Len(ts) : ts[i].do \notin {"endfunc", "local", "param"}
    BY <1>13 DEF Suits, Fine
  <1> QED BY <1>1, <1>10, <1>14, StartSlots

LEMMA FinishGlobalSlots == CInv /\ RInv /\ SInv /\ FinishGlobal => SInv'
PROOF
  <1> DEFINE n == Task.name.s
             label == GlobalLabel(n)
             info == Info(n, "global", Mutate(label))
             pop == <<"pop", "rbx">>
             store == <<"store", Mutate(label)>>
             load == <<"mov", "rax", "rbx">>
             c == <<pop, store, load>>
  <1> SUFFICES ASSUME CInv, RInv, SInv, FinishGlobal PROVE SInv'
    OBVIOUS
  <1>1. /\ status = "running" /\ Task.do = "global" /\ Then(<<>>) /\ HasName(Task.name)
        /\ UNCHANGED <<program, inFunc>> /\ st' = Define(st, info)
        /\ Emit(<<pop, <<"store", info.label>>, load>>)
    BY DEF FinishGlobal, Doing
  <1>2. TableOK(st) /\ LiveHeld(st) /\ Task \in Tasks
    BY <1>1, CInvFacts
  <1>3. Task.name \in Exprs
    BY <1>1, <1>2 DEF Tasks
  <1>4. n \in Names
    BY <1>1, <1>3, ExprFacts
  <1>5. Mutate(label) \in DataLabels
    BY <1>4, MadeLabels
  <1>6. info \in NewInfos /\ info.label = Mutate(label) /\ info.kind = "global"
    BY <1>4, <1>5, MadeInfos
  <1>7. ~inFunc /\ Depth(st) = 1
    BY <1>1, TaskPlace DEF RInv
  <1>8. Writes(c)
    BY <1>1, <1>6, EmitWrites
  <1>9. /\ pop \in Instructions /\ Slotless(pop) /\ store \in Instructions /\ Slotless(store)
        /\ load \in Instructions /\ Slotless(load)
    <2>1. "rax" \in WordRegs /\ "rbx" \in WordRegs
      BY DEF WordRegs
    <2>2. pop \in BodyCode
      BY <2>1 DEF BodyCode
    <2>3. store \in Neutral /\ load \in Neutral
      BY <1>5, <2>1, SomeNeutral
    <2> QED BY <2>2, <2>3, SlotlessOps, SlotlessMov DEF Instructions, BodyCode
  <1>10. LocalsIn(st')
    <2>1. LocalsIn(st) /\ Depth(st) \in 1 .. 2
      BY <1>7 DEF SInv
    <2> HIDE DEF info
    <2> QED BY <1>1, <1>2, <1>6, <1>7, <2>1, DefineLocals
  <1> HIDE DEF pop, store, load
  <1>11. /\ c \in Seq(Instructions) /\ Len(c) = 3 /\ c[1] = pop /\ c[2] = store /\ c[3] = load
         /\ \A k \in 1 .. 3 : k = 1 \/ k = 2 \/ k = 3
    BY <1>9
  <1> HIDE DEF c
  <1>12. InPlace(c)
    BY <1>9, <1>11, SlotlessInPlace DEF Slotless
  <1>13. <<>> \in Seq(Tasks) /\ (\A i \in 1 .. Len(<<>>) : FALSE) /\ Suits(<<>>)
    BY DEF Suits
  <1> QED BY <1>1, <1>7, <1>8, <1>10, <1>11, <1>12, <1>13, StepSlots

LEMMA StartLocalSlots == CInv /\ RInv /\ SInv /\ StartLocal => SInv'
PROOF
  <1> SUFFICES ASSUME CInv, RInv, SInv, StartLocal PROVE SInv'
    OBVIOUS
  <1> DEFINE x == Expr(Task.e.es[3])
             y == [do |-> "local", name |-> Task.e.es[2].s]
  <1>1. /\ status = "running" /\ Task.do = "expr" /\ DefinesVariable(Task.e) /\ Then(<<x, y>>)
        /\ UNCHANGED <<program, st, func, text, inFunc>> /\ HasName(Task.e.es[2]) /\ Depth(st) > 1
    BY DEF StartLocal, Doing, sections
  <1>2. TableOK(st) /\ Task \in Tasks /\ Generated /\ Depth(st) = (IF inFunc THEN 2 ELSE 1)
    BY <1>1, CInvFacts
  <1>3. Task.e \in Exprs /\ Task.e.t = "list" /\ Task.e.es[2].s \in Names /\ Task.e.es[3] \in Exprs /\ 3 \in 2 .. Len(Task.e.es)
    <2>1. Task.e \in Exprs
      BY <1>1, <1>2 DEF Tasks
    <2>2. OpKind(Task.e) = "special" /\ Len(Task.e.es) >= 3
      BY <1>1 DEF DefinesVariable, IsDefine, IsForm
    <2>3. Task.e.t = "list" /\ Len(Task.e.es) \in Nat /\ \A i \in 1 .. Len(Task.e.es) : Task.e.es[i] \in Exprs
      BY <1>2, <2>1, <2>2, FormFacts
    <2>4. Task.e.es[2] \in Exprs /\ Task.e.es[3] \in Exprs /\ 3 \in 2 .. Len(Task.e.es)
      BY <2>2, <2>3
    <2> QED BY <1>1, <2>1, <2>3, <2>4, ExprFacts
  <1>4. x \in Tasks /\ x.do = "expr" /\ x.e = Task.e.es[3]
    BY <1>3, StartTasks DEF Expr
  <1>5. y \in Tasks /\ y.do = "local"
    BY <1>3 DEF Tasks
  <1>6. Nice => IF inFunc THEN DefineFree[Task.e.es[3]] ELSE Orderly[Task.e.es[3]]
    BY <1>1, <1>3, PartsSuit
  <1> HIDE DEF x, y
  <1> DEFINE ts == <<x, y>>
             n == Len(work)
  <1>7. ts \in Seq(Tasks) /\ Len(ts) = 2 /\ ts[1] = x /\ ts[2] = y /\ \A i \in 1 .. 2 : i = 1 \/ i = 2
    BY <1>4, <1>5
  <1>8. Then(ts)
    BY <1>1
  <1> HIDE DEF ts
  <1>9. /\ work \in Seq(Tasks) /\ work' \in Seq(Tasks) /\ ReplacesTop(work, ts, work')
        /\ n \in 1 .. n /\ Task = At(work, n) /\ (inFunc <=> EndBelow(work, n))
    BY <1>1, <1>7, <1>8, TopNow
  <1>10. inFunc
    BY <1>1, <1>2
  <1>11. n \in Pending(work)
    <2>1. ~DefineFree[Task.e]
      BY <1>1, <1>2, <1>3, DefinitionForm DEF DefinesVariable
    <2> QED BY <1>1, <1>9, <1>10, <2>1 DEF Pending, Wants
  <1>12. ASSUME Nice, NEW d \in Pending(work') PROVE d \in Pending(work)
    <2>1. d \in 1 .. Len(work') /\ EndBelow(work', d) /\ Wants(At(work', d))
      BY <1>12 DEF Pending
    <2>2. CASE d \in 1 .. n - 1
      <3>1. d \in 1 .. n /\ At(work', d) = At(work, d)
        BY <1>9, <2>2 DEF ReplacesTop
      <3>2. EndBelow(work, d)
        BY <1>9, <2>1, <3>1, EndsKept
      <3> QED BY <2>1, <3>1, <3>2 DEF Pending
    <2>3. CASE d \notin 1 .. n - 1
      <3>1. PICK i \in 1 .. Len(ts) : d = n + Len(ts) - i
        BY <1>9, <2>1, <2>3 DEF ReplacesTop
      <3>2. At(work', d) = ts[i]
        BY <1>9, <3>1 DEF ReplacesTop
      <3>3. i # 1
        BY <1>4, <1>6, <1>7, <1>10, <1>12, <2>1, <3>2 DEF Wants
      <3>4. d = n
        BY <1>7, <1>9, <3>1, <3>3
      <3> QED BY <1>11, <3>4
    <2> QED BY <2>2, <2>3
  <1>13. ASSUME Nice
         PROVE  Wanted(st', work') \in Int /\ Wanted(st', work') <= Wanted(st, work) /\ Wanted(st, work) \in Int
    <2>1. Pending(work') \subseteq Pending(work)
      BY <1>12, <1>13
    <2>2. /\ Cardinality(Pending(work)) \in Nat /\ Cardinality(Pending(work')) \in Nat
          /\ Cardinality(Pending(work')) <= Cardinality(Pending(work))
      BY <1>9, <2>1, PendingCount
    <2>3. st.scopes[2].offset \in Nat /\ st' = st
      BY <1>1, <1>10, WantedType
    <2> QED BY <2>2, <2>3 DEF Wanted, SlotSize
  <1>14. (Nice => Suits(ts)) /\ \A i \in 1 .. Len(ts) : ts[i].do # "endfunc"
    BY <1>4, <1>5, <1>6, <1>7 DEF Suits
  <1>15. LocalsIn(st')
    BY <1>1 DEF SInv
  <1>16. <<>> \in Seq(Instructions) /\ Writes(<<>>) /\ InPlace(<<>>)
    <2>1. \A i \in 1 .. Len(<<>>) : FALSE
      OBVIOUS
    <2> QED BY <1>1, <1>2, <2>1, NothingWritten, SlotlessInPlace
  <1> QED BY <1>1, <1>7, <1>8, <1>13, <1>14, <1>15, <1>16, StepSlots

\* A local variable takes its slot.
LEMMA LocalSlots ==
  ASSUME CInv, RInv, SInv, status = "running", Task.do \in {"local", "param"}, UNCHANGED <<program, inFunc>>,
         NEW n \in Names, st' = Define(st, LocalVar(n)), Then(<<>>),
         NEW c \in Seq(Instructions), Writes(c),
         \A i \in 1 .. Len(c) : ~Mark(c[i]) /\ (Touches(c[i]) => c[i][2] = ReturnedOffset(st'))
  PROVE  SInv'
PROOF
  <1> DEFINE info == LocalVar(n)
  <1>1. TableOK(st) /\ LiveHeld(st) /\ inFunc /\ Depth(st) = 2 /\ Depth(st) \in 1 .. 2 /\ LocalsIn(st)
    BY CInvFacts, TaskPlace DEF RInv, SInv
  <1>2. info \in NewInfos /\ info.kind = "local"
    BY MadeInfos
  <1> HIDE DEF info
  <1>3. st' = Define(st, info)
    BY DEF info
  <1>4. /\ LocalsIn(st') /\ st'.scopes[2].offset = st.scopes[2].offset + SlotSize
        /\ ReturnedOffset(st') = st'.scopes[2].offset
    BY <1>1, <1>2, <1>3, DefineLocals
  <1>5. <<>> \in Seq(Tasks) /\ \A i \in 1 .. Len(<<>>) : FALSE
    OBVIOUS
  <1>6. /\ work \in Seq(Tasks) /\ work' \in Seq(Tasks) /\ ReplacesTop(work, <<>>, work')
        /\ Len(work) \in 1 .. Len(work) /\ Task = At(work, Len(work)) /\ EndBelow(work, Len(work))
    BY <1>1, <1>5, TopNow
  <1>7. Len(work) \in Pending(work)
    BY <1>6 DEF Pending, Wants
  <1>8. Pending(work') \subseteq Pending(work) /\ Len(work) \notin Pending(work')
    BY <1>5, <1>6, PendingAfter
  <1>9. /\ Cardinality(Pending(work)) \in Nat /\ Cardinality(Pending(work')) \in Nat
        /\ Cardinality(Pending(work')) + 1 <= Cardinality(Pending(work))
    BY <1>6, <1>7, <1>8, PendingCount
  <1>10. Wanted(st', work') \in Int /\ Wanted(st', work') <= Wanted(st, work) /\ Wanted(st, work) \in Int
    <2>1. st.scopes[2].offset \in Nat
      BY <1>1, WantedType
    <2> DEFINE a == st.scopes[2].offset
               p == Cardinality(Pending(work))
               q == Cardinality(Pending(work'))
    <2>2. a \in Nat /\ p \in Nat /\ q \in Nat /\ q + 1 <= p
      BY <1>9, <2>1
    <2>3. Wanted(st, work) = a + 8 * p /\ Wanted(st', work') = (a + 8) + 8 * q
      BY <1>4 DEF Wanted, SlotSize
    <2> HIDE DEF a, p, q
    <2> QED BY <2>2, <2>3
  <1>11. InPlace(c)
    <2>1. Nice => ReturnedOffset(st') <= Frame(func, Len(func) + 1)
      BY <1>1, <1>4, <1>7, SlotsGiven
    <2> QED BY <1>1, <2>1 DEF InPlace
  <1>12. Suits(<<>>)
    BY <1>5 DEF Suits
  <1> QED BY <1>4, <1>5, <1>10, <1>11, <1>12, StepSlots

LEMMA SaveMarks == ASSUME NEW o, NEW r PROVE LET x == <<"saveslot", o, r>> IN ~Mark(x) /\ x[2] = o
PROOF
  <1>1. <<"saveslot", o, r>>[1] = "saveslot" /\ <<"saveslot", o, r>>[2] = o /\ <<"mov", "rbp", "rsp">>[1] = "mov"
    OBVIOUS
  <1> QED BY <1>1 DEF Mark

LEMMA DefineParamSlots == CInv /\ RInv /\ SInv /\ DefineParam => SInv'
PROOF
  <1> DEFINE n == Task.name.s
             save == <<"saveslot", ReturnedOffset(st'), Task.reg>>
  <1> SUFFICES ASSUME CInv, RInv, SInv, DefineParam PROVE SInv'
    OBVIOUS
  <1>1. /\ status = "running" /\ Task.do = "param" /\ Then(<<>>) /\ HasName(Task.name)
        /\ UNCHANGED <<program, inFunc>>
        /\ st' = Define(st, LocalVar(n)) /\ Emit(<<save>>)
    BY DEF DefineParam, Doing
  <1>2. TableOK(st) /\ LiveHeld(st) /\ Depth(st) > 0 /\ Task \in Tasks
    BY <1>1, CInvFacts
  <1>3. Task.name \in Exprs /\ Task.reg \in WordRegs
    BY <1>1, <1>2 DEF Tasks
  <1>4. n \in Names
    BY <1>1, <1>3, ExprFacts
  <1>5. Defined(st, LocalVar(n), st')
    BY <1>1, <1>2, <1>4, MadeInfos, DefineTable
  <1>6. ReturnedOffset(st') \in Nat /\ ReturnedOffset(st') >= SlotSize
    BY <1>4, <1>5, MadeInfos DEF Defined
  <1>7. save \in Instructions
    BY <1>3, <1>6, SomeNeutral DEF Instructions, BodyCode
  <1>8. ~Mark(save) /\ save[2] = ReturnedOffset(st')
    BY SaveMarks
  <1> HIDE DEF save, n
  <1>9. <<save>> \in Seq(Instructions) /\ Len(<<save>>) = 1 /\ <<save>>[1] = save
    BY <1>7
  <1>10. Writes(<<save>>)
    BY <1>1, EmitWrites
  <1>11. \A i \in 1 .. Len(<<save>>) : i = 1
    BY <1>9
  <1>12. \A i \in 1 .. Len(<<save>>) :
           ~Mark(<<save>>[i]) /\ (Touches(<<save>>[i]) => <<save>>[i][2] = ReturnedOffset(st'))
    BY <1>8, <1>9, <1>11
  <1> QED BY <1>1, <1>4, <1>9, <1>10, <1>12, LocalSlots

LEMMA FinishLocalSlots == CInv /\ RInv /\ SInv /\ FinishLocal => SInv'
PROOF
  <1> DEFINE n == Task.name
             save == <<"saveslot", ReturnedOffset(st'), "rax">>
             null == <<"null">>
             c == <<save, null>>
  <1> SUFFICES ASSUME CInv, RInv, SInv, FinishLocal PROVE SInv'
    OBVIOUS
  <1>1. /\ status = "running" /\ Task.do = "local" /\ Then(<<>>)
        /\ UNCHANGED <<program, inFunc>>
        /\ st' = Define(st, LocalVar(n)) /\ Emit(c)
    BY DEF FinishLocal, Doing
  <1>2. TableOK(st) /\ LiveHeld(st) /\ Depth(st) > 0 /\ Task \in Tasks
    BY <1>1, CInvFacts
  <1>3. n \in Names
    BY <1>1, <1>2 DEF Tasks
  <1>4. Defined(st, LocalVar(n), st')
    BY <1>1, <1>2, <1>3, MadeInfos, DefineTable
  <1>5. ReturnedOffset(st') \in Nat /\ ReturnedOffset(st') >= SlotSize
    BY <1>3, <1>4, MadeInfos DEF Defined
  <1>6. save \in Instructions /\ null \in Instructions
    <2>1. "rax" \in WordRegs
      BY DEF WordRegs
    <2>2. save \in Neutral
      BY <1>5, <2>1, SomeNeutral
    <2> QED BY <2>2, SomeNeutral DEF Instructions, BodyCode
  <1>7. ~Mark(save) /\ save[2] = ReturnedOffset(st') /\ Slotless(null)
    BY SaveMarks, SlotlessOps
  <1> HIDE DEF save, null, n
  <1>8. c \in Seq(Instructions) /\ Len(c) = 2 /\ c[1] = save /\ c[2] = null /\ \A k \in 1 .. 2 : k = 1 \/ k = 2
    BY <1>6
  <1>9. Writes(c)
    BY <1>1, EmitWrites
  <1> HIDE DEF c
  <1>10. \A i \in 1 .. Len(c) : ~Mark(c[i]) /\ (Touches(c[i]) => c[i][2] = ReturnedOffset(st'))
    BY <1>7, <1>8 DEF Slotless
  <1> QED BY <1>1, <1>3, <1>8, <1>9, <1>10, LocalSlots

\* Scopes entered and left.
LEMMA EnterLocals ==
  ASSUME NEW t, TableOK(t), LiveHeld(t), Depth(t) = 1, LocalsIn(t), NEW t1, t1 = EnterScope(t)
  PROVE  LocalsIn(t1) /\ t1.scopes[2].offset = 0
PROOF
  <1> DEFINE new == EmptyScope(t.scopes[1].offset)
  <1>1. t.scopes \in Seq(ScopeSet) /\ Len(t.scopes) = 1 /\ Current(t) = t.scopes[1]
    BY DEF TableOK, Depth, Current
  <1>2. t1.scopes = Append(t.scopes, new)
    BY <1>1 DEF EnterScope, TableOK
  <1>3. new.offset = 0 /\ \A n \in Names : new.map[n] = NoInfo
    BY DEF EmptyScope, LocalsIn
  <1> HIDE DEF new
  <1>4. t1.scopes[1] = t.scopes[1] /\ t1.scopes[2] = new
    BY <1>1, <1>2
  <1>5. Depth(t1) = 2 /\ t1.infos = t.infos
    BY EnterTable
  <1> QED BY <1>3, <1>4, <1>5 DEF LocalsIn

LEMMA ExitLocals ==
  ASSUME NEW t, TableOK(t), LiveHeld(t), Depth(t) = 2, LocalsIn(t), NEW t1, t1 = ExitScope(t)
  PROVE  LocalsIn(t1)
PROOF
  <1>1. t.scopes \in Seq(ScopeSet) /\ Len(t.scopes) = 2
    BY DEF TableOK, Depth
  <1>2. t1.scopes = SubSeq(t.scopes, 1, 1)
    BY DEF ExitScope, TableOK
  <1>3. t1.scopes[1] = t.scopes[1]
    BY <1>1, <1>2
  <1>4. Depth(t1) = 1 /\ t1.infos = t.infos
    BY ExitTable
  <1> QED BY <1>3, <1>4 DEF LocalsIn

LEMMA OneMore ==
  ASSUME NEW S, NEW a \in Seq(S), NEW x \in S
  PROVE  LET b == a \o <<x>>
         IN  /\ b \in Seq(S) /\ Len(b) = Len(a) + 1 /\ Len(a) \in Nat
             /\ \A i \in 1 .. Len(a) : b[i] = a[i]
             /\ b[Len(a) + 1] = x
             /\ \A i \in 1 .. Len(b) : i \in 1 .. Len(a) \/ i = Len(a) + 1
PROOF
  <1> DEFINE e == <<x>>
  <1>1. e \in Seq(S) /\ Len(e) = 1 /\ e[1] = x
    OBVIOUS
  <1> HIDE DEF e
  <1>2. /\ a \o e \in Seq(S) /\ Len(a \o e) = Len(a) + Len(e) /\ Len(a) \in Nat
        /\ \A i \in 1 .. Len(a) + Len(e) : (a \o e)[i] = IF i <= Len(a) THEN a[i] ELSE e[i - Len(a)]
    BY <1>1, ConcatProperties
  <1> DEFINE m == Len(a)
             b == a \o e
  <1>3. /\ b \in Seq(S) /\ Len(b) = m + 1 /\ m \in Nat
        /\ \A i \in 1 .. m + 1 : b[i] = IF i <= m THEN a[i] ELSE e[i - m]
    BY <1>1, <1>2
  <1> HIDE DEF m, b
  <1>4. /\ \A i \in 1 .. m : i \in 1 .. m + 1 /\ i <= m
        /\ m + 1 \in 1 .. m + 1 /\ ~(m + 1 <= m) /\ (m + 1) - m = 1
        /\ \A i \in 1 .. m + 1 : i \in 1 .. m \/ i = m + 1
    BY <1>3
  <1>5. (\A i \in 1 .. m : b[i] = a[i]) /\ b[m + 1] = x
    BY <1>1, <1>3, <1>4
  <1>6. \A i \in 1 .. Len(b) : i \in 1 .. m \/ i = m + 1
    BY <1>3, <1>4
  <1> QED BY <1>3, <1>5, <1>6 DEF m, b, e

\* The frame that a function makes.
LEMMA OpeningFrame ==
  ASSUME NEW l \in UserLabels, NEW k \in Nat
  PROVE  LET o == Opening(l, k)
         IN  /\ o \in Seq(Instructions) /\ Adjacent(o)
             /\ \A i \in 1 .. Len(o) : ~Touches(o[i])
             /\ Len(o) > 0 /\ Mark(o[Len(o)]) /\ Size(o[Len(o)]) = SlotSize * k
PROOF
  <1> DEFINE a == <<"label", l>>
             b == <<"push", "rbp">>
             d == <<"mov", "rbp", "rsp">>
             r == <<"reserve", SlotSize * k>>
             s == <<a, b, d, r>>
             t == <<a, b, d>>
             o == Opening(l, k)
  <1>1. a \in Instructions /\ b \in Instructions /\ d \in Instructions /\ r \in Instructions
    <2>1. SlotSize * k \in Nat
      BY DEF SlotSize
    <2> QED BY <2>1 DEF Instructions
  <1>2. /\ a[1] = "label" /\ b[1] = "push" /\ d[1] = "mov" /\ r[1] = "reserve" /\ r[2] = SlotSize * k
        /\ d = <<"mov", "rbp", "rsp">>
    OBVIOUS
  <1>3. o \in Seq(Instructions)
    BY OpeningBegins
  <1>4. o = IF k = 0 THEN t \o <<>> ELSE t \o <<r>>
    BY DEF Opening
  <1> HIDE DEF a, b, d, r
  <1>5. t \in Seq(Instructions) /\ Len(t) = 3 /\ t[1] = a /\ t[2] = b /\ t[3] = d
        /\ \A i \in 1 .. 3 : i = 1 \/ i = 2 \/ i = 3
    BY <1>1
  <1> HIDE DEF t, o
  <1>6. CASE k = 0
    <2>1. o = t
      BY <1>4, <1>5, <1>6
    <2>2. \A i \in 1 .. Len(o) : ~Touches(o[i]) /\ o[i][1] # "reserve"
      BY <1>2, <1>5, <2>1 DEF Touches
    <2>3. Mark(o[Len(o)]) /\ Size(o[Len(o)]) = SlotSize * k
      <3>1. o[Len(o)] = d
        BY <1>5, <2>1
      <3>2. Mark(d) /\ Size(d) = 0
        BY <1>2 DEF Mark, Size
      <3>3. SlotSize * k = 0
        BY <1>6 DEF SlotSize
      <3> QED BY <3>1, <3>2, <3>3
    <2>4. Adjacent(o)
      BY <2>2 DEF Adjacent
    <2> QED BY <1>3, <1>5, <2>1, <2>2, <2>3, <2>4 DEF o
  <1>7. CASE k # 0
    <2>1. Len(o) = Len(t) + 1 /\ (\A i \in 1 .. Len(t) : o[i] = t[i]) /\ o[Len(t) + 1] = r
      <3>1. t \in Seq(Instructions) /\ r \in Instructions /\ o = t \o <<r>>
        BY <1>1, <1>4, <1>5, <1>7
      <3> QED BY <3>1, OneMore
    <2>2. Len(o) = 4 /\ o[1] = a /\ o[2] = b /\ o[3] = d /\ o[4] = r
      BY <1>5, <2>1
    <2>3. \A i \in 1 .. 4 : i = 1 \/ i = 2 \/ i = 3 \/ i = 4
      OBVIOUS
    <2>4. \A i \in 1 .. Len(o) : ~Touches(o[i]) /\ (o[i][1] = "reserve" => i = 4)
      BY <1>2, <2>2, <2>3 DEF Touches
    <2>5. Adjacent(o)
      BY <1>2, <2>2, <2>4 DEF Adjacent
    <2>6. Mark(o[Len(o)]) /\ Size(o[Len(o)]) = SlotSize * k
      BY <1>2, <2>2 DEF Mark, Size
    <2> QED BY <1>3, <2>2, <2>4, <2>5, <2>6 DEF o
  <1> QED BY <1>6, <1>7

\* Code that makes a frame, and uses no slot, behind other code.
LEMMA FramedOpening ==
  ASSUME NEW f \in Seq(Instructions), NEW o \in Seq(Instructions), Framed(f),
         \A i \in 1 .. Len(o) : ~Touches(o[i]), Len(o) > 0, Mark(o[Len(o)])
  PROVE  /\ Framed(f \o o)
         /\ Frame(f \o o, Len(f \o o) + 1) = Size(o[Len(o)])
PROOF
  <1>1. /\ Len(f) \in Nat /\ Len(o) \in Nat /\ Len(f \o o) = Len(f) + Len(o)
        /\ \A i \in 1 .. Len(f) : (f \o o)[i] = f[i]
        /\ \A j \in 1 .. Len(o) : (f \o o)[Len(f) + j] = o[j]
        /\ \A i \in 1 .. Len(f \o o) : i \in 1 .. Len(f) \/ \E j \in 1 .. Len(o) : i = Len(f) + j
    BY LongConcat
  <1> DEFINE g == f \o o
  <1> HIDE DEF g
  <1>2. ASSUME NEW i \in 1 .. Len(f) PROVE Frame(g, i) = Frame(f, i)
    <2>1. i \in Nat /\ \A r \in 1 .. i - 1 : r \in 1 .. Len(f)
      BY <1>1
    <2>2. \A r \in 1 .. i - 1 : g[r] = f[r]
      BY <1>1, <2>1 DEF g
    <2> QED BY <2>1, <2>2, FramePrefix
  <1>3. ASSUME NEW i \in 1 .. Len(g), Touches(g[i]) PROVE g[i][2] <= Frame(g, i)
    <2>1. i \in 1 .. Len(f)
      <3>1. ASSUME NEW j \in 1 .. Len(o), i = Len(f) + j PROVE FALSE
        BY <1>1, <1>3, <3>1 DEF g
      <3> QED BY <1>1, <3>1 DEF g
    <2>2. g[i] = f[i]
      BY <1>1, <2>1 DEF g
    <2> QED BY <1>2, <1>3, <2>1, <2>2 DEF Framed
  <1>4. Len(g) \in Nat /\ Len(g) > 0 /\ g[Len(g)] = o[Len(o)]
    <2>1. Len(o) \in 1 .. Len(o)
      BY <1>1
    <2> QED BY <1>1, <2>1 DEF g
  <1>5. Frame(g, Len(g) + 1) = Size(o[Len(o)])
    BY <1>4, FrameMade
  <1> QED BY <1>3, <1>5 DEF Framed, g

\* The tasks of a function, one by one.
LEMMA FunctionTasksOf ==
  ASSUME NEW ps \in Seq(Exprs), NEW b \in Seq(Exprs)
  PROVE  LET ts == FunctionTasks(ps, b)
         IN  /\ Len(ts) = Len(ps) + Len(b) + 1
             /\ \A i \in 1 .. Len(ps) : ts[i].do = "param"
             /\ \A j \in 1 .. Len(b) : ts[Len(ps) + j] = Expr(b[j])
             /\ ts[Len(ps) + Len(b) + 1].do = "endfunc"
PROOF
  <1> DEFINE p == [i \in DOMAIN ps |-> [do |-> "param", name |-> ps[i], reg |-> ArgRegisters[i]]]
             x == [i \in DOMAIN b |-> Expr(b[i])]
             z == [do |-> "endfunc"]
             S == {p[i] : i \in DOMAIN ps} \cup {x[i] : i \in DOMAIN b} \cup {z}
  <1>1. Len(ps) \in Nat /\ Len(b) \in Nat /\ DOMAIN ps = 1 .. Len(ps) /\ DOMAIN b = 1 .. Len(b)
    OBVIOUS
  <1>2. p \in [1 .. Len(ps) -> S] /\ x \in [1 .. Len(b) -> S] /\ z \in S
    <2>1. p = [i \in DOMAIN ps |-> p[i]] /\ x = [i \in DOMAIN b |-> x[i]]
      OBVIOUS
    <2> HIDE DEF p, x
    <2> QED BY <1>1, <2>1
  <1>3. /\ \A i \in 1 .. Len(ps) : p[i].do = "param"
        /\ \A j \in 1 .. Len(b) : x[j] = Expr(b[j])
        /\ z.do = "endfunc"
    BY <1>1
  <1>4. FunctionTasks(ps, b) = (p \o x) \o <<z>>
    BY DEF FunctionTasks
  <1> HIDE DEF p, x, z, S
  <1>5. p \in Seq(S) /\ Len(p) = Len(ps) /\ x \in Seq(S) /\ Len(x) = Len(b)
    <2>1. \A n \in Nat : [1 .. n -> S] \subseteq Seq(S)
      BY SeqDef
    <2>2. p \in Seq(S) /\ x \in Seq(S)
      BY <1>1, <1>2, <2>1
    <2> QED BY <1>1, <1>2, <2>2
  <1> DEFINE q == p \o x
             ts == q \o <<z>>
  <1>6. /\ q \in Seq(S) /\ Len(q) = Len(ps) + Len(b)
        /\ \A i \in 1 .. Len(ps) : q[i] = p[i] /\ i \in 1 .. Len(q)
        /\ \A j \in 1 .. Len(b) : q[Len(ps) + j] = x[j] /\ Len(ps) + j \in 1 .. Len(q)
    <2>1. /\ q \in Seq(S) /\ Len(q) = Len(p) + Len(x)
          /\ \A i \in 1 .. Len(p) : q[i] = p[i] /\ i \in 1 .. Len(q)
          /\ \A j \in 1 .. Len(x) : q[Len(p) + j] = x[j] /\ Len(p) + j \in 1 .. Len(q)
      BY <1>5, LongConcat
    <2> QED BY <1>5, <2>1
  <1> HIDE DEF q
  <1>7. /\ Len(ts) = Len(q) + 1
        /\ \A i \in 1 .. Len(q) : ts[i] = q[i]
        /\ ts[Len(q) + 1] = z
    BY <1>2, <1>6, OneMore
  <1> HIDE DEF ts
  <1>8. ts = FunctionTasks(ps, b)
    BY <1>4 DEF ts, q
  <1> QED BY <1>3, <1>6, <1>7, <1>8

\* The depths of tasks counted by their places in the list of tasks.
LEMMA CountBelow ==
  ASSUME NEW T, IsFiniteSet(T), T \subseteq Int, NEW S, S \subseteq Int, NEW q \in Int, \A d \in S : q - d \in T
  PROVE  IsFiniteSet(S) /\ Cardinality(S) <= Cardinality(T) /\ Cardinality(S) \in Nat /\ Cardinality(T) \in Nat
PROOF
  <1> DEFINE f == [d \in S |-> q - d]
  <1>1. f \in Injection(S, T)
    <2>1. f \in [S -> T]
      OBVIOUS
    <2>2. \A c, d \in S : f[c] = f[d] => c = d
      OBVIOUS
    <2> QED BY <2>1, <2>2 DEF Injection, IsInjective
  <1>2. IsFiniteSet(S) /\ Cardinality(S) <= Cardinality(T)
    BY <1>1, FS_Injection
  <1> QED BY <1>2, FS_CardinalityType

\* A function is begun outside functions, with at most one slot still to be given
\* out for every parameter and for every statement that is a definition.
LEMMA BeginPending ==
  ASSUME NEW wk \in Seq(Tasks), NEW ps \in Seq(Exprs), NEW b \in Seq(Exprs), NEW wk1,
         ReplacesTop(wk, FunctionTasks(ps, b), wk1), ~EndBelow(wk, Len(wk)), Sorted(wk),
         \A j \in 1 .. Len(b) : Statement(b[j])
  PROVE  /\ Sorted(wk1)
         /\ Cardinality({j \in 1 .. Len(b) : ~DefineFree[b[j]]}) \in Nat
         /\ Cardinality(Pending(wk1)) <= Len(ps) + Cardinality({j \in 1 .. Len(b) : ~DefineFree[b[j]]})
PROOF
  <1> DEFINE ts == FunctionTasks(ps, b)
             n == Len(wk)
             p == Len(ps)
             l == Len(b)
             m == Len(ts)
             T == {j \in 1 .. l : ~DefineFree[b[j]]}
  <1>1. /\ p \in Nat /\ l \in Nat /\ m = p + l + 1
        /\ \A i \in 1 .. p : ts[i].do = "param"
        /\ \A j \in 1 .. l : ts[p + j] = Expr(b[j])
        /\ ts[m].do = "endfunc"
    BY FunctionTasksOf
  <1> HIDE DEF ts
  <1>2. /\ n \in Nat \ {0} /\ Len(wk1) = n - 1 + m
        /\ \A d \in 1 .. n - 1 : At(wk1, d) = At(wk, d)
        /\ \A i \in 1 .. m : At(wk1, n + m - i) = ts[i]
        /\ \A d \in 1 .. Len(wk1) : d \notin 1 .. n - 1 => \E i \in 1 .. m : d = n + m - i
    BY DEF ReplacesTop, ts
  <1> HIDE DEF n, p, l, m
  <1>3. ASSUME NEW d \in 1 .. n - 1 PROVE ~EndBelow(wk1, d) /\ ~EndBelow(wk, d)
    <2>1. \A c \in 1 .. d - 1 : c \in 1 .. n - 1
      BY <1>2
    <2>2. \A c \in 1 .. d - 1 : At(wk, c).do # "endfunc"
      BY <2>1 DEF EndBelow, n
    <2> QED BY <1>2, <2>1, <2>2 DEF EndBelow
  <1>4. ASSUME NEW d \in 1 .. Len(wk1), d \notin 1 .. n - 1
        PROVE  \/ d = n /\ At(wk1, d).do = "endfunc"
               \/ /\ EndBelow(wk1, d)
                  /\ \/ n + m - d \in 1 .. p /\ At(wk1, d).do = "param"
                     \/ n + m - p - d \in 1 .. l /\ At(wk1, d) = Expr(b[n + m - p - d])
    <2>1. PICK i \in 1 .. m : d = n + m - i
      BY <1>2, <1>4
    <2>2. At(wk1, d) = ts[i]
      BY <1>2, <2>1
    <2>3. CASE i = m
      BY <1>1, <1>2, <2>1, <2>2, <2>3
    <2>4. CASE i # m
      <3>1. n \in 1 .. d - 1 /\ m \in 1 .. m /\ n = n + m - m
        <4>1. n \in Nat \ {0} /\ m \in Nat \ {0} /\ i \in 1 .. m
          BY <1>1, <1>2, <2>1
        <4> QED BY <2>1, <2>4, <4>1
      <3>2. At(wk1, n).do = "endfunc"
        BY <1>1, <1>2, <3>1
      <3>3. EndBelow(wk1, d)
        BY <3>1, <3>2 DEF EndBelow
      <3>4. CASE i \in 1 .. p
        BY <1>1, <1>2, <2>1, <2>2, <3>3, <3>4
      <3>5. CASE i \notin 1 .. p
        <4>1. i - p \in 1 .. l /\ i = p + (i - p) /\ n + m - p - d = i - p
          BY <1>1, <1>2, <2>1, <2>4, <3>5
        <4>2. ts[i] = Expr(b[i - p])
          BY <1>1, <4>1
        <4> QED BY <2>2, <3>3, <4>1, <4>2
      <3> QED BY <3>4, <3>5
    <2> QED BY <2>3, <2>4
  <1>5. Sorted(wk1)
    <2> SUFFICES ASSUME NEW d \in 1 .. Len(wk1), At(wk1, d).do = "expr"
                 PROVE  IF EndBelow(wk1, d) THEN Statement(At(wk1, d).e) ELSE Orderly[At(wk1, d).e]
      BY DEF Sorted
    <2>1. CASE d \in 1 .. n - 1
      <3>1. d \in 1 .. Len(wk) /\ At(wk1, d) = At(wk, d)
        BY <1>2, <2>1 DEF n
      <3> QED BY <1>3, <2>1, <3>1 DEF Sorted
    <2>2. CASE d \notin 1 .. n - 1
      <3>1. EndBelow(wk1, d) /\ n + m - p - d \in 1 .. l /\ At(wk1, d) = Expr(b[n + m - p - d])
        BY <1>4, <2>2
      <3>2. At(wk1, d).e = b[n + m - p - d]
        BY <3>1 DEF Expr
      <3> QED BY <3>1, <3>2 DEF l
    <2> QED BY <2>1, <2>2
  <1> DEFINE A == {d \in Pending(wk1) : n + m - d \in 1 .. p}
             B == {d \in Pending(wk1) : n + m - p - d \in T}
  <1>6. Pending(wk1) = A \cup B /\ Pending(wk1) \subseteq Int
    <2> SUFFICES ASSUME NEW d \in Pending(wk1) PROVE n + m - d \in 1 .. p \/ n + m - p - d \in T
      BY DEF Pending
    <2>1. d \in 1 .. Len(wk1) /\ EndBelow(wk1, d) /\ Wants(At(wk1, d))
      BY DEF Pending
    <2>2. d \notin 1 .. n - 1
      BY <1>3, <2>1
    <2>3. d # n
      <3>1. \A c \in 1 .. n - 1 : At(wk1, c).do # "endfunc"
        BY <1>2 DEF EndBelow, n
      <3> QED BY <2>1, <3>1 DEF EndBelow
    <2>4. CASE n + m - p - d \in 1 .. l /\ At(wk1, d) = Expr(b[n + m - p - d])
      <3>1. ~DefineFree[b[n + m - p - d]]
        BY <2>1, <2>4 DEF Wants, Expr
      <3> QED BY <2>4, <3>1
    <2> QED BY <1>4, <2>1, <2>2, <2>3, <2>4
  <1>7. IsFiniteSet(1 .. p) /\ Cardinality(1 .. p) = p /\ IsFiniteSet(1 .. l)
    BY <1>1, FS_Interval
  <1>8. IsFiniteSet(T) /\ T \subseteq Int
    <2>1. T \subseteq 1 .. l
      OBVIOUS
    <2> HIDE DEF T
    <2>2. IsFiniteSet(T)
      BY <1>7, <2>1, FS_Subset
    <2> QED BY <2>1, <2>2
  <1>9. /\ IsFiniteSet(A) /\ Cardinality(A) \in Nat /\ Cardinality(A) <= p
    <2>1. n + m \in Int /\ A \subseteq Int /\ 1 .. p \subseteq Int /\ \A d \in A : (n + m) - d \in 1 .. p
      BY <1>1, <1>2, <1>6
    <2> HIDE DEF A
    <2> QED BY <1>7, <2>1, CountBelow
  <1>10. /\ IsFiniteSet(B) /\ Cardinality(B) \in Nat /\ Cardinality(T) \in Nat /\ Cardinality(B) <= Cardinality(T)
    <2> DEFINE q == n + m - p
    <2>1. q \in Int /\ B \subseteq Int
      <3>1. n \in Int /\ m \in Int /\ p \in Int
        BY <1>1, <1>2
      <3>2. B \subseteq Pending(wk1)
        OBVIOUS
      <3> QED BY <1>6, <3>1, <3>2
    <2> HIDE DEF T
    <2>2. ASSUME NEW d \in B PROVE q - d \in T
      <3>1. n + m - p - d \in T
        OBVIOUS
      <3>2. n + m - p - d = q - d
        <4>1. n \in Int /\ m \in Int /\ p \in Int /\ d \in Int
          BY <1>1, <1>2, <2>1
        <4> QED BY <4>1
      <3> QED BY <3>1, <3>2
    <2> HIDE DEF B, q
    <2> QED BY <1>8, <2>1, <2>2, CountBelow
  <1> HIDE DEF A, B, T
  <1>11. Cardinality(A \cup B) = Cardinality(A) + Cardinality(B) - Cardinality(A \cap B)
    BY <1>9, <1>10, FS_Union
  <1>12. Cardinality(A \cap B) \in Nat
    <2>1. A \cap B \subseteq A
      OBVIOUS
    <2>2. IsFiniteSet(A \cap B)
      BY <1>9, <2>1, FS_Subset
    <2> QED BY <2>2, FS_CardinalityType
  <1>13. Cardinality(Pending(wk1)) <= p + Cardinality(T)
    BY <1>1, <1>6, <1>9, <1>10, <1>11, <1>12
  <1> QED BY <1>5, <1>10, <1>13 DEF T, p, l

\* The frame has a word for every statement that is a definition.
LEMMA DefinesCounted ==
  ASSUME NEW e, Body(e) \in Seq(Exprs), \A j \in 1 .. Len(Body(e)) : Statement(Body(e)[j])
  PROVE  /\ CountLocalDefines(e) \in Nat
         /\ Cardinality({j \in 1 .. Len(Body(e)) : ~DefineFree[Body(e)[j]]}) <= CountLocalDefines(e)
PROOF
  <1> DEFINE b == Body(e)
             D(j) == LET stmt == b[j]
                     IN  /\ stmt.t = "list"
                         /\ Len(stmt.es) >= 2
                         /\ stmt.es[1] = Sym(Define_)
                         /\ stmt.es[2].t # "list"
             S == {j \in DOMAIN b : D(j)}
             T == {j \in 1 .. Len(b) : ~DefineFree[b[j]]}
  <1>1. DOMAIN b = 1 .. Len(b) /\ Len(b) \in Nat
    OBVIOUS
  <1>2. CountLocalDefines(e) = Cardinality(S)
    BY DEF CountLocalDefines
  <1>3. T \subseteq S
    BY <1>1 DEF Statement
  <1>4. IsFiniteSet(S)
    <2>1. S \subseteq 1 .. Len(b) /\ IsFiniteSet(1 .. Len(b))
      BY <1>1, FS_Interval
    <2> HIDE DEF S
    <2> QED BY <2>1, FS_Subset
  <1>5. Cardinality(T) <= Cardinality(S) /\ Cardinality(S) \in Nat
    <2> HIDE DEF S, T
    <2> QED BY <1>3, <1>4, FS_Subset, FS_CardinalityType
  <1> QED BY <1>2, <1>5

LEMMA BeginFunctionSlots == CInv /\ RInv /\ SInv /\ BeginFunction => SInv'
PROOF
  <1> SUFFICES ASSUME CInv, RInv, SInv, BeginFunction PROVE SInv'
    OBVIOUS
  <1> DEFINE x        == Task.e
             name     == Signature(x)[1].s
             label    == FuncLabel(name)
             info     == Info(name, "user", Mutate(label))
             declared == Define(st, info)
             k        == FrameWords(x)
             c        == Opening(label, k)
             ts       == FunctionTasks(Params(x), Body(x))
  <1>1. /\ status = "running" /\ Task.do = "expr" /\ ~inFunc /\ DefinesFunction(x) /\ Signature(x) # <<>>
        /\ HasName(Signature(x)[1]) /\ Len(Params(x)) <= MaxArgs
        /\ st' = EnterScope(declared) /\ inFunc' = TRUE
        /\ UNCHANGED <<program, text>>
    BY DEF BeginFunction, Doing
  <1>2. /\ func' = func \o << <<"label", label>> >> \o Prologue
                     \o (IF FrameWords(x) = 0 THEN <<>> ELSE << <<"reserve", SlotSize * FrameWords(x)>> >>)
        /\ Then(ts)
    BY DEF BeginFunction, FunctionTasks, ParamTasks, Then
  <1>3. /\ TableOK(st) /\ LiveHeld(st) /\ Task \in Tasks /\ Generated
        /\ Depth(st) = 1
    BY <1>1, CInvFacts
  <1>4. x \in Exprs
    BY <1>1, <1>3 DEF Tasks
  <1>5. /\ Signature(x)[1] \in Exprs /\ Params(x) \in Seq(Exprs) /\ Body(x) \in Seq(Exprs)
        /\ k \in Nat
    BY <1>1, <1>3, <1>4, FunctionParts
  <1>6. name \in Names
    BY <1>1, <1>5, ExprFacts
  <1>7. label \in UserLabels /\ Mutate(label) \in UserLabels
    BY <1>6, MadeLabels
  <1>8. info \in NewInfos /\ info.kind = "user"
    BY <1>6, <1>7, MadeInfos DEF Info
  <1>9. func \in Seq(Instructions) /\ work \in Seq(Tasks) /\ work # <<>>
    <2>1. func \in Seq(Instructions)
      BY <1>3 DEF Generated, Code, Shape
    <2> QED BY <1>1, <1>3, <2>1, TopTask
  <1>10. func' = func \o c
    BY <1>2, <1>9, FunctionOpened
  <1>11. ts \in Seq(Tasks)
    BY <1>1, <1>5, FunctionTasksAre DEF BodyTasks
  <1>12. LocalsIn(st') /\ st'.scopes[2].offset = 0
    <2>1. LocalsIn(st)
      BY DEF SInv
    <2> HIDE DEF info
    <2>2. Defined(st, info, declared)
      BY <1>3, <1>8, DefineTable
    <2>3. LocalsIn(declared) /\ Depth(declared) = 1
      BY <1>3, <1>8, <2>1, DefineLocals
    <2> HIDE DEF declared
    <2>4. TableOK(declared) /\ LiveHeld(declared)
      BY <2>2 DEF Defined
    <2> QED BY <1>1, <2>3, <2>4, EnterLocals
  <1> HIDE DEF c, ts, k, declared, info
  <1>13. /\ c \in Seq(Instructions) /\ Adjacent(c)
         /\ \A i \in 1 .. Len(c) : ~Touches(c[i])
         /\ Len(c) > 0 /\ Mark(c[Len(c)]) /\ Size(c[Len(c)]) = SlotSize * k
    BY <1>5, <1>7, OpeningFrame DEF c
  <1>14. /\ ReplacesTop(work, ts, work')
         /\ Len(work) \in 1 .. Len(work) /\ Task = At(work, Len(work)) /\ ~EndBelow(work, Len(work))
    BY <1>1, <1>2, <1>11, TopNow
  <1>15. Adjacent(func') /\ Frameless(text')
    BY <1>1, <1>9, <1>10, <1>13, AdjacentAfter DEF SInv
  <1>16. ASSUME Nice PROVE Sorted(work') /\ Framed(func') /\ Room'
    <2>1. Sorted(work) /\ Framed(func)
      BY <1>16 DEF SInv
    <2>2. Framed(func') /\ Frame(func', Len(func') + 1) = SlotSize * k
      BY <1>9, <1>10, <1>13, <2>1, FramedOpening
    <2>3. Orderly[x]
      BY <1>1, <1>14, <2>1 DEF Sorted
    <2>4. /\ x.t = "list" /\ FunctionForm(x) /\ x.es \in Seq(Exprs)
      <3>1. x.t = "list" /\ x.es[1] = Sym(Define_)
        BY <1>1, <1>3, <1>4, DefinitionForm DEF DefinesFunction
      <3>2. Len(x.es) >= 3 /\ x.es[2].t = "list"
        BY <1>1 DEF DefinesFunction, IsDefine
      <3>3. x.es \in Seq(Exprs)
        BY <1>4, <3>1, ExprFacts
      <3> QED BY <3>1, <3>2, <3>3 DEF FunctionForm
    <2>5. \A i \in 3 .. Len(x.es) : Statement(x.es[i])
      BY <1>4, <2>3, <2>4, OrderlyParts
    <2>6. \A j \in 1 .. Len(Body(x)) : Statement(Body(x)[j])
      <3>1. Len(x.es) \in Nat /\ Len(x.es) >= 3
        BY <2>4 DEF FunctionForm
      <3>2. Len(Body(x)) = Len(x.es) - 2 /\ \A j \in 1 .. Len(x.es) - 2 : Body(x)[j] = x.es[j + 2]
        <4> DEFINE s == x.es
        <4>1. s \in Seq(Exprs) /\ Len(s) \in Nat /\ Len(s) >= 3
          BY <2>4, <3>1
        <4> HIDE DEF s
        <4>2. Len(SubSeq(s, 3, Len(s))) = Len(s) - 2 /\ \A j \in 1 .. Len(s) - 2 : SubSeq(s, 3, Len(s))[j] = s[j + 2]
          BY <4>1
        <4> QED BY <4>2 DEF Body, s
      <3>3. \A j \in 1 .. Len(x.es) - 2 : j + 2 \in 3 .. Len(x.es)
        BY <3>1
      <3> QED BY <2>5, <3>2, <3>3
    <2> DEFINE T == {j \in 1 .. Len(Body(x)) : ~DefineFree[Body(x)[j]]}
               p == Cardinality(Pending(work'))
    <2>7. Sorted(work') /\ Cardinality(T) \in Nat /\ p <= Len(Params(x)) + Cardinality(T)
      BY <1>5, <1>9, <1>14, <2>1, <2>6, BeginPending DEF ts
    <2>8. Cardinality(T) <= CountLocalDefines(x) /\ CountLocalDefines(x) \in Nat
      BY <1>5, <2>6, DefinesCounted
    <2>9. p \in Nat
      <3>1. work' \in Seq(Tasks)
        BY <1>14 DEF ReplacesTop
      <3> QED BY <3>1, PendingCount
    <2>10. k = Len(Params(x)) + CountLocalDefines(x)
      BY DEF k, FrameWords
    <2>11. p <= k
      <3> HIDE DEF p, T
      <3>1. Len(Params(x)) \in Nat
        BY <1>5
      <3> QED BY <2>7, <2>8, <2>9, <2>10, <3>1
    <2>12. Wanted(st', work') = 8 * p
      <3> HIDE DEF p
      <3>1. Wanted(st', work') = 0 + 8 * p
        BY <1>12 DEF Wanted, SlotSize, p
      <3> QED BY <2>9, <3>1
    <2>13. Wanted(st', work') <= Frame(func', Len(func') + 1)
      <3> HIDE DEF p
      <3> QED BY <1>5, <2>2, <2>9, <2>11, <2>12 DEF SlotSize
    <2> QED BY <2>2, <2>7, <2>13 DEF Room, Wanted
  <1>17. Nice' <=> Nice
    BY <1>1 DEF Nice
  <1> QED BY <1>12, <1>15, <1>16, <1>17 DEF SInv

LEMMA EpilogueSlotless == Epilogue \in Seq(Instructions) /\ \A i \in 1 .. Len(Epilogue) : Slotless(Epilogue[i])
PROOF
  <1> DEFINE a == <<"mov", "rsp", "rbp">>
             b == <<"pop", "rbp">>
             c == <<"ret">>
  <1>1. a[1] = "mov" /\ a[2] = "rsp" /\ b[1] = "pop" /\ c[1] = "ret"
    OBVIOUS
  <1>2. Epilogue = <<a, b, c>>
    BY DEF Epilogue
  <1> HIDE DEF a, b, c
  <1>3. Slotless(a) /\ Slotless(b) /\ Slotless(c)
    BY <1>1, SlotlessOps, SlotlessMov
  <1>4. Len(<<a, b, c>>) = 3 /\ <<a, b, c>>[1] = a /\ <<a, b, c>>[2] = b /\ <<a, b, c>>[3] = c
        /\ \A i \in 1 .. 3 : i = 1 \/ i = 2 \/ i = 3
    OBVIOUS
  <1> QED BY <1>2, <1>3, <1>4, EpilogueFixed

LEMMA SlotlessFrameless ==
  ASSUME NEW c, \A i \in 1 .. Len(c) : Slotless(c[i])
  PROVE  Frameless(c) /\ Adjacent(c) /\ \A i \in 1 .. Len(c) : ~Mark(c[i]) /\ ~Touches(c[i])
BY UnmarkedAdjacent DEF Slotless, Frameless, Mark

LEMMA EndFunctionSlots == CInv /\ RInv /\ SInv /\ EndFunction => SInv'
PROOF
  <1> SUFFICES ASSUME CInv, RInv, SInv, EndFunction PROVE SInv'
    OBVIOUS
  <1>1. /\ status = "running" /\ Task.do = "endfunc" /\ func' = func \o Epilogue
        /\ text' = Append(text, LoadNil) /\ st' = ExitScope(st)
        /\ work' = <<>> \o Tail(work) /\ inFunc' = FALSE /\ UNCHANGED program
    BY DEF EndFunction, Doing, Then
  <1>2. /\ TableOK(st) /\ LiveHeld(st) /\ Generated /\ Depth(st) = IF inFunc THEN 2 ELSE 1
    BY <1>1, CInvFacts
  <1>3. work \in Seq(Tasks) /\ work # <<>>
    BY <1>1, <1>2, TopTask
  <1>4. func \in Seq(Instructions) /\ text \in Seq(Instructions)
    BY <1>2 DEF Generated, Code, Shape
  <1>5. LocalsIn(st')
    <2>1. LocalsIn(st)
      BY DEF SInv
    <2>2. CASE inFunc
      BY <1>1, <1>2, <2>1, <2>2, ExitLocals
    <2>3. CASE ~inFunc
      <3>1. st' = st
        BY <1>1, <1>2, <2>3 DEF ExitScope
      <3> QED BY <2>1, <3>1
    <2> QED BY <2>2, <2>3
  <1>6. text' = text \o << LoadNil >> /\ LoadNil \in Instructions
    BY <1>1, <1>4, NilFixed, AppendIsConcat, SomeNeutral DEF Instructions, BodyCode
  <1> DEFINE nil == << LoadNil >>
  <1>7. nil \in Seq(Instructions) /\ \A i \in 1 .. Len(nil) : Slotless(nil[i])
    <2>1. Slotless(LoadNil)
      <3>1. LoadNil[1] = "lea"
        BY DEF LoadNil
      <3> QED BY <3>1, SlotlessOps
    <2>2. nil \in Seq(Instructions) /\ Len(nil) = 1 /\ nil[1] = LoadNil
      BY <1>6
    <2> HIDE DEF nil
    <2> QED BY <2>1, <2>2
  <1>8. text' = text \o nil
    BY <1>6
  <1> HIDE DEF nil
  <1>9. Adjacent(func') /\ Frameless(text')
    <2>1. Adjacent(func) /\ Frameless(text)
      BY DEF SInv
    <2>2. Adjacent(func \o Epilogue)
      BY <1>4, <2>1, EpilogueSlotless, SlotlessFrameless, AdjacentAfter
    <2>3. Frameless(text \o nil)
      BY <1>4, <1>7, <2>1, SlotlessFrameless, FramelessAfter
    <2> QED BY <1>1, <1>8, <2>2, <2>3
  <1>10. ASSUME Nice PROVE Sorted(work') /\ Framed(func')
    <2>1. Sorted(work) /\ Framed(func)
      BY <1>10 DEF SInv
    <2>2. <<>> \in Seq(Tasks) /\ \A i \in 1 .. Len(<<>>) : FALSE
      OBVIOUS
    <2>3. ReplacesTop(work, <<>>, work')
      BY <1>1, <1>3, <2>2, TasksAfter
    <2>4. Sorted(work')
      BY <2>1, <2>2, <2>3, SortedAfter
    <2>5. \A i \in 1 .. Len(Epilogue) : ~Mark(Epilogue[i]) /\ ~Touches(Epilogue[i])
      BY EpilogueSlotless DEF Slotless
    <2>6. Framed(func \o Epilogue)
      BY <1>4, <2>1, <2>5, EpilogueSlotless, FramedAfter
    <2> QED BY <1>1, <2>4, <2>6
  <1>11. Room' /\ (Nice' <=> Nice)
    BY <1>1 DEF Room, Nice
  <1> QED BY <1>5, <1>9, <1>10, <1>11 DEF SInv

LEMMA FinishSlots == CInv /\ RInv /\ SInv /\ Finish => SInv'
PROOF
  <1> SUFFICES ASSUME CInv, RInv, SInv, Finish PROVE SInv'
    OBVIOUS
  <1> DEFINE null == << <<"null">> >>
  <1>1. /\ status = "running" /\ Task.do = "finish" /\ text' = (text \o null) \o Epilogue
        /\ st' = DestroyTable(st)
        /\ work' = <<>> \o Tail(work) /\ UNCHANGED <<program, func, inFunc>>
    BY DEF Finish, Doing, Then
  <1>2. /\ TableOK(st) /\ LiveHeld(st) /\ Generated /\ inFunc \in BOOLEAN
    BY <1>1, CInvFacts DEF DataOK
  <1>3. work \in Seq(Tasks) /\ work # <<>>
    BY <1>1, <1>2, TopTask
  <1>4. text \in Seq(Instructions)
    BY <1>2 DEF Generated, Code, Shape
  <1>5. ~inFunc
    <2>1. PICK hf, ht, w, e, own : Code(func, text, work, labels, hf, ht, w, e, own) /\ inFunc = (e # 0)
      BY <1>2 DEF Generated
    <2>2. /\ \A d \in 1 .. Len(work) : At(work, d).do = "finish" <=> d = 1
          /\ e \in {0} \cup 2 .. Len(work)
      BY <2>1 DEF Code, Stack
    <2>3. Len(work) \in 1 .. Len(work) /\ Task = At(work, Len(work))
      BY <1>3, TaskOnTop DEF Task
    <2>4. Len(work) = 1
      BY <1>1, <2>2, <2>3
    <2>5. e = 0
      BY <2>2, <2>4
    <2> QED BY <2>1, <2>5
  <1>6. LocalsIn(st')
    BY <1>1, <1>2, DestroyedTable DEF LocalsIn
  <1>7. null \in Seq(Instructions) /\ \A i \in 1 .. Len(null) : Slotless(null[i])
    <2> DEFINE x == <<"null">>
    <2>1. x[1] = "null" /\ null = <<x>>
      OBVIOUS
    <2>2. null \in Seq(Instructions)
      BY NullFixed
    <2> HIDE DEF x
    <2>3. Slotless(x)
      BY <2>1, SlotlessOps
    <2>4. Len(<<x>>) = 1 /\ <<x>>[1] = x
      OBVIOUS
    <2> HIDE DEF null
    <2> QED BY <2>1, <2>2, <2>3, <2>4
  <1> HIDE DEF null
  <1>8. Frameless(text')
    <2>1. Frameless(text)
      BY DEF SInv
    <2>2. text \o null \in Seq(Instructions) /\ Frameless(text \o null)
      BY <1>4, <1>7, <2>1, SlotlessFrameless, FramelessAfter, ConcatProperties
    <2>3. Frameless((text \o null) \o Epilogue)
      BY <2>2, EpilogueSlotless, SlotlessFrameless, FramelessAfter
    <2> QED BY <1>1, <2>3
  <1>9. ASSUME Nice PROVE Sorted(work') /\ Framed(func')
    <2>1. Sorted(work) /\ Framed(func)
      BY <1>9 DEF SInv
    <2>2. <<>> \in Seq(Tasks) /\ \A i \in 1 .. Len(<<>>) : FALSE
      OBVIOUS
    <2>3. ReplacesTop(work, <<>>, work')
      BY <1>1, <1>3, <2>2, TasksAfter
    <2>4. Sorted(work')
      BY <2>1, <2>2, <2>3, SortedAfter
    <2> QED BY <1>1, <2>1, <2>4
  <1>10. Room' /\ (Nice' <=> Nice)
    BY <1>1, <1>5 DEF Room, Nice
  <1>11. Adjacent(func')
    BY <1>1 DEF SInv
  <1> QED BY <1>6, <1>8, <1>9, <1>10, <1>11 DEF SInv

LEMMA SameSlots == ASSUME SInv, UNCHANGED <<program, st, sections, inFunc, work>> PROVE SInv'
PROOF
  <1>1. UNCHANGED <<func, text>>
    BY DEF sections
  <1>2. (Nice' <=> Nice) /\ (Room' <=> Room)
    BY <1>1 DEF Nice, Room
  <1> QED BY <1>1, <1>2 DEF SInv

LEMMA SNext == CInv /\ RInv /\ SInv /\ [Compile]_vars => SInv'
PROOF
  <1> SUFFICES ASSUME CInv, RInv, SInv, [Compile]_vars PROVE SInv'
    OBVIOUS
  <1>1. CASE CompileNumber BY <1>1, CompileNumberSlots
  <1>2. CASE CompileSymbol BY <1>2, CompileSymbolSlots
  <1>3. CASE CompileNil BY <1>3, CompileNilSlots
  <1>4. CASE CompileIf BY <1>4, CompileIfSlots
  <1>5. CASE StartGlobal BY <1>5, StartGlobalSlots
  <1>6. CASE FinishGlobal BY <1>6, FinishGlobalSlots
  <1>7. CASE StartLocal BY <1>7, StartLocalSlots
  <1>8. CASE FinishLocal BY <1>8, FinishLocalSlots
  <1>9. CASE BeginFunction BY <1>9, BeginFunctionSlots
  <1>10. CASE DefineParam BY <1>10, DefineParamSlots
  <1>11. CASE EndFunction BY <1>11, EndFunctionSlots
  <1>12. CASE StartBuiltin BY <1>12, StartBuiltinSlots
  <1>13. CASE FinishBuiltin BY <1>13, FinishBuiltinSlots
  <1>14. CASE StartCall BY <1>14, StartCallSlots
  <1>15. CASE FinishCall BY <1>15, FinishCallSlots
  <1>16. CASE EmitTask BY <1>16, EmitTaskSlots
  <1>17. CASE Finish BY <1>17, FinishSlots
  <1>18. CASE Reject \/ Crash
    <2>1. UNCHANGED <<program, st, sections, inFunc, work>>
      BY <1>18 DEF Reject, Crash
    <2> QED BY <2>1, SameSlots
  <1>19. CASE UNCHANGED vars
    <2>1. UNCHANGED <<program, st, sections, inFunc, work>>
      BY <1>19 DEF vars
    <2> QED BY <2>1, SameSlots
  <1> QED
    BY <1>1, <1>2, <1>3, <1>4, <1>5, <1>6, <1>7, <1>8, <1>9, <1>10, <1>11, <1>12, <1>13, <1>14,
       <1>15, <1>16, <1>17, <1>18, <1>19 DEF Compile

-----------------------------------------------------------------------------
(* Slots when the code generator starts *)

LEMMA FirstLocals == LocalsIn(GlobalScope)
PROOF
  <1> DEFINE a == Info(Define_, "special", <<>>)
             b == Info(If_, "special", <<>>)
             c == Info(Plus, "builtin", <<>>)
             d == Info(Minus, "builtin", <<>>)
             e == Info(True_, "global", TrueLabel)
             f == Info(False_, "global", NilLabel)
             Known(k) == {id \in DOMAIN GlobalInfos : GlobalInfos[id].name = k}
             m == [k \in Names |-> IF Known(k) = {} THEN NoInfo ELSE CHOOSE id \in Known(k) : TRUE]
  <1>1. ASSUME NEW i \in 1 .. 6 PROVE GlobalInfos[i].kind # "local"
    <2>1. /\ a.kind # "local" /\ b.kind # "local" /\ c.kind # "local" /\ d.kind # "local"
          /\ e.kind # "local" /\ f.kind # "local"
      BY DEF Info
    <2>2. GlobalInfos = <<a, b, c, d, e, f>>
      BY DEF GlobalInfos
    <2> HIDE DEF a, b, c, d, e, f
    <2>3. i = 1 \/ i = 2 \/ i = 3 \/ i = 4 \/ i = 5 \/ i = 6
      OBVIOUS
    <2> QED BY <2>1, <2>2, <2>3
  <1>2. GlobalScope.scopes = << [map |-> m, offset |-> 0] >>
    BY DEF GlobalScope
  <1>3. ASSUME NEW n \in Names, m[n] # NoInfo PROVE m[n] \in 1 .. 6
    <2>1. m[n] \in Known(n)
      BY <1>3
    <2> HIDE DEF m
    <2> QED BY <2>1, SixInfos
  <1> HIDE DEF m
  <1>4. GlobalScope.scopes[1].map = m /\ GlobalScope.scopes[1].offset = 0
    BY <1>2
  <1> QED BY <1>1, <1>3, <1>4, GlobalTable DEF LocalsIn

LEMMA FirstSorted ==
  ASSUME NEW p \in Seq(Exprs), NEW wk,
         wk = [i \in DOMAIN p |-> Expr(p[i])] \o << [do |-> "finish"] >>,
         \A i \in DOMAIN p : Orderly[p[i]]
  PROVE  Sorted(wk)
PROOF
  <1> DEFINE r == [i \in DOMAIN p |-> Expr(p[i])]
             f == [do |-> "finish"]
  <1>1. DOMAIN r = DOMAIN p /\ r = [i \in DOMAIN r |-> r[i]] /\ DOMAIN p = 1 .. Len(p) /\ Len(p) \in Nat
    OBVIOUS
  <1>2. \A i \in DOMAIN p : r[i] \in Tasks /\ r[i] = Expr(p[i])
    BY StartTasks, <1>1
  <1>3. f \in Tasks /\ f.do = "finish"
    BY DEF Tasks
  <1> HIDE DEF r, f
  <1>4. r \in Seq(Tasks) /\ Len(r) = Len(p)
    BY <1>1, <1>2, Mapped
  <1>5. wk = r \o <<f>>
    BY DEF r, f
  <1>6. /\ Len(wk) = Len(r) + 1
        /\ \A i \in 1 .. Len(r) : wk[i] = r[i]
        /\ wk[Len(r) + 1] = f
        /\ \A i \in 1 .. Len(wk) : i \in 1 .. Len(r) \/ i = Len(r) + 1
    BY <1>3, <1>4, <1>5, OneMore
  <1>7. ASSUME NEW d \in 1 .. Len(wk)
        PROVE  At(wk, d) = f \/ \E i \in DOMAIN p : At(wk, d) = Expr(p[i])
    <2>1. Len(wk) + 1 - d \in 1 .. Len(wk)
      BY <1>1, <1>4, <1>6
    <2> QED BY <1>1, <1>2, <1>4, <1>6, <2>1 DEF At
  <1>8. \A e : Expr(e).do = "expr" /\ Expr(e).e = e
    BY DEF Expr
  <1> SUFFICES ASSUME NEW d \in 1 .. Len(wk), At(wk, d).do = "expr"
               PROVE  ~EndBelow(wk, d) /\ Orderly[At(wk, d).e]
    BY DEF Sorted
  <1>9. ~EndBelow(wk, d)
    <2>1. \A c \in 1 .. d - 1 : c \in 1 .. Len(wk)
      BY <1>1, <1>4, <1>6
    <2>2. \A c \in 1 .. Len(wk) : At(wk, c).do # "endfunc"
      BY <1>3, <1>7, <1>8
    <2> QED BY <2>1, <2>2 DEF EndBelow
  <1>10. PICK i \in DOMAIN p : At(wk, d) = Expr(p[i])
    BY <1>3, <1>7
  <1>11. At(wk, d).e = p[i]
    BY <1>8, <1>10
  <1> QED BY <1>9, <1>11

LEMMA SInit == Init => SInv
PROOF
  <1> SUFFICES ASSUME Init PROVE SInv
    OBVIOUS
  <1>1. /\ program \in Seq(Exprs) /\ st = GlobalScope /\ func = <<>>
        /\ text = << <<"label", MainLabel>> >> \o Prologue /\ inFunc = FALSE
        /\ work = [i \in DOMAIN program |-> Expr(program[i])] \o << [do |-> "finish"] >>
    BY CodegenAssumption DEF Init
  <1>2. \A i \in 1 .. Len(<<>>) : FALSE
    OBVIOUS
  <1>3. Adjacent(func) /\ Framed(func)
    BY <1>1, <1>2 DEF Adjacent, Framed
  <1>4. Frameless(text)
    <2> DEFINE a == <<"label", MainLabel>>
               b == <<"push", "rbp">>
               c == <<"mov", "rbp", "rsp">>
    <2>1. text = <<a, b, c>>
      BY <1>1, OneAndTwo DEF Prologue
    <2>2. a[1] = "label" /\ b[1] = "push" /\ c[1] = "mov"
      OBVIOUS
    <2> HIDE DEF a, b, c
    <2>3. Len(text) = 3 /\ text[1] = a /\ text[2] = b /\ text[3] = c /\ \A i \in 1 .. 3 : i = 1 \/ i = 2 \/ i = 3
      BY <2>1
    <2> QED BY <2>2, <2>3 DEF Frameless, Touches
  <1>5. LocalsIn(st)
    BY <1>1, FirstLocals
  <1>6. Nice => Sorted(work)
    BY <1>1, FirstSorted DEF Nice
  <1> QED BY <1>1, <1>3, <1>4, <1>5, <1>6 DEF SInv, Room

-----------------------------------------------------------------------------
(* The linked image *)

\* Label l stands somewhere in code im, and only at height a.
LabelAt(im, h, l, a) ==
  /\ \E j \in 1 .. Len(im) : im[j] = <<"label", l>>
  /\ \A j \in 1 .. Len(im) : im[j] = <<"label", l>> => h[j] = a

\* From here on heights include the words reserved.  Instruction i leads from a to b.
Runs(i, a, b) ==
  IF i[1] = "reserve" THEN i[2] \in Nat /\ a \in Nat /\ b = a + i[2] \div SlotSize ELSE Moves(i, a, b)

Heights(im, h) ==
  /\ im \in Seq(Instructions)
  /\ h \in [1 .. Len(im) + 1 -> Int]
  /\ \A i \in 1 .. Len(im) : Runs(im[i], h[i], h[i + 1])

\* h gives the heights of the linked code im, whose branches, calls and global
\* variables have a target; gl is the data section.
Linked(im, gl, h) ==
  /\ Heights(im, h)
  /\ \A i \in 1 .. Len(im) : h[i] \in Nat => Frame(im, i) \div SlotSize <= h[i]
  /\ Len(im) > 0
  /\ h[1] = Outside /\ h[Len(im) + 1] = Outside
  /\ \A i \in 1 .. Len(im) :
       /\ im[i][1] \in {"je", "jmp"} => LabelAt(im, h, im[i][2], h[i])
       /\ im[i][1] = "call" /\ im[i][2] \notin Runtime => LabelAt(im, h, im[i][2], Outside)
       /\ im[i][1] \in {"load", "store"} => im[i][2] \in DOMAIN gl

-----------------------------------------------------------------------------
(* The stack of the running program *)

\* Word d of the stack m is where a function called from the frame at b
\* returns to; main returns to its caller.
Returns(m, h, b, d) ==
  IF b = 0 THEN d = 1 /\ m[d] = ReturnTo(OutOfMain)
  ELSE \E r \in DOMAIN h : h[r] \in Nat /\ d = b + h[r] + 1 /\ m[d] = ReturnTo(r)

\* The frames fs end with the one at b, and each leads to an earlier one.
Frames(m, h, fs, b) ==
  /\ fs \subseteq 1 .. b
  /\ b \in fs \cup {0}
  /\ \A d \in fs : \E c \in fs \cup {0} : c < d /\ m[d] = SavedRbp(c) /\ Returns(m, h, c, d - 1)

\* What rsp = s points to at height a, in the frame at b.
Top(m, h, b, s, a) ==
  \/ a \in {Outside, Entered, Popped} /\ Returns(m, h, b, s)
  \/ a = Saved /\ m[s] = SavedRbp(b) /\ Returns(m, h, b, s - 1)
  \/ a \in Nat /\ b # 0 /\ s = b + a
  \/ a = Left /\ b # 0 /\ s = b

Running(m, im, h, p, b, s) ==
  /\ p \in 1 .. Len(im)
  /\ \E fs : Frames(m, h, fs, b)
  /\ Top(m, h, b, s, h[p])

-----------------------------------------------------------------------------
(* The invariant *)

Word(w) == w[1] \in {"zero", "junk", "num", "addr", "pc", "rbp"} /\ (w[1] = "rbp" => w[2] \in Nat)

Words ==
  /\ DOMAIN reg = Registers /\ \A r \in Registers : Word(reg[r])
  /\ DOMAIN mem = 1 .. MaxStack /\ \A i \in 1 .. MaxStack : Word(mem[i])
  /\ \A l \in DOMAIN glob : Word(glob[l])

MInv ==
  /\ Words
  /\ rsp \in 0 .. MaxStack /\ rbp \in 0 .. MaxStack /\ zf \in BOOLEAN
  /\ run \in {"off", "unlinked", "running", "halted", "faulted"}
  /\ run = "off" => rsp = 1 /\ rbp = 0 /\ mem[1] = ReturnTo(OutOfMain)
  /\ run = "halted" => rsp = 0 /\ rbp = 0
  /\ run \in {"running", "faulted"} =>
       \E h : Linked(image, glob, h) /\ Running(mem, image, h, pc, rbp, rsp)
  /\ run = "faulted" => image[pc][1] \notin {"ret", "pop"}

-----------------------------------------------------------------------------
(* Frames and memory *)

LEMMA Places ==
  /\ {Outside, Entered, Saved, Left, Popped} \cap Nat = {}
  /\ Saved \notin {Outside, Entered, Popped, Left} /\ Left \notin {Outside, Entered, Popped}
  /\ Entered \notin {Outside, Popped} /\ Popped # Outside
BY DEF Outside, Entered, Saved, Left, Popped

LEMMA ReturnsKept ==
  ASSUME NEW m, NEW m1, NEW h, NEW b, NEW d, Returns(m, h, b, d), m1[d] = m[d]
  PROVE  Returns(m1, h, b, d)
BY DEF Returns

LEMMA ReturnsAbove ==
  ASSUME NEW m, NEW h, NEW b \in Nat, NEW d, Returns(m, h, b, d)
  PROVE  d \in Nat /\ d > b
PROOF
  <1>1. CASE b = 0
    BY <1>1 DEF Returns
  <1>2. CASE b # 0
    <2>1. PICK r \in DOMAIN h : h[r] \in Nat /\ d = b + h[r] + 1
      BY <1>2 DEF Returns
    <2> QED BY <2>1
  <1> QED BY <1>1, <1>2

\* What is written above rbp leaves the frames alone.
LEMMA FramesKept ==
  ASSUME NEW m, NEW m1, NEW h, NEW fs, NEW b \in Nat, Frames(m, h, fs, b),
         \A d \in 1 .. b : m1[d] = m[d]
  PROVE  Frames(m1, h, fs, b)
PROOF
  <1>1. fs \subseteq 1 .. b /\ b \in fs \cup {0}
    BY DEF Frames
  <1>2. ASSUME NEW d \in fs
        PROVE  \E c \in fs \cup {0} : c < d /\ m1[d] = SavedRbp(c) /\ Returns(m1, h, c, d - 1)
    <2>1. PICK c \in fs \cup {0} : c < d /\ m[d] = SavedRbp(c) /\ Returns(m, h, c, d - 1)
      BY DEF Frames
    <2>2. d \in 1 .. b /\ c \in Nat
      BY <1>1
    <2>3. d - 1 \in 1 .. b
      <3>1. d - 1 \in Nat /\ d - 1 > c
        BY <2>1, <2>2, ReturnsAbove
      <3> QED BY <2>2, <3>1
    <2>4. Returns(m1, h, c, d - 1)
      BY <2>1, <2>3, ReturnsKept
    <2> QED BY <2>1, <2>2, <2>4
  <1> QED BY <1>1, <1>2 DEF Frames

\* A function makes its frame.
LEMMA FramesLonger ==
  ASSUME NEW m, NEW h, NEW fs, NEW b \in Nat, Frames(m, h, fs, b),
         NEW d \in Nat, m[d] = SavedRbp(b), Returns(m, h, b, d - 1)
  PROVE  Frames(m, h, fs \cup {d}, d) /\ d > b
PROOF
  <1>1. fs \subseteq 1 .. b /\ b \in fs \cup {0}
    BY DEF Frames
  <1>2. d - 1 \in Nat /\ d - 1 > b /\ d > b
    BY ReturnsAbove
  <1>3. fs \cup {d} \subseteq 1 .. d
    BY <1>1, <1>2
  <1>4. ASSUME NEW e \in fs \cup {d}
        PROVE  \E c \in (fs \cup {d}) \cup {0} : c < e /\ m[e] = SavedRbp(c) /\ Returns(m, h, c, e - 1)
    <2>1. CASE e \in fs
      BY <2>1 DEF Frames
    <2>2. CASE e = d
      BY <1>1, <1>2, <2>2
    <2> QED BY <2>1, <2>2
  <1> QED BY <1>2, <1>3, <1>4 DEF Frames

\* A function gives its frame up.
LEMMA FramesShorter ==
  ASSUME NEW m, NEW h, NEW fs, NEW b \in Nat, b # 0, Frames(m, h, fs, b)
  PROVE  \E c \in Nat : /\ c < b /\ m[b] = SavedRbp(c) /\ Returns(m, h, c, b - 1)
                        /\ Frames(m, h, {d \in fs : d <= c}, c)
PROOF
  <1>1. fs \subseteq 1 .. b /\ b \in fs
    BY DEF Frames
  <1>2. PICK c \in fs \cup {0} : c < b /\ m[b] = SavedRbp(c) /\ Returns(m, h, c, b - 1)
    BY <1>1 DEF Frames
  <1>3. c \in Nat
    BY <1>1
  <1> DEFINE gs == {d \in fs : d <= c}
  <1>4. gs \subseteq 1 .. c /\ c \in gs \cup {0}
    <2>1. \A d \in gs : d \in 1 .. b /\ d <= c
      BY <1>1
    <2>2. \A d \in gs : d \in 1 .. c
      BY <1>3, <2>1
    <2>3. c <= c
      BY <1>3
    <2> QED BY <2>2, <2>3
  <1>5. ASSUME NEW d \in gs
        PROVE  \E e \in gs \cup {0} : e < d /\ m[d] = SavedRbp(e) /\ Returns(m, h, e, d - 1)
    <2>1. PICK e \in fs \cup {0} : e < d /\ m[d] = SavedRbp(e) /\ Returns(m, h, e, d - 1)
      BY DEF Frames
    <2>2. e <= c
      BY <1>1, <1>3, <2>1
    <2> QED BY <2>1, <2>2
  <1>6. Frames(m, h, gs, c)
    BY <1>4, <1>5 DEF Frames
  <1> QED BY <1>2, <1>3, <1>6

-----------------------------------------------------------------------------
(* Where instructions lead *)

\* From where to where each instruction leads.
LEMMA Opcodes ==
  ASSUME NEW i, NEW a, NEW b, Runs(i, a, b)
  PROVE  /\ i[1] = "push" => \/ i = <<"push", "rbp">> /\ a = Entered /\ b = Saved
                             \/ i = PushRax /\ a \in Nat /\ b = a + 1
         /\ i[1] = "pop" => \/ i[2] = "rbp" /\ a = Left /\ b = Popped
                            \/ i[2] \in WordRegs /\ a \in Nat /\ b \in Nat /\ b = a - 1
         /\ i[1] = "mov" => \/ i = <<"mov", "rbp", "rsp">> /\ a = Saved /\ b = 0
                            \/ i = <<"mov", "rsp", "rbp">> /\ a \in Nat /\ b = Left
                            \/ i[2] \in WordRegs /\ i[3] \in WordRegs /\ a \in Nat /\ b = a
         /\ i[1] = "reserve" => i[2] \in Nat /\ a \in Nat /\ b \in Nat /\ b = a + i[2] \div SlotSize
         /\ i[1] = "ret" => a = Popped
         /\ i[1] = "label" => (a = Outside /\ b = Entered) \/ (a \in Nat /\ b = a)
         /\ i[1] \notin {"push", "pop", "mov", "reserve", "ret", "label"} => i \in Neutral /\ a \in Nat /\ b = a
         /\ i[1] \in {"push", "pop", "mov", "reserve", "ret", "label"} \cup
              {"movsd", "call", "lea", "load", "store", "cmp", "loadslot", "saveslot", "null", "je", "jmp"}
PROOF
  <1>1. CASE a = Outside /\ b = Entered /\ i \in {"label"} \X (UserLabels \cup {MainLabel})
    BY <1>1
  <1>2. CASE a = Entered /\ b = Saved /\ i = <<"push", "rbp">>
    BY <1>2
  <1>3. CASE a = Saved /\ b = 0 /\ i = <<"mov", "rbp", "rsp">>
    BY <1>3
  <1>4. CASE a \in Nat /\ b = Left /\ i = <<"mov", "rsp", "rbp">>
    BY <1>4
  <1>5. CASE a = Left /\ b = Popped /\ i = <<"pop", "rbp">>
    BY <1>5
  <1>6. CASE a = Popped /\ b = Outside /\ i = <<"ret">>
    BY <1>6
  <1>7. CASE a \in Nat /\ b = a /\ i \in Neutral
    BY <1>7, NeutralOps
  <1>8. CASE a \in Nat /\ b = a + 1 /\ i = PushRax
    BY <1>8 DEF PushRax
  <1>9. CASE a \in Nat /\ b \in Nat /\ b = a - 1 /\ i \in {"pop"} \X WordRegs
    BY <1>9
  <1>10. CASE i[1] = "reserve"
    <2>1. \A n \in Nat : n \div SlotSize \in Nat
      BY DEF SlotSize
    <2> QED BY <1>10, <2>1 DEF Runs
  <1>11. CASE i[1] # "reserve"
    <2>1. Moves(i, a, b) /\ ~(i \in {"reserve"} \X Nat)
      BY <1>11 DEF Runs
    <2> QED BY <1>1, <1>2, <1>3, <1>4, <1>5, <1>6, <1>7, <1>8, <1>9, <2>1 DEF Moves
  <1> QED BY <1>10, <1>11

-----------------------------------------------------------------------------
(* Linking *)

LEMMA SomewhereDefined ==
  ASSUME NEW l, DefinedOnce(l)
  PROVE  \/ LabelPlaces(func, l) # {} \/ LabelPlaces(text, l) # {} \/ InData(l) # {} \/ InRodata(l) # {}
PROOF
  <1> DEFINE a == LabelPlaces(func, l)
             b == LabelPlaces(text, l)
             c == InData(l)
             d == InRodata(l)
  <1>1. Definitions(l) = ({"func"} \X a) \cup ({"text"} \X b) \cup ({"data"} \X c) \cup ({"rodata"} \X d)
    BY DEF Definitions, InData, InRodata
  <1> SUFFICES ASSUME a = {} /\ b = {} /\ c = {} /\ d = {} PROVE FALSE
    OBVIOUS
  <1> HIDE DEF a, b, c, d
  <1>2. \A x : {x} \X {} = {}
    OBVIOUS
  <1>3. Definitions(l) = {}
    BY <1>1, <1>2
  <1>4. Cardinality(Definitions(l)) = 0
    BY <1>3, FS_EmptySet
  <1> QED BY <1>4 DEF DefinedOnce

LEMMA Referred ==
  ASSUME NEW code \in {func, text}, NEW i \in 1 .. Len(code), code \in Seq(Instructions),
         code[i][1] \in {"call", "load", "store"}
  PROVE  code[i][2] \in References
PROOF
  <1>1. i \in Positions(code, code[i][1])
    BY DEF Positions, IsCode
  <1>2. code[i][1] \in {"call", "lea", "load", "store", "movsd", "cmp", "je", "jmp"}
    OBVIOUS
  <1> QED BY <1>1, <1>2 DEF References

LEMMA Operators ==
  ASSUME NEW i \in Instructions
  PROVE  /\ i[1] = "call" => i[2] \in UserLabels \cup Runtime \cup {Garbage}
         /\ i[1] \in {"load", "store"} => i[2] \in DataLabels
PROOF
  <1>1. i \in Neutral \/ i[1] \in {"push", "pop", "label", "reserve", "mov", "ret"}
    BY DEF Instructions, BodyCode, PushRax
  <1>2. ASSUME i \in Neutral, i[1] = "call" PROVE i[2] \in UserLabels \cup Runtime \cup {Garbage}
    BY <1>2 DEF Neutral
  <1>3. ASSUME i \in Neutral, i[1] \in {"load", "store"} PROVE i[2] \in DataLabels
    BY <1>3 DEF Neutral
  <1> QED BY <1>1, <1>2, <1>3

LEMMA GarbageNowhere ==
  Garbage \notin UserLabels \cup DataLabels \cup LocalLabels \cup LiteralLabels \cup {MainLabel}
PROOF
  <1>1. Garbage[1] = "?"
    BY DEF Garbage
  <1> QED BY <1>1, FirstParts

\* Instruction i of the image, at height a, comes from one of the sections.
Comes(im, h, code, g, i, j) == im[i] = code[j] /\ h[i] = g[j] /\ h[i + 1] = g[j + 1]

LEMMA ImageParts ==
  ASSUME NEW tx, NEW ht, Shape(tx, ht), NEW fn, NEW hf, Shape(fn, hf), NEW h, Joins(tx, ht, fn, hf, h)
  PROVE  /\ \A j \in 1 .. Len(tx) : j \in 1 .. Len(tx \o fn) /\ Comes(tx \o fn, h, tx, ht, j, j)
         /\ \A j \in 1 .. Len(fn) : /\ Len(tx) + j \in 1 .. Len(tx \o fn)
                                    /\ Comes(tx \o fn, h, fn, hf, Len(tx) + j, j)
         /\ \A i \in 1 .. Len(tx \o fn) : i \in 1 .. Len(tx) \/ \E j \in 1 .. Len(fn) : i = Len(tx) + j
PROOF
  <1>1. /\ Len(tx) \in Nat /\ Len(fn) \in Nat /\ Len(tx \o fn) = Len(tx) + Len(fn)
        /\ \A i \in 1 .. Len(tx) : (tx \o fn)[i] = tx[i]
        /\ \A i \in 1 .. Len(fn) : (tx \o fn)[Len(tx) + i] = fn[i]
        /\ \A i \in 1 .. Len(tx \o fn) : i \notin 1 .. Len(tx) => \E j \in 1 .. Len(fn) : i = Len(tx) + j
    BY JoinFacts
  <1>2. ASSUME NEW j \in 1 .. Len(tx) PROVE j \in 1 .. Len(tx \o fn) /\ Comes(tx \o fn, h, tx, ht, j, j)
    <2>1. j \in 1 .. Len(tx \o fn) /\ j \in 1 .. Len(tx) + 1 /\ j + 1 \in 1 .. Len(tx) + 1
      BY <1>1
    <2>2. h[j] = ht[j] /\ h[j + 1] = ht[j + 1]
      BY <2>1 DEF Joins
    <2> QED BY <1>1, <2>1, <2>2 DEF Comes
  <1>3. ASSUME NEW j \in 1 .. Len(fn)
        PROVE  Len(tx) + j \in 1 .. Len(tx \o fn) /\ Comes(tx \o fn, h, fn, hf, Len(tx) + j, j)
    <2>1. /\ Len(tx) + j \in 1 .. Len(tx \o fn) /\ j \in 1 .. Len(fn) + 1 /\ j + 1 \in 1 .. Len(fn) + 1
          /\ (Len(tx) + j) + 1 = Len(tx) + (j + 1)
      BY <1>1
    <2>2. h[Len(tx) + j] = hf[j] /\ h[Len(tx) + (j + 1)] = hf[j + 1]
      BY <2>1 DEF Joins
    <2> QED BY <1>1, <2>1, <2>2 DEF Comes
  <1> QED BY <1>1, <1>2, <1>3

\* From place i to place j the code is inside a function.
Ahead(h, i, j) == i <= j /\ \A k \in i .. j : h[k] \in Nat

\* The label of a branch is in its own section, ahead of it, and nowhere else.
LEMMA BranchLinked ==
  ASSUME NEW tx, NEW ht, Shape(tx, ht), NEW fn, NEW hf, Shape(fn, hf), NEW h, Joins(tx, ht, fn, hf, h),
         NEW wk, NEW w, NEW lb, NEW own, Placed(fn, tx, wk, lb, own),
         Branched(tx, ht, wk, w, {}), Branched(fn, hf, wk, w, {}),
         NEW i \in 1 .. Len(tx \o fn), (tx \o fn)[i] \in Instructions, (tx \o fn)[i][1] \in {"je", "jmp"}
  PROVE  /\ LabelAt(tx \o fn, h, (tx \o fn)[i][2], h[i])
         /\ \A j \in 1 .. Len(tx \o fn) : (tx \o fn)[j] = <<"label", (tx \o fn)[i][2]>> =>
              Ahead(h, i, j)
PROOF
  <1> DEFINE im == tx \o fn
             l == im[i][2]
  <1>1. /\ \A j \in 1 .. Len(tx) : j \in 1 .. Len(im) /\ Comes(im, h, tx, ht, j, j)
        /\ \A j \in 1 .. Len(fn) : Len(tx) + j \in 1 .. Len(im) /\ Comes(im, h, fn, hf, Len(tx) + j, j)
        /\ \A j \in 1 .. Len(im) : j \in 1 .. Len(tx) \/ \E k \in 1 .. Len(fn) : j = Len(tx) + k
    BY ImageParts
  <1>2. BranchTo(im[i], l) /\ l \in LocalLabels /\ i \in 1 .. Len(im)
    BY BranchInstruction
  <1> HIDE DEF im, l
  <1>3. /\ \A j \in 1 .. Len(tx) : tx[j] = <<"label", l>> => own[l] = <<"text", j>>
        /\ \A j \in 1 .. Len(fn) : fn[j] = <<"label", l>> => own[l] = <<"func", j>>
    BY <1>2 DEF Placed
  <1>4. ASSUME i \in 1 .. Len(tx) PROVE LabelAt(im, h, l, h[i]) /\ \A k \in 1 .. Len(im) : im[k] = <<"label", l>> => Ahead(h, i, k)
    <2>1. BranchTo(tx[i], l) /\ h[i] = ht[i]
      BY <1>1, <1>2, <1>4 DEF Comes
    <2>2. PICK j \in 1 .. Len(tx) : Landed(tx, ht, i, j, l)
      BY <1>2, <1>4, <2>1 DEF Branched
    <2>3. tx[j] = <<"label", l>> /\ ht[j] = ht[i]
      BY <2>2 DEF Landed
    <2>4. j \in 1 .. Len(im) /\ im[j] = <<"label", l>> /\ h[j] = h[i]
      BY <1>1, <2>1, <2>3 DEF Comes
    <2>5. Ahead(h, i, j)
      <3>1. j \in i + 1 .. Len(tx) /\ Len(tx) \in Nat /\ i \in Nat /\ \A k \in i .. j : ht[k] \in Nat
        BY <1>4, <2>2 DEF Landed, Shape
      <3>2. \A k \in i .. j : k \in 1 .. Len(tx)
        BY <1>4, <3>1
      <3> QED BY <1>1, <3>1, <3>2 DEF Comes, Ahead
    <2>6. ASSUME NEW k \in 1 .. Len(im), im[k] = <<"label", l>> PROVE h[k] = h[i] /\ Ahead(h, i, k)
      <3>1. CASE k \in 1 .. Len(tx)
        <4>1. tx[k] = <<"label", l>>
          BY <1>1, <2>6, <3>1 DEF Comes
        <4>2. k = j
          BY <1>3, <2>3, <3>1, <4>1
        <4> QED BY <2>4, <2>5, <4>2
      <3>2. ASSUME NEW m \in 1 .. Len(fn), k = Len(tx) + m PROVE FALSE
        <4>1. fn[m] = <<"label", l>>
          BY <1>1, <2>6, <3>2 DEF Comes
        <4> QED BY <1>3, <2>3, <4>1
      <3> QED BY <1>1, <3>1, <3>2
    <2> QED BY <2>4, <2>6 DEF LabelAt
  <1>5. ASSUME NEW n \in 1 .. Len(fn), i = Len(tx) + n PROVE LabelAt(im, h, l, h[i]) /\ \A k \in 1 .. Len(im) : im[k] = <<"label", l>> => Ahead(h, i, k)
    <2>1. BranchTo(fn[n], l) /\ h[i] = hf[n]
      BY <1>1, <1>2, <1>5 DEF Comes
    <2>2. PICK j \in 1 .. Len(fn) : Landed(fn, hf, n, j, l)
      BY <1>2, <2>1 DEF Branched
    <2>3. fn[j] = <<"label", l>> /\ hf[j] = hf[n]
      BY <2>2 DEF Landed
    <2>4. Len(tx) + j \in 1 .. Len(im) /\ im[Len(tx) + j] = <<"label", l>> /\ h[Len(tx) + j] = h[i]
      BY <1>1, <2>1, <2>3 DEF Comes
    <2>5. Ahead(h, i, Len(tx) + j)
      <3>1. j \in n + 1 .. Len(fn) /\ Len(tx) \in Nat /\ Len(fn) \in Nat /\ n \in Nat /\ \A k \in n .. j : hf[k] \in Nat
        BY <2>2 DEF Landed, Shape
      <3>2. ASSUME NEW k \in i .. Len(tx) + j PROVE h[k] \in Nat
        <4>1. k - Len(tx) \in n .. j /\ k - Len(tx) \in 1 .. Len(fn) /\ k = Len(tx) + (k - Len(tx))
          BY <1>5, <3>1
        <4>2. h[Len(tx) + (k - Len(tx))] = hf[k - Len(tx)]
          BY <1>1, <4>1 DEF Comes
        <4> QED BY <3>1, <4>1, <4>2
      <3>3. i <= Len(tx) + j
        BY <1>5, <3>1
      <3> QED BY <3>2, <3>3 DEF Ahead
    <2>6. ASSUME NEW k \in 1 .. Len(im), im[k] = <<"label", l>> PROVE h[k] = h[i] /\ Ahead(h, i, k)
      <3>1. ASSUME k \in 1 .. Len(tx) PROVE FALSE
        <4>1. tx[k] = <<"label", l>>
          BY <1>1, <2>6, <3>1 DEF Comes
        <4> QED BY <1>3, <2>3, <3>1, <4>1
      <3>2. ASSUME NEW m \in 1 .. Len(fn), k = Len(tx) + m PROVE h[k] = h[i] /\ Ahead(h, i, k)
        <4>1. fn[m] = <<"label", l>>
          BY <1>1, <2>6, <3>2 DEF Comes
        <4>2. m = j
          BY <1>3, <2>3, <4>1
        <4> QED BY <2>4, <2>5, <3>2, <4>2
      <3> QED BY <1>1, <3>1, <3>2
    <2> QED BY <2>4, <2>6 DEF LabelAt
  <1>6. i \in 1 .. Len(tx) \/ \E k \in 1 .. Len(fn) : i = Len(tx) + k
    BY <1>1, <1>2
  <1>7. LabelAt(im, h, l, h[i]) /\ \A k \in 1 .. Len(im) : im[k] = <<"label", l>> => Ahead(h, i, k)
    BY <1>4, <1>5, <1>6
  <1> QED BY <1>7 DEF im, l

\* Heights with the words reserved: those of the code beyond the variables, and
\* the words of the frame.
Raised(a, k) == IF a \in Nat THEN k + a ELSE a

WithFrames(im, h) == [i \in 1 .. Len(im) + 1 |-> Raised(h[i], Frame(im, i) \div SlotSize)]

LEMMA FrameMove ==
  ASSUME NEW a, NEW b, Moves(<<"mov", "rbp", "rsp">>, a, b)
  PROVE  a = Saved /\ b = 0
PROOF
  <1> DEFINE x == <<"mov", "rbp", "rsp">>
  <1>1. x \notin Neutral
    BY NeutralOps DEF WordRegs
  <1> QED BY <1>1 DEF Moves, PushRax

LEMMA ReserveMove ==
  ASSUME NEW x, NEW a, NEW b, Moves(x, a, b), x[1] = "reserve"
  PROVE  a \in Nat /\ b = a /\ x[2] \in Nat
PROOF
  <1>1. x \notin Neutral
    BY NeutralOps
  <1> QED BY <1>1 DEF Moves, PushRax

LEMMA MovesRaised ==
  ASSUME NEW x, NEW a \in Int, NEW b \in Int, NEW k \in Nat, Moves(x, a, b), ~Mark(x)
  PROVE  Moves(x, Raised(a, k), Raised(b, k))
PROOF
  <1>1. /\ Outside \notin Nat /\ Entered \notin Nat /\ Saved \notin Nat /\ Left \notin Nat /\ Popped \notin Nat
    BY DEF Outside, Entered, Saved, Left, Popped
  <1>2. x \notin {"reserve"} \X Nat /\ x # <<"mov", "rbp", "rsp">>
    BY DEF Mark
  <1>3. CASE a = Outside /\ b = Entered /\ x \in {"label"} \X (UserLabels \cup {MainLabel})
    BY <1>1, <1>3 DEF Moves, Raised
  <1>4. CASE a = Entered /\ b = Saved /\ x = <<"push", "rbp">>
    BY <1>1, <1>4 DEF Moves, Raised
  <1>5. CASE a \in Nat /\ b = Left /\ x = <<"mov", "rsp", "rbp">>
    BY <1>1, <1>5 DEF Moves, Raised
  <1>6. CASE a = Left /\ b = Popped /\ x = <<"pop", "rbp">>
    BY <1>1, <1>6 DEF Moves, Raised
  <1>7. CASE a = Popped /\ b = Outside /\ x = <<"ret">>
    BY <1>1, <1>7 DEF Moves, Raised
  <1>8. CASE a \in Nat /\ b = a /\ x \in Neutral
    BY <1>8 DEF Moves, Raised
  <1>9. CASE a \in Nat /\ b = a + 1 /\ x = PushRax
    <2>1. Raised(a, k) = k + a /\ Raised(b, k) = (k + a) + 1 /\ k + a \in Nat
      BY <1>9 DEF Raised
    <2> QED BY <1>9, <2>1 DEF Moves
  <1>10. CASE a \in Nat /\ b \in Nat /\ b = a - 1 /\ x \in {"pop"} \X WordRegs
    <2>1. Raised(a, k) = k + a /\ Raised(b, k) = (k + a) - 1 /\ k + a \in Nat /\ (k + a) - 1 \in Nat
      BY <1>10 DEF Raised
    <2> QED BY <1>10, <2>1 DEF Moves
  <1> QED BY <1>2, <1>3, <1>4, <1>5, <1>6, <1>7, <1>8, <1>9, <1>10 DEF Moves

LEMMA HeightsWithFrames ==
  ASSUME NEW im, NEW h, Shape(im, h), Adjacent(im)
  PROVE  Heights(im, WithFrames(im, h))
PROOF
  <1> DEFINE H == WithFrames(im, h)
             k(i) == Frame(im, i) \div SlotSize
  <1>1. im \in Seq(Instructions) /\ h \in [1 .. Len(im) + 1 -> Int] /\ Len(im) \in Nat
    BY DEF Shape
  <1>2. ASSUME NEW i \in 1 .. Len(im) + 1 PROVE H[i] = Raised(h[i], k(i)) /\ k(i) \in Nat /\ H[i] \in Int
    <2>1. H[i] = Raised(h[i], k(i))
      BY DEF WithFrames
    <2>2. k(i) \in Nat
      BY <1>1, FrameNat DEF SlotSize
    <2> QED BY <1>1, <2>1, <2>2 DEF Raised
  <1>3. H \in [1 .. Len(im) + 1 -> Int]
    <2>1. H = [i \in 1 .. Len(im) + 1 |-> H[i]]
      BY DEF WithFrames
    <2> HIDE DEF H
    <2> QED BY <1>2, <2>1
  <1>4. ASSUME NEW i \in 1 .. Len(im) PROVE Runs(im[i], H[i], H[i + 1])
    <2>1. i \in 1 .. Len(im) + 1 /\ i + 1 \in 1 .. Len(im) + 1 /\ i \in Nat /\ i > 0
      BY <1>1
    <2>2. Moves(im[i], h[i], h[i + 1])
      BY DEF Shape
    <2>3. /\ H[i] = Raised(h[i], k(i)) /\ H[i + 1] = Raised(h[i + 1], k(i + 1)) /\ h[i] \in Int /\ h[i + 1] \in Int
          /\ k(i) \in Nat
      BY <1>1, <1>2, <2>1
    <2> HIDE DEF H
    <2>4. CASE im[i][1] = "reserve"
      <3>1. h[i] \in Nat /\ h[i + 1] = h[i] /\ im[i][2] \in Nat
        BY <2>2, <2>4, ReserveMove
      <3>2. i > 1 /\ im[i - 1] = <<"mov", "rbp", "rsp">> /\ i - 1 \in Nat /\ i - 1 > 0 /\ (i - 1) + 1 = i
        BY <2>1, <2>4 DEF Adjacent
      <3>3. Mark(im[i - 1]) /\ Size(im[i - 1]) = 0 /\ Mark(im[i]) /\ Size(im[i]) = im[i][2]
        BY <2>4, <3>2 DEF Mark, Size
      <3>4. Frame(im, (i - 1) + 1) = 0 /\ Frame(im, i + 1) = im[i][2]
        BY <2>1, <3>2, <3>3, FrameMade
      <3>5. k(i) = 0
        BY <3>2, <3>4 DEF SlotSize
      <3>6. H[i] = h[i] /\ H[i + 1] = im[i][2] \div SlotSize + h[i]
        BY <2>3, <3>1, <3>4, <3>5 DEF Raised
      <3>7. im[i][2] \div SlotSize \in Nat
        BY <3>1 DEF SlotSize
      <3> QED BY <2>4, <3>1, <3>6, <3>7 DEF Runs
    <2>5. CASE im[i] = <<"mov", "rbp", "rsp">>
      <3>1. h[i] = Saved /\ h[i + 1] = 0
        BY <2>2, <2>5, FrameMove
      <3>2. Mark(im[i]) /\ Size(im[i]) = 0
        BY <2>5 DEF Mark, Size
      <3>3. Frame(im, i + 1) = 0
        BY <2>1, <3>2, FrameMade
      <3>4. H[i] = h[i] /\ H[i + 1] = h[i + 1]
        BY <2>3, <3>1, <3>3 DEF Raised, Saved, SlotSize
      <3> QED BY <2>2, <2>5, <3>4 DEF Runs
    <2>6. CASE ~Mark(im[i])
      <3>1. Frame(im, i + 1) = Frame(im, i)
        <4>1. \A r \in i .. (i + 1) - 1 : r = i
          BY <2>1
        <4> QED BY <2>1, <2>6, <4>1, FrameGoesOn
      <3>2. Moves(im[i], H[i], H[i + 1])
        BY <2>2, <2>3, <2>6, <3>1, MovesRaised
      <3> QED BY <2>6, <3>2 DEF Runs, Mark
    <2> QED BY <2>4, <2>5, <2>6 DEF Mark
  <1> QED BY <1>1, <1>3, <1>4 DEF Heights

\* A label ahead of a branch is in the same frame.
LEMMA SameFrame ==
  ASSUME NEW im, NEW h, Shape(im, h), Adjacent(im), NEW i \in 1 .. Len(im), NEW j \in 1 .. Len(im),
         im[i][1] \in {"je", "jmp"}, Ahead(h, i, j)
  PROVE  Frame(im, j) = Frame(im, i)
PROOF
  <1>1. Len(im) \in Nat /\ i \in Nat /\ j \in Nat /\ i <= j
    BY DEF Shape, Ahead
  <1>2. ASSUME NEW r \in i .. j, im[r] = <<"mov", "rbp", "rsp">> PROVE FALSE
    <2>1. r \in 1 .. Len(im)
      BY <1>1
    <2>2. h[r] = Saved
      BY <1>2, <2>1, FrameMove DEF Shape
    <2> QED BY <2>2 DEF Ahead, Saved
  <1>3. ASSUME NEW r \in i .. j - 1, Mark(im[r]) PROVE FALSE
    <2>1. r \in i .. j /\ r \in 1 .. Len(im)
      BY <1>1
    <2>2. im[r][1] = "reserve"
      BY <1>2, <1>3, <2>1 DEF Mark
    <2>3. im[r - 1] = <<"mov", "rbp", "rsp">>
      BY <2>1, <2>2 DEF Adjacent
    <2>4. r # i
      BY <2>2
    <2>5. r - 1 \in i .. j
      BY <1>1, <2>1, <2>4
    <2> QED BY <1>2, <2>3, <2>5
  <1> QED BY <1>1, <1>3, FrameGoesOn

LEMMA ImageLinked ==
  ASSUME CInv, status = "done", Links, text # <<>>, Adjacent(text \o func),
         NEW gl, gl = [l \in {data[i] : i \in DOMAIN data} |-> Zero]
  PROVE  \E h : Linked(text \o func, gl, h)
PROOF
  <1>1. Generated /\ work = <<>> /\ DataOK
    BY DEF CInv, Base, Generated
  <1>2. PICK hf, ht, w, e, own : Code(func, text, work, labels, hf, ht, w, e, own)
    BY <1>1 DEF Generated
  <1>3. FuncTasks(work, e) = {} /\ MainTasks(work, e) = {} /\ Len(work) = 0 /\ e = 0
    <2>1. \A d \in 1 .. Len(work) : FALSE
      BY <1>1
    <2>2. Len(work) = 0 /\ e \in {0} \cup 2 .. Len(work)
      BY <1>1, <1>2 DEF Code, Stack
    <2> QED BY <2>1, <2>2 DEF FuncTasks, MainTasks
  <1>4. /\ Shape(text, ht) /\ Shape(func, hf) /\ Placed(func, text, work, labels, own)
        /\ Branched(text, ht, work, w, {}) /\ Branched(func, hf, work, w, {})
    BY <1>2, <1>3 DEF Code
  <1>5. hf[1] = Outside /\ ht[1] = Outside /\ hf[Len(func) + 1] = Outside /\ ht[Len(text) + 1] = Outside
    <2>1. Ends(func, text, work, hf, ht, w, e) /\ w[0] = Outside
      BY <1>2 DEF Code, Stack
    <2> QED BY <1>3, <2>1 DEF Ends
  <1>6. func \in Seq(Instructions) /\ text \in Seq(Instructions) /\ Len(text) \in Nat \ {0} /\ Len(func) \in Nat
    BY <1>4 DEF Shape
  <1>7. PICK h : Shape(text \o func, h) /\ Joins(text, ht, func, hf, h)
    BY <1>4, <1>5, ShapeConcat
  <1> DEFINE im == text \o func
  <1>8. /\ \A j \in 1 .. Len(text) : j \in 1 .. Len(im) /\ Comes(im, h, text, ht, j, j)
        /\ \A j \in 1 .. Len(func) : Len(text) + j \in 1 .. Len(im) /\ Comes(im, h, func, hf, Len(text) + j, j)
        /\ \A i \in 1 .. Len(im) : i \in 1 .. Len(text) \/ \E j \in 1 .. Len(func) : i = Len(text) + j
    BY <1>4, <1>7, ImageParts
  <1>9. Len(im) > 0 /\ h[1] = Outside /\ h[Len(im) + 1] = Outside
    <2>1. Len(im) = Len(text) + Len(func)
      BY <1>7, JoinLengths
    <2>2. 1 \in 1 .. Len(text) + 1 /\ Len(func) + 1 \in 1 .. Len(func) + 1
      BY <1>6
    <2>3. h[1] = ht[1] /\ h[Len(text) + (Len(func) + 1)] = hf[Len(func) + 1]
      BY <1>7, <2>2 DEF Joins
    <2>4. Len(im) + 1 = Len(text) + (Len(func) + 1)
      BY <1>6, <2>1
    <2> QED BY <1>5, <1>6, <2>1, <2>3, <2>4
  <1>10. \A i \in 1 .. Len(im) : im[i] \in Instructions /\ Moves(im[i], h[i], h[i + 1])
    BY <1>7 DEF Shape
  <1>11. ASSUME NEW i \in 1 .. Len(im), im[i][1] \in {"je", "jmp"}
         PROVE  /\ LabelAt(im, h, im[i][2], h[i])
                /\ \A j \in 1 .. Len(im) : im[j] = <<"label", im[i][2]>> => Ahead(h, i, j)
    BY <1>4, <1>7, <1>10, <1>11, BranchLinked
  <1>12. ASSUME NEW i \in 1 .. Len(im), im[i][1] \in {"call", "load", "store"} PROVE im[i][2] \in References
    <2>1. CASE i \in 1 .. Len(text)
      <3>1. im[i] = text[i]
        BY <1>8, <2>1 DEF Comes
      <3> HIDE DEF im
      <3> QED BY <1>6, <1>12, <2>1, <3>1, Referred
    <2>2. ASSUME NEW j \in 1 .. Len(func), i = Len(text) + j PROVE im[i][2] \in References
      <3>1. im[i] = func[j]
        BY <1>8, <2>2 DEF Comes
      <3> HIDE DEF im
      <3> QED BY <1>6, <1>12, <3>1, Referred
    <2> QED BY <1>8, <2>1, <2>2
  <1> HIDE DEF im
  <1>13. ASSUME NEW l, LabelPlaces(func, l) # {} \/ LabelPlaces(text, l) # {}
         PROVE  \E j \in 1 .. Len(im) : im[j] = <<"label", l>>
    <2>1. CASE LabelPlaces(func, l) # {}
      <3>1. PICK j \in 1 .. Len(func) : func[j] = <<"label", l>>
        BY <1>6, <2>1, PlacesOf
      <3> QED BY <1>8, <3>1 DEF Comes
    <2>2. CASE LabelPlaces(text, l) # {}
      <3>1. PICK j \in 1 .. Len(text) : text[j] = <<"label", l>>
        BY <1>6, <2>2, PlacesOf
      <3> QED BY <1>8, <3>1 DEF Comes
    <2> QED BY <1>13, <2>1, <2>2
  <1>14. ASSUME NEW i \in 1 .. Len(im), im[i][1] = "call", im[i][2] \notin Runtime
         PROVE  LabelAt(im, h, im[i][2], Outside)
    <2> DEFINE l == im[i][2]
    <2>1. l \in UserLabels \cup {Garbage}
      BY <1>10, <1>14, Operators
    <2>2. DefinedOnce(l)
      BY <1>12, <1>14 DEF Links
    <2> HIDE DEF l
    <2>3. InData(l) = {} /\ InRodata(l) = {}
      <3>1. l \notin DataLabels /\ l \notin LiteralLabels
        BY <1>1, <1>6, <2>1, ElsewhereNot, GarbageNowhere
      <3> QED BY <1>1, <1>6, <3>1, ElsewhereNot
    <2>4. LabelPlaces(func, l) # {} \/ LabelPlaces(text, l) # {}
      BY <2>2, <2>3, SomewhereDefined
    <2>5. l \in UserLabels
      BY <1>6, <2>1, <2>4, PlacesOf, GarbageNowhere
    <2>6. ASSUME NEW j \in 1 .. Len(im), im[j] = <<"label", l>> PROVE h[j] = Outside
      <3>1. im[j][1] = "label" /\ ~IsLocalLabel(im[j][2])
        BY <2>5, <2>6, LabelKinds
      <3> QED BY <1>10, <3>1, StartsAndReturns
    <2>7. LabelAt(im, h, l, Outside)
      BY <1>13, <2>4, <2>6 DEF LabelAt
    <2> QED BY <2>7 DEF l
  <1>15. ASSUME NEW i \in 1 .. Len(im), im[i][1] \in {"load", "store"} PROVE im[i][2] \in DOMAIN gl
    <2> DEFINE l == im[i][2]
    <2>1. l \in DataLabels
      BY <1>10, <1>15, Operators
    <2>2. l \in Runtime \/ DefinedOnce(l)
      BY <1>12, <1>15 DEF Links
    <2>3. l \notin Runtime
      BY <2>1, FirstParts DEF Runtime
    <2> HIDE DEF l
    <2>4. InRodata(l) = {} /\ LabelPlaces(func, l) = {} /\ LabelPlaces(text, l) = {}
      BY <1>1, <1>6, <2>1, ElsewhereNot
    <2>5. InData(l) # {}
      BY <2>2, <2>3, <2>4, SomewhereDefined
    <2>6. l \in {data[j] : j \in DOMAIN data}
      BY <2>5 DEF InData
    <2> QED BY <2>6 DEF l
  <1> DEFINE H == WithFrames(im, h)
  <1>16. Shape(im, h) /\ Adjacent(im)
    BY <1>7 DEF im
  <1>17. Heights(im, H)
    BY <1>16, HeightsWithFrames
  <1>18. ASSUME NEW i \in 1 .. Len(im) + 1
         PROVE  H[i] = Raised(h[i], Frame(im, i) \div SlotSize) /\ Frame(im, i) \div SlotSize \in Nat /\ h[i] \in Int
    <2>1. Frame(im, i) \in Nat /\ h[i] \in Int
      BY <1>16, FrameNat DEF Shape
    <2> QED BY <2>1 DEF WithFrames, SlotSize
  <1> HIDE DEF H
  <1>19. Len(im) \in Nat /\ 1 \in 1 .. Len(im) + 1 /\ Len(im) + 1 \in 1 .. Len(im) + 1
         /\ \A i \in 1 .. Len(im) : i \in 1 .. Len(im) + 1
    BY <1>16 DEF Shape
  <1>20. \A i \in 1 .. Len(im) + 1 : h[i] = Outside => H[i] = Outside
    BY <1>18 DEF Raised, Outside
  <1>21. ASSUME NEW i \in 1 .. Len(im), H[i] \in Nat PROVE Frame(im, i) \div SlotSize <= H[i]
    <2>1. H[i] = Raised(h[i], Frame(im, i) \div SlotSize) /\ Frame(im, i) \div SlotSize \in Nat /\ h[i] \in Int
      BY <1>18, <1>19
    <2> QED BY <1>21, <2>1 DEF Raised
  <1>22. ASSUME NEW i \in 1 .. Len(im), im[i][1] \in {"je", "jmp"} PROVE LabelAt(im, H, im[i][2], H[i])
    <2>1. ASSUME NEW j \in 1 .. Len(im), im[j] = <<"label", im[i][2]>> PROVE H[j] = H[i]
      <3>1. Ahead(h, i, j) /\ h[j] = h[i]
        BY <1>11, <1>22, <2>1 DEF LabelAt
      <3>2. Frame(im, j) = Frame(im, i)
        BY <1>16, <1>22, <3>1, SameFrame
      <3> QED BY <1>18, <1>19, <3>1, <3>2
    <2> QED BY <1>11, <1>22, <2>1 DEF LabelAt
  <1>23. ASSUME NEW i \in 1 .. Len(im), im[i][1] = "call", im[i][2] \notin Runtime
         PROVE  LabelAt(im, H, im[i][2], Outside)
    BY <1>14, <1>19, <1>20, <1>23 DEF LabelAt
  <1>24. Linked(im, gl, H)
    BY <1>9, <1>15, <1>17, <1>19, <1>20, <1>21, <1>22, <1>23 DEF Linked
  <1> QED BY <1>24 DEF im

-----------------------------------------------------------------------------
(* Before the program runs *)

\* A finished compilation has written main.
MainWritten == status = "done" => text # <<>>

LEMMA MainStaysWritten == CInv /\ MainWritten /\ [Compile]_vars => MainWritten'
PROOF
  <1> SUFFICES ASSUME CInv, MainWritten, [Compile]_vars, status' = "done" PROVE text' # <<>>
    BY DEF MainWritten
  <1>1. CASE Finish
    <2>1. text' = text \o << <<"null">> >> \o Epilogue /\ text \in Seq(Instructions)
      BY <1>1 DEF Finish, CInv, Generated, Code, Shape
    <2>2. << <<"null">> >> \o Epilogue \in Seq(Instructions) /\ Len(<< <<"null">> >> \o Epilogue) > 0
      BY DEF Epilogue, Instructions, BodyCode, Neutral
    <2> QED BY <2>1, <2>2
  <1>2. CASE Compile /\ ~Finish
    <2>1. status = "running" /\ status' # "done"
      BY <1>2 DEF Compile, CompileNumber, CompileSymbol, CompileNil, CompileIf, StartGlobal, FinishGlobal,
         StartLocal, FinishLocal, BeginFunction, DefineParam, EndFunction, StartBuiltin, FinishBuiltin,
         StartCall, FinishCall, EmitTask, Reject, Rejected, Crash, Misused, Doing
    <2> QED BY <2>1
  <1>3. CASE UNCHANGED vars
    BY <1>3 DEF vars, sections, MainWritten
  <1> QED BY <1>1, <1>2, <1>3

-----------------------------------------------------------------------------
(* Words, and where the program is *)

LEMMA WordRegisters == WordRegs \subseteq Registers
BY DEF WordRegs, Registers, CallerSaved

LEMMA WordMade ==
  /\ Word(Zero) /\ Word(Junk) /\ \A x : Word(Number(x)) /\ Word(Address(x)) /\ Word(ReturnTo(x))
  /\ \A d \in Nat : Word(SavedRbp(d))
BY DEF Word, Zero, Junk, Number, Address, ReturnTo, SavedRbp

LEMMA WordsMem ==
  ASSUME Words, NEW k, NEW x, Word(x), mem' = [mem EXCEPT ![k] = x], UNCHANGED <<reg, glob>>
  PROVE  Words' /\ \A i \in 1 .. MaxStack : i # k => mem'[i] = mem[i]
PROOF
  <1>1. DOMAIN mem' = 1 .. MaxStack
    BY DEF Words
  <1>2. \A i \in 1 .. MaxStack : mem'[i] = IF i = k THEN x ELSE mem[i]
    BY DEF Words
  <1>3. \A i \in 1 .. MaxStack : Word(mem'[i])
    BY <1>2 DEF Words
  <1> QED BY <1>1, <1>2, <1>3 DEF Words

LEMMA WordsReg ==
  ASSUME Words, NEW r, NEW x, Word(x), reg' = [reg EXCEPT ![r] = x], UNCHANGED <<mem, glob>>
  PROVE  Words'
PROOF
  <1>1. DOMAIN reg' = Registers
    BY DEF Words
  <1>2. \A i \in Registers : reg'[i] = IF i = r THEN x ELSE reg[i]
    BY DEF Words
  <1>3. \A i \in Registers : Word(reg'[i])
    BY <1>2 DEF Words
  <1> QED BY <1>1, <1>3 DEF Words

\* The program has heights h, frames fs, and is about to execute Instr.
Here(h, fs) ==
  /\ Linked(image, glob, h)
  /\ Frames(mem, h, fs, rbp)
  /\ Top(mem, h, rbp, rsp, h[pc])
  /\ pc \in 1 .. Len(image) /\ Len(image) \in Nat /\ DOMAIN h = 1 .. Len(image) + 1
  /\ Runs(Instr, h[pc], h[pc + 1])
  /\ h[pc + 1] # Outside => pc + 1 \in 1 .. Len(image)

LEMMA HereNow ==
  ASSUME MInv, run \in {"running", "faulted"}
  PROVE  \E h, fs : Here(h, fs)
PROOF
  <1>1. PICK h : Linked(image, glob, h) /\ Running(mem, image, h, pc, rbp, rsp)
    BY DEF MInv
  <1>2. PICK fs : Frames(mem, h, fs, rbp)
    BY <1>1 DEF Running
  <1>3. Top(mem, h, rbp, rsp, h[pc]) /\ pc \in 1 .. Len(image)
    BY <1>1 DEF Running
  <1>4. Len(image) \in Nat /\ DOMAIN h = 1 .. Len(image) + 1 /\ Runs(image[pc], h[pc], h[pc + 1])
    BY <1>1, <1>3 DEF Linked, Heights
  <1>5. h[Len(image) + 1] = Outside
    BY <1>1 DEF Linked
  <1>6. h[pc + 1] # Outside => pc + 1 \in 1 .. Len(image)
    BY <1>3, <1>4, <1>5
  <1> QED BY <1>1, <1>2, <1>3, <1>4, <1>6 DEF Here, Instr

LEMMA StillRunning ==
  ASSUME Words', rsp' \in 0 .. MaxStack, rbp' \in 0 .. MaxStack, zf' \in BOOLEAN, run' = "running",
         NEW h, Linked(image', glob', h), Running(mem', image', h, pc', rbp', rsp')
  PROVE  MInv'
BY DEF MInv

\* Inside a function, an instruction that moves neither rsp nor rbp.
LEMMA CalmStep ==
  ASSUME MInv, NEW h, NEW fs, Here(h, fs), h[pc] \in Nat, NEW p \in 1 .. Len(image), h[p] = h[pc],
         NEW m, \A d \in 1 .. rbp : m[d] = mem[d]
  PROVE  Running(m, image, h, p, rbp, rsp)
PROOF
  <1>1. rbp \in Nat
    BY DEF MInv
  <1>2. Frames(m, h, fs, rbp)
    BY <1>1, FramesKept DEF Here
  <1>3. rbp # 0 /\ rsp = rbp + h[pc]
    <2>1. Top(mem, h, rbp, rsp, h[pc])
      BY DEF Here
    <2> QED BY <2>1, Places DEF Top
  <1>4. Top(m, h, rbp, rsp, h[p])
    BY <1>3 DEF Top
  <1> QED BY <1>2, <1>4 DEF Running

\* The next instruction of the same height.
LEMMA CalmNext ==
  ASSUME MInv, NEW h, NEW fs, Here(h, fs), h[pc] \in Nat, h[pc + 1] = h[pc],
         NEW m, \A d \in 1 .. rbp : m[d] = mem[d]
  PROVE  Running(m, image, h, pc + 1, rbp, rsp)
PROOF
  <1>1. pc + 1 \in 1 .. Len(image)
    BY Places DEF Here
  <1> QED BY <1>1, CalmStep

LEMMA TargetAt ==
  ASSUME NEW h, NEW l, NEW a, Linked(image, glob, h), LabelAt(image, h, l, a)
  PROVE  Target(l) \in 1 .. Len(image) /\ h[Target(l)] = a
PROOF
  <1>1. DOMAIN image = 1 .. Len(image)
    BY DEF Linked, Heights
  <1>2. \E j \in DOMAIN image : image[j] = <<"label", l>>
    BY <1>1 DEF LabelAt
  <1>3. Target(l) \in DOMAIN image /\ image[Target(l)] = <<"label", l>>
    BY <1>2 DEF Target
  <1> QED BY <1>1, <1>3 DEF LabelAt

-----------------------------------------------------------------------------
(* The instructions *)

LEMMA PushInv == MInv /\ Push => MInv'
PROOF
  <1> SUFFICES ASSUME MInv, Push PROVE MInv'
    OBVIOUS
  <1>1. /\ run = "running" /\ Instr[1] = "push" /\ rsp < MaxStack /\ rsp' = rsp + 1 /\ pc' = pc + 1
        /\ mem' = [mem EXCEPT ![rsp'] = IF Instr[2] = "rbp" THEN SavedRbp(rbp) ELSE reg[Instr[2]]]
        /\ UNCHANGED <<image, reg, rbp, glob, zf, run>>
    BY DEF Push, Executing, Advance
  <1>2. PICK h, fs : Here(h, fs)
    BY <1>1, HereNow
  <1>3. /\ Linked(image, glob, h) /\ Frames(mem, h, fs, rbp) /\ Top(mem, h, rbp, rsp, h[pc])
        /\ h[pc + 1] # Outside => pc + 1 \in 1 .. Len(image)
    BY <1>2 DEF Here
  <1>4. Words /\ rsp \in 0 .. MaxStack /\ rbp \in 0 .. MaxStack /\ zf \in BOOLEAN /\ MaxStack \in Nat
    BY MachineAssumption DEF MInv
  <1>5. \/ Instr = <<"push", "rbp">> /\ h[pc] = Entered /\ h[pc + 1] = Saved
        \/ Instr = PushRax /\ h[pc] \in Nat /\ h[pc + 1] = h[pc] + 1
    BY <1>1, <1>2, Opcodes DEF Here
  <1> DEFINE x == IF Instr[2] = "rbp" THEN SavedRbp(rbp) ELSE reg[Instr[2]]
  <1>6. Word(x)
    <2>1. CASE Instr = <<"push", "rbp">>
      BY <1>4, <2>1, WordMade
    <2>2. CASE Instr = PushRax
      <3>1. Instr[2] = "rax" /\ "rax" \in Registers
        BY <2>2 DEF PushRax, Registers
      <3> QED BY <1>4, <3>1 DEF Words
    <2> QED BY <1>5, <2>1, <2>2
  <1>7. Words' /\ mem'[rsp + 1] = x /\ \A i \in 1 .. MaxStack : i # rsp + 1 => mem'[i] = mem[i]
    <2>1. mem' = [mem EXCEPT ![rsp + 1] = x]
      BY <1>1
    <2>2. rsp + 1 \in DOMAIN mem
      BY <1>1, <1>4 DEF Words
    <2>3. mem'[rsp + 1] = x
      BY <2>1, <2>2
    <2> HIDE DEF x
    <2>4. UNCHANGED <<reg, glob>> /\ Words
      BY <1>1, <1>4
    <2>5. Words' /\ \A i \in 1 .. MaxStack : i # rsp + 1 => mem'[i] = mem[i]
      BY <1>6, <2>1, <2>4, WordsMem
    <2> QED BY <2>3, <2>5
  <1>8. Running(mem', image, h, pc + 1, rbp, rsp + 1)
    <2>1. CASE Instr = <<"push", "rbp">> /\ h[pc] = Entered /\ h[pc + 1] = Saved
      <3>1. Returns(mem, h, rbp, rsp) /\ pc + 1 \in 1 .. Len(image)
        BY <1>3, <2>1, Places DEF Top
      <3>2. rsp > rbp /\ rsp \in 1 .. MaxStack
        BY <1>4, <3>1, ReturnsAbove
      <3>3. mem'[rsp] = mem[rsp] /\ \A i \in 1 .. rbp : mem'[i] = mem[i]
        <4>1. \A i \in 1 .. rbp : i \in 1 .. MaxStack /\ i # rsp + 1
          BY <1>4, <3>2
        <4> QED BY <1>4, <1>7, <3>2, <4>1
      <3>4. Frames(mem', h, fs, rbp) /\ Returns(mem', h, rbp, rsp)
        BY <1>3, <1>4, <3>1, <3>3, FramesKept, ReturnsKept
      <3>5. mem'[rsp + 1] = SavedRbp(rbp) /\ (rsp + 1) - 1 = rsp
        BY <1>4, <1>7, <2>1
      <3>6. Top(mem', h, rbp, rsp + 1, h[pc + 1])
        BY <2>1, <3>4, <3>5 DEF Top
      <3> QED BY <3>1, <3>4, <3>6 DEF Running
    <2>2. CASE Instr = PushRax /\ h[pc] \in Nat /\ h[pc + 1] = h[pc] + 1
      <3>1. rbp # 0 /\ rsp = rbp + h[pc] /\ pc + 1 \in 1 .. Len(image)
        BY <1>3, <2>2, Places DEF Top
      <3>2. \A i \in 1 .. rbp : i \in 1 .. MaxStack /\ i # rsp + 1
        BY <1>4, <2>2, <3>1
      <3>3. Frames(mem', h, fs, rbp)
        BY <1>3, <1>4, <1>7, <3>2, FramesKept
      <3>4. h[pc + 1] \in Nat /\ rsp + 1 = rbp + h[pc + 1]
        BY <1>4, <2>2, <3>1
      <3>5. Top(mem', h, rbp, rsp + 1, h[pc + 1])
        BY <3>1, <3>4 DEF Top
      <3> QED BY <3>1, <3>3, <3>5 DEF Running
    <2> QED BY <1>5, <2>1, <2>2
  <1>9. rsp' \in 0 .. MaxStack
    BY <1>1, <1>4
  <1> QED BY <1>1, <1>3, <1>4, <1>7, <1>8, <1>9, StillRunning

LEMMA PopInv == MInv /\ Pop => MInv'
PROOF
  <1> SUFFICES ASSUME MInv, Pop PROVE MInv'
    OBVIOUS
  <1>1. /\ run = "running" /\ Instr[1] = "pop" /\ Instr[2] # "rbp" /\ rsp' = rsp - 1 /\ pc' = pc + 1
        /\ reg' = [reg EXCEPT ![Instr[2]] = mem[rsp]]
        /\ UNCHANGED <<image, rbp, mem, glob, zf, run>>
    BY DEF Pop, Executing, Advance
  <1>2. PICK h, fs : Here(h, fs)
    BY <1>1, HereNow
  <1>3. /\ Linked(image, glob, h) /\ Frames(mem, h, fs, rbp) /\ Top(mem, h, rbp, rsp, h[pc])
        /\ h[pc + 1] # Outside => pc + 1 \in 1 .. Len(image)
    BY <1>2 DEF Here
  <1>4. Words /\ rsp \in 0 .. MaxStack /\ rbp \in 0 .. MaxStack /\ zf \in BOOLEAN /\ MaxStack \in Nat
    BY MachineAssumption DEF MInv
  <1>5. h[pc] \in Nat /\ h[pc + 1] \in Nat /\ h[pc + 1] = h[pc] - 1
    BY <1>1, <1>2, Opcodes DEF Here
  <1>6. rbp # 0 /\ rsp = rbp + h[pc] /\ pc + 1 \in 1 .. Len(image)
    BY <1>3, <1>5, Places DEF Top
  <1>7. rsp \in 1 .. MaxStack /\ rsp - 1 = rbp + h[pc + 1] /\ rsp - 1 \in 0 .. MaxStack
    BY <1>4, <1>5, <1>6
  <1>8. Words'
    <2>1. Word(mem[rsp])
      BY <1>4, <1>7 DEF Words
    <2> QED BY <1>1, <1>4, <2>1, WordsReg
  <1>9. Top(mem, h, rbp, rsp - 1, h[pc + 1])
    BY <1>5, <1>6, <1>7 DEF Top
  <1>10. Running(mem, image, h, pc + 1, rbp, rsp - 1)
    BY <1>3, <1>6, <1>9 DEF Running
  <1> QED BY <1>1, <1>3, <1>4, <1>7, <1>8, <1>10, StillRunning

LEMMA PopRbpInv == MInv /\ PopRbp => MInv'
PROOF
  <1> SUFFICES ASSUME MInv, PopRbp PROVE MInv'
    OBVIOUS
  <1>1. /\ run = "running" /\ Instr[1] = "pop" /\ Instr[2] = "rbp" /\ rsp' = rsp - 1 /\ pc' = pc + 1
        /\ rbp' = mem[rsp][2]
        /\ UNCHANGED <<image, reg, mem, glob, zf, run>>
    BY DEF PopRbp, Executing, Advance
  <1>2. PICK h, fs : Here(h, fs)
    BY <1>1, HereNow
  <1>3. /\ Linked(image, glob, h) /\ Frames(mem, h, fs, rbp) /\ Top(mem, h, rbp, rsp, h[pc])
        /\ h[pc + 1] # Outside => pc + 1 \in 1 .. Len(image)
    BY <1>2 DEF Here
  <1>4. Words /\ rsp \in 0 .. MaxStack /\ rbp \in 0 .. MaxStack /\ zf \in BOOLEAN /\ MaxStack \in Nat
    BY MachineAssumption DEF MInv
  <1>5. h[pc] = Left /\ h[pc + 1] = Popped
    <2>1. "rbp" \notin WordRegs
      BY DEF WordRegs
    <2> QED BY <1>1, <1>2, <2>1, Opcodes DEF Here
  <1>6. rbp # 0 /\ rsp = rbp /\ pc + 1 \in 1 .. Len(image)
    BY <1>3, <1>5, Places DEF Top
  <1>7. PICK c \in Nat : /\ c < rbp /\ mem[rbp] = SavedRbp(c) /\ Returns(mem, h, c, rbp - 1)
                         /\ Frames(mem, h, {d \in fs : d <= c}, c)
    BY <1>3, <1>4, <1>6, FramesShorter
  <1>8. rbp' = c /\ c \in 0 .. MaxStack /\ rsp - 1 \in 0 .. MaxStack
    <2>1. mem[rsp][2] = c
      BY <1>6, <1>7 DEF SavedRbp
    <2> QED BY <1>1, <1>4, <1>6, <1>7, <2>1
  <1>9. Running(mem, image, h, pc + 1, c, rsp - 1)
    <2>1. Top(mem, h, c, rsp - 1, h[pc + 1])
      BY <1>5, <1>6, <1>7 DEF Top
    <2>2. \E gs : Frames(mem, h, gs, c)
      BY <1>7
    <2> QED BY <1>6, <2>1, <2>2 DEF Running
  <1>10. Words'
    BY <1>1, <1>4 DEF Words
  <1> QED BY <1>1, <1>3, <1>4, <1>8, <1>9, <1>10, StillRunning

LEMMA EnterFrameInv == MInv /\ EnterFrame => MInv'
PROOF
  <1> SUFFICES ASSUME MInv, EnterFrame PROVE MInv'
    OBVIOUS
  <1>1. /\ run = "running" /\ Instr[1] = "mov" /\ Instr[2] = "rbp" /\ rbp' = rsp /\ pc' = pc + 1
        /\ UNCHANGED <<image, reg, rsp, mem, glob, zf, run>>
    BY DEF EnterFrame, Executing, Advance
  <1>2. PICK h, fs : Here(h, fs)
    BY <1>1, HereNow
  <1>3. /\ Linked(image, glob, h) /\ Frames(mem, h, fs, rbp) /\ Top(mem, h, rbp, rsp, h[pc])
        /\ h[pc + 1] # Outside => pc + 1 \in 1 .. Len(image)
    BY <1>2 DEF Here
  <1>4. Words /\ rsp \in 0 .. MaxStack /\ rbp \in 0 .. MaxStack /\ zf \in BOOLEAN /\ MaxStack \in Nat
    BY MachineAssumption DEF MInv
  <1>5. h[pc] = Saved /\ h[pc + 1] = 0
    <2>1. "rbp" \notin WordRegs
      BY DEF WordRegs
    <2> QED BY <1>1, <1>2, <2>1, Opcodes DEF Here
  <1>6. mem[rsp] = SavedRbp(rbp) /\ Returns(mem, h, rbp, rsp - 1) /\ pc + 1 \in 1 .. Len(image)
    BY <1>3, <1>5, Places DEF Top
  <1>7. Frames(mem, h, fs \cup {rsp}, rsp) /\ rsp > rbp
    BY <1>3, <1>4, <1>6, FramesLonger
  <1>8. Running(mem, image, h, pc + 1, rsp, rsp)
    <2>1. rsp # 0 /\ rsp = rsp + 0
      BY <1>4, <1>7
    <2>2. Top(mem, h, rsp, rsp, h[pc + 1])
      BY <1>5, <2>1 DEF Top
    <2> QED BY <1>6, <1>7, <2>2 DEF Running
  <1>9. Words'
    BY <1>1, <1>4 DEF Words
  <1> QED BY <1>1, <1>3, <1>4, <1>8, <1>9, StillRunning

LEMMA LeaveFrameInv == MInv /\ LeaveFrame => MInv'
PROOF
  <1> SUFFICES ASSUME MInv, LeaveFrame PROVE MInv'
    OBVIOUS
  <1>1. /\ run = "running" /\ Instr[1] = "mov" /\ Instr[2] = "rsp" /\ rsp' = rbp /\ pc' = pc + 1
        /\ UNCHANGED <<image, reg, rbp, mem, glob, zf, run>>
    BY DEF LeaveFrame, Executing, Advance
  <1>2. PICK h, fs : Here(h, fs)
    BY <1>1, HereNow
  <1>3. /\ Linked(image, glob, h) /\ Frames(mem, h, fs, rbp) /\ Top(mem, h, rbp, rsp, h[pc])
        /\ h[pc + 1] # Outside => pc + 1 \in 1 .. Len(image)
    BY <1>2 DEF Here
  <1>4. Words /\ rsp \in 0 .. MaxStack /\ rbp \in 0 .. MaxStack /\ zf \in BOOLEAN
    BY DEF MInv
  <1>5. h[pc] \in Nat /\ h[pc + 1] = Left
    <2>1. "rsp" \notin WordRegs
      BY DEF WordRegs
    <2> QED BY <1>1, <1>2, <2>1, Opcodes DEF Here
  <1>6. rbp # 0 /\ pc + 1 \in 1 .. Len(image)
    BY <1>3, <1>5, Places DEF Top
  <1>7. Running(mem, image, h, pc + 1, rbp, rbp)
    BY <1>3, <1>5, <1>6 DEF Running, Top
  <1>8. Words'
    BY <1>1, <1>4 DEF Words
  <1> QED BY <1>1, <1>3, <1>4, <1>7, <1>8, StillRunning

LEMMA ReserveInv == MInv /\ Reserve => MInv'
PROOF
  <1> SUFFICES ASSUME MInv, Reserve PROVE MInv'
    OBVIOUS
  <1> DEFINE n == Instr[2] \div SlotSize
  <1>1. /\ run = "running" /\ Instr[1] = "reserve" /\ rsp + n <= MaxStack /\ rsp' = rsp + n /\ pc' = pc + 1
        /\ UNCHANGED <<image, reg, rbp, mem, glob, zf, run>>
    BY DEF Reserve, Executing, Advance
  <1>2. PICK h, fs : Here(h, fs)
    BY <1>1, HereNow
  <1>3. /\ Linked(image, glob, h) /\ Frames(mem, h, fs, rbp) /\ Top(mem, h, rbp, rsp, h[pc])
        /\ h[pc + 1] # Outside => pc + 1 \in 1 .. Len(image)
    BY <1>2 DEF Here
  <1>4. Words /\ rsp \in 0 .. MaxStack /\ rbp \in 0 .. MaxStack /\ zf \in BOOLEAN /\ MaxStack \in Nat
    BY MachineAssumption DEF MInv
  <1>5. Instr[2] \in Nat /\ h[pc] \in Nat /\ h[pc + 1] \in Nat /\ h[pc + 1] = h[pc] + n
    BY <1>1, <1>2, Opcodes DEF Here
  <1>6. n \in Nat
    BY <1>5 DEF SlotSize
  <1> HIDE DEF n
  <1>7. rbp # 0 /\ rsp = rbp + h[pc] /\ pc + 1 \in 1 .. Len(image)
    BY <1>3, <1>5, Places DEF Top
  <1>8. rsp + n = rbp + h[pc + 1] /\ rsp + n \in 0 .. MaxStack
    BY <1>1, <1>4, <1>5, <1>6, <1>7
  <1>9. Top(mem, h, rbp, rsp + n, h[pc + 1])
    BY <1>5, <1>7, <1>8 DEF Top
  <1>10. Running(mem, image, h, pc + 1, rbp, rsp + n)
    BY <1>3, <1>7, <1>9 DEF Running
  <1>11. Words'
    BY <1>1, <1>4 DEF Words
  <1> QED BY <1>1, <1>3, <1>4, <1>8, <1>10, <1>11, StillRunning

\* A slot is a word above rbp.
LEMMA SlotAbove ==
  ASSUME MInv, NEW o \in Nat \ (0 .. SlotSize - 1)
  PROVE  Slot(o) \in Nat /\ Slot(o) > rbp
PROOF
  <1>1. rbp \in Nat
    BY DEF MInv
  <1>2. o \in Nat /\ o >= 8
    BY DEF SlotSize
  <1>3. o \div 8 \in Nat /\ o \div 8 >= 1
    BY <1>2
  <1> QED BY <1>1, <1>3 DEF Slot, SlotSize

LEMMA SaveSlotInv == MInv /\ SaveSlot => MInv'
PROOF
  <1> SUFFICES ASSUME MInv, SaveSlot PROVE MInv'
    OBVIOUS
  <1> DEFINE k == Slot(Instr[2])
  <1>1. /\ run = "running" /\ Instr[1] = "saveslot" /\ mem' = [mem EXCEPT ![k] = reg[Instr[3]]]
        /\ pc' = pc + 1 /\ UNCHANGED <<image, reg, rsp, rbp, glob, zf, run>>
    BY DEF SaveSlot, Executing, Advance
  <1>2. PICK h, fs : Here(h, fs)
    BY <1>1, HereNow
  <1>3. Linked(image, glob, h)
    BY <1>2 DEF Here
  <1>4. Words /\ rsp \in 0 .. MaxStack /\ rbp \in 0 .. MaxStack /\ zf \in BOOLEAN /\ MaxStack \in Nat
    BY MachineAssumption DEF MInv
  <1>5. Instr \in Neutral /\ h[pc] \in Nat /\ h[pc + 1] = h[pc]
    BY <1>1, <1>2, Opcodes DEF Here
  <1>6. Instr[2] \in Nat \ (0 .. SlotSize - 1) /\ Instr[3] \in Registers
    BY <1>1, <1>5, NeutralOps, WordRegisters
  <1>7. k \in Nat /\ k > rbp
    BY <1>6, SlotAbove
  <1> HIDE DEF k
  <1>8. Words' /\ \A i \in 1 .. MaxStack : i # k => mem'[i] = mem[i]
    <2> DEFINE x == reg[Instr[3]]
    <2>1. Words /\ Word(x) /\ UNCHANGED <<reg, glob>> /\ mem' = [mem EXCEPT ![k] = x]
      BY <1>1, <1>4, <1>6 DEF Words
    <2> HIDE DEF x
    <2> QED BY <2>1, WordsMem
  <1>9. \A i \in 1 .. rbp : mem'[i] = mem[i]
    BY <1>4, <1>7, <1>8
  <1>10. Running(mem', image, h, pc + 1, rbp, rsp)
    BY <1>2, <1>5, <1>9, CalmNext
  <1> QED BY <1>1, <1>3, <1>4, <1>8, <1>10, StillRunning

LEMMA StoreInv == MInv /\ Store => MInv'
PROOF
  <1> SUFFICES ASSUME MInv, Store PROVE MInv'
    OBVIOUS
  <1>1. /\ run = "running" /\ Instr[1] = "store" /\ glob' = [glob EXCEPT ![Instr[2]] = reg["rbx"]]
        /\ pc' = pc + 1 /\ UNCHANGED <<image, reg, rsp, rbp, mem, zf, run>>
    BY DEF Store, Executing, Advance
  <1>2. PICK h, fs : Here(h, fs)
    BY <1>1, HereNow
  <1>3. Linked(image, glob, h)
    BY <1>2 DEF Here
  <1>4. Words /\ rsp \in 0 .. MaxStack /\ rbp \in 0 .. MaxStack /\ zf \in BOOLEAN
    BY DEF MInv
  <1>5. h[pc] \in Nat /\ h[pc + 1] = h[pc]
    BY <1>1, <1>2, Opcodes DEF Here
  <1>6. Word(reg["rbx"])
    BY <1>4 DEF Words, Registers
  <1>7. DOMAIN glob' = DOMAIN glob /\ \A l \in DOMAIN glob : Word(glob'[l])
    BY <1>1, <1>4, <1>6 DEF Words
  <1>8. Words'
    BY <1>1, <1>4, <1>7 DEF Words
  <1>9. Linked(image, glob', h)
    BY <1>3, <1>7 DEF Linked
  <1>10. Running(mem, image, h, pc + 1, rbp, rsp)
    BY <1>2, <1>5, CalmNext
  <1> QED BY <1>1, <1>4, <1>8, <1>9, <1>10, StillRunning

LEMMA LoadRegisterInv == MInv /\ LoadRegister => MInv'
PROOF
  <1> SUFFICES ASSUME MInv, LoadRegister PROVE MInv'
    OBVIOUS
  <1>1. /\ run = "running" /\ Instr[1] \in {"mov", "loadslot", "lea", "load", "null", "movsd"}
        /\ Instr[1] = "mov" => Instr[2] \in Registers
        /\ Instr[1] = "loadslot" => Slot(Instr[2]) <= MaxStack
        /\ reg' = [reg EXCEPT ![Loads[1]] = Loads[2]]
        /\ pc' = pc + 1 /\ UNCHANGED <<image, rsp, rbp, mem, glob, zf, run>>
    BY DEF LoadRegister, Advance
  <1>2. PICK h, fs : Here(h, fs)
    BY <1>1, HereNow
  <1>3. Linked(image, glob, h) /\ pc \in 1 .. Len(image)
    BY <1>2 DEF Here
  <1>4. Words /\ rsp \in 0 .. MaxStack /\ rbp \in 0 .. MaxStack /\ zf \in BOOLEAN /\ MaxStack \in Nat
    BY MachineAssumption DEF MInv
  <1>5. /\ h[pc] \in Nat /\ h[pc + 1] = h[pc]
        /\ Instr[1] = "mov" => Instr[3] \in WordRegs
        /\ Instr[1] # "mov" => Instr \in Neutral
    <2>1. CASE Instr[1] = "mov"
      <3>1. "rbp" \notin Registers /\ "rsp" \notin Registers
        BY DEF Registers, CallerSaved
      <3> QED BY <1>1, <1>2, <2>1, <3>1, Opcodes DEF Here
    <2>2. CASE Instr[1] # "mov"
      BY <1>1, <1>2, <2>2, Opcodes DEF Here
    <2> QED BY <2>1, <2>2
  <1>6. Word(Loads[2])
    <2>1. CASE Instr[1] = "mov"
      <3>1. Loads[2] = reg[Instr[3]]
        BY <2>1 DEF Loads
      <3> QED BY <1>4, <1>5, <2>1, <3>1, WordRegisters DEF Words
    <2>2. CASE Instr[1] = "loadslot"
      <3>1. Loads[2] = mem[Slot(Instr[2])]
        BY <2>2 DEF Loads
      <3>2. Instr[2] \in Nat \ (0 .. SlotSize - 1)
        BY <1>5, <2>2, NeutralOps
      <3>3. Slot(Instr[2]) \in 1 .. MaxStack
        <4>1. Slot(Instr[2]) \in Nat /\ Slot(Instr[2]) > rbp
          BY <3>2, SlotAbove
        <4> QED BY <1>1, <1>4, <2>2, <4>1
      <3> QED BY <1>4, <3>1, <3>3 DEF Words
    <2>3. CASE Instr[1] = "lea"
      <3>1. Loads[2] = Address(Instr[2])
        BY <2>3 DEF Loads
      <3> QED BY <3>1, WordMade
    <2>4. CASE Instr[1] = "load"
      <3>1. Loads[2] = glob[Instr[2]]
        BY <2>4 DEF Loads
      <3>2. Instr[2] \in DOMAIN glob
        BY <1>3, <2>4 DEF Linked, Instr
      <3> QED BY <1>4, <3>1, <3>2 DEF Words
    <2>5. CASE Instr[1] = "null"
      <3>1. Loads[2] = Zero
        BY <2>5 DEF Loads
      <3> QED BY <3>1, WordMade
    <2>6. CASE Instr[1] = "movsd"
      <3>1. Loads[2] = Number((CHOOSE entry \in ToSet(rodata) : entry[1] = Instr[2])[2])
        BY <2>6 DEF Loads
      <3> QED BY <3>1, WordMade
    <2> QED BY <1>1, <2>1, <2>2, <2>3, <2>4, <2>5, <2>6
  <1>7. Words'
    <2>1. UNCHANGED <<mem, glob>> /\ Words
      BY <1>1, <1>4
    <2> DEFINE r == Loads[1]
               x == Loads[2]
    <2>2. reg' = [reg EXCEPT ![r] = x] /\ Word(x)
      BY <1>1, <1>6
    <2> HIDE DEF r, x
    <2> QED BY <2>1, <2>2, WordsReg
  <1>8. Running(mem, image, h, pc + 1, rbp, rsp)
    BY <1>2, <1>5, CalmNext
  <1> QED BY <1>1, <1>3, <1>4, <1>7, <1>8, StillRunning

LEMMA CompareInv == MInv /\ Compare => MInv'
PROOF
  <1> SUFFICES ASSUME MInv, Compare PROVE MInv'
    OBVIOUS
  <1>1. /\ run = "running" /\ Instr[1] = "cmp" /\ zf' = (reg["rax"] = Address(Instr[2]))
        /\ pc' = pc + 1 /\ UNCHANGED <<image, reg, rsp, rbp, mem, glob, run>>
    BY DEF Compare, Executing, Advance
  <1>2. PICK h, fs : Here(h, fs)
    BY <1>1, HereNow
  <1>3. Linked(image, glob, h)
    BY <1>2 DEF Here
  <1>4. Words /\ rsp \in 0 .. MaxStack /\ rbp \in 0 .. MaxStack
    BY DEF MInv
  <1>5. h[pc] \in Nat /\ h[pc + 1] = h[pc]
    BY <1>1, <1>2, Opcodes DEF Here
  <1>6. zf' \in BOOLEAN
    BY <1>1, Zenon
  <1>7. Words'
    BY <1>1, <1>4 DEF Words
  <1>8. Running(mem, image, h, pc + 1, rbp, rsp)
    BY <1>2, <1>5, CalmNext
  <1> QED BY <1>1, <1>3, <1>4, <1>6, <1>7, <1>8, StillRunning

LEMMA JumpInv == MInv /\ Jump => MInv'
PROOF
  <1> SUFFICES ASSUME MInv, Jump PROVE MInv'
    OBVIOUS
  <1>1. /\ run = "running" /\ Instr[1] \in {"jmp", "je"} /\ pc' \in {Target(Instr[2]), pc + 1}
        /\ Instr[1] = "jmp" \/ zf => pc' = Target(Instr[2])
        /\ UNCHANGED <<image, reg, rsp, rbp, mem, glob, zf, run>>
    BY DEF Jump, Executing
  <1>2. PICK h, fs : Here(h, fs)
    BY <1>1, HereNow
  <1>3. Linked(image, glob, h) /\ pc \in 1 .. Len(image)
    BY <1>2 DEF Here
  <1>4. Words /\ rsp \in 0 .. MaxStack /\ rbp \in 0 .. MaxStack /\ zf \in BOOLEAN
    BY DEF MInv
  <1>5. h[pc] \in Nat /\ h[pc + 1] = h[pc]
    BY <1>1, <1>2, Opcodes DEF Here
  <1>6. Target(Instr[2]) \in 1 .. Len(image) /\ h[Target(Instr[2])] = h[pc]
    <2>1. LabelAt(image, h, Instr[2], h[pc])
      BY <1>1, <1>3 DEF Linked, Instr
    <2> QED BY <1>3, <2>1, TargetAt
  <1>7. Running(mem, image, h, pc', rbp, rsp)
    <2>1. CASE pc' = Target(Instr[2])
      BY <1>2, <1>5, <1>6, <2>1, CalmStep
    <2>2. CASE pc' = pc + 1
      BY <1>2, <1>5, <2>2, CalmNext
    <2> QED BY <1>1, <2>1, <2>2
  <1>8. Words'
    BY <1>1, <1>4 DEF Words
  <1> QED BY <1>1, <1>3, <1>4, <1>7, <1>8, StillRunning

LEMMA PassLabelInv == MInv /\ PassLabel => MInv'
PROOF
  <1> SUFFICES ASSUME MInv, PassLabel PROVE MInv'
    OBVIOUS
  <1>1. /\ run = "running" /\ Instr[1] = "label" /\ pc' = pc + 1
        /\ UNCHANGED <<image, reg, rsp, rbp, mem, glob, zf, run>>
    BY DEF PassLabel, Executing, Advance
  <1>2. PICK h, fs : Here(h, fs)
    BY <1>1, HereNow
  <1>3. /\ Linked(image, glob, h) /\ Frames(mem, h, fs, rbp) /\ Top(mem, h, rbp, rsp, h[pc])
        /\ h[pc + 1] # Outside => pc + 1 \in 1 .. Len(image)
    BY <1>2 DEF Here
  <1>4. Words /\ rsp \in 0 .. MaxStack /\ rbp \in 0 .. MaxStack /\ zf \in BOOLEAN
    BY DEF MInv
  <1>5. (h[pc] = Outside /\ h[pc + 1] = Entered) \/ (h[pc] \in Nat /\ h[pc + 1] = h[pc])
    BY <1>1, <1>2, Opcodes DEF Here
  <1>6. Running(mem, image, h, pc + 1, rbp, rsp)
    <2>1. CASE h[pc] = Outside /\ h[pc + 1] = Entered
      <3>1. pc + 1 \in 1 .. Len(image) /\ Returns(mem, h, rbp, rsp)
        BY <1>3, <2>1, Places DEF Top
      <3> QED BY <1>3, <2>1, <3>1 DEF Running, Top
    <2>2. CASE h[pc] \in Nat /\ h[pc + 1] = h[pc]
      BY <1>2, <2>2, CalmNext
    <2> QED BY <1>5, <2>1, <2>2
  <1>7. Words'
    BY <1>1, <1>4 DEF Words
  <1> QED BY <1>1, <1>3, <1>4, <1>6, <1>7, StillRunning

\* The place behind a call is one the frame of the caller can be returned to.
LEMMA CallInv == MInv /\ Call => MInv'
PROOF
  <1> SUFFICES ASSUME MInv, Call PROVE MInv'
    OBVIOUS
  <1>1. /\ run = "running" /\ Instr[1] = "call" /\ Instr[2] \notin Runtime /\ rsp < MaxStack
        /\ rsp' = rsp + 1 /\ mem' = [mem EXCEPT ![rsp + 1] = ReturnTo(pc + 1)] /\ pc' = Target(Instr[2])
        /\ UNCHANGED <<image, reg, rbp, glob, zf, run>>
    BY DEF Call, Executing
  <1>2. PICK h, fs : Here(h, fs)
    BY <1>1, HereNow
  <1>3. /\ Linked(image, glob, h) /\ Frames(mem, h, fs, rbp) /\ Top(mem, h, rbp, rsp, h[pc])
        /\ pc \in 1 .. Len(image) /\ Len(image) \in Nat /\ DOMAIN h = 1 .. Len(image) + 1
    BY <1>2 DEF Here
  <1>4. Words /\ rsp \in 0 .. MaxStack /\ rbp \in 0 .. MaxStack /\ zf \in BOOLEAN /\ MaxStack \in Nat
    BY MachineAssumption DEF MInv
  <1>5. h[pc] \in Nat /\ h[pc + 1] = h[pc]
    BY <1>1, <1>2, Opcodes DEF Here
  <1>6. rbp # 0 /\ rsp = rbp + h[pc]
    BY <1>3, <1>5, Places DEF Top
  <1>7. Target(Instr[2]) \in 1 .. Len(image) /\ h[Target(Instr[2])] = Outside
    <2>1. LabelAt(image, h, Instr[2], Outside)
      BY <1>1, <1>3 DEF Linked, Instr
    <2> QED BY <1>3, <2>1, TargetAt
  <1>8. /\ Words' /\ mem'[rsp + 1] = ReturnTo(pc + 1)
        /\ \A i \in 1 .. MaxStack : i # rsp + 1 => mem'[i] = mem[i]
    <2>1. rsp + 1 \in DOMAIN mem
      BY <1>1, <1>4 DEF Words
    <2>2. mem'[rsp + 1] = ReturnTo(pc + 1)
      BY <1>1, <2>1
    <2>3. Word(ReturnTo(pc + 1)) /\ UNCHANGED <<reg, glob>> /\ mem' = [mem EXCEPT ![rsp + 1] = ReturnTo(pc + 1)]
      BY <1>1, WordMade
    <2>4. Words' /\ \A i \in 1 .. MaxStack : i # rsp + 1 => mem'[i] = mem[i]
      <3> DEFINE x == ReturnTo(pc + 1)
      <3>1. Words /\ Word(x) /\ UNCHANGED <<reg, glob>> /\ mem' = [mem EXCEPT ![rsp + 1] = x]
        BY <1>4, <2>3
      <3> HIDE DEF x
      <3> QED BY <3>1, WordsMem
    <2> QED BY <2>2, <2>4
  <1>9. Frames(mem', h, fs, rbp)
    <2>1. \A i \in 1 .. rbp : i \in 1 .. MaxStack /\ i # rsp + 1
      BY <1>4, <1>5, <1>6
    <2> QED BY <1>3, <1>4, <1>8, <2>1, FramesKept
  <1>10. Returns(mem', h, rbp, rsp + 1)
    <2>1. pc + 1 \in DOMAIN h /\ h[pc + 1] \in Nat /\ rsp + 1 = rbp + h[pc + 1] + 1
      BY <1>3, <1>4, <1>5, <1>6
    <2> QED BY <1>6, <1>8, <2>1 DEF Returns
  <1>11. Running(mem', image, h, Target(Instr[2]), rbp, rsp + 1)
    BY <1>7, <1>9, <1>10 DEF Running, Top
  <1>12. rsp' \in 0 .. MaxStack
    BY <1>1, <1>4
  <1> QED BY <1>1, <1>3, <1>4, <1>8, <1>11, <1>12, StillRunning

LEMMA ReturnInv == MInv /\ Return => MInv'
PROOF
  <1> SUFFICES ASSUME MInv, Return PROVE MInv'
    OBVIOUS
  <1>1. /\ run = "running" /\ Instr[1] = "ret" /\ rsp' = rsp - 1 /\ pc' = mem[rsp][2]
        /\ run' = IF pc' = OutOfMain THEN "halted" ELSE run
        /\ UNCHANGED <<image, reg, rbp, mem, glob, zf>>
    BY DEF Return, Executing
  <1>2. PICK h, fs : Here(h, fs)
    BY <1>1, HereNow
  <1>3. /\ Linked(image, glob, h) /\ Frames(mem, h, fs, rbp) /\ Top(mem, h, rbp, rsp, h[pc])
        /\ Len(image) \in Nat /\ DOMAIN h = 1 .. Len(image) + 1 /\ h[Len(image) + 1] = Outside
    BY <1>2 DEF Here, Linked
  <1>4. Words /\ rsp \in 0 .. MaxStack /\ rbp \in 0 .. MaxStack /\ zf \in BOOLEAN /\ MaxStack \in Nat
    BY MachineAssumption DEF MInv
  <1>5. Returns(mem, h, rbp, rsp)
    <2>1. h[pc] = Popped
      BY <1>1, <1>2, Opcodes DEF Here
    <2> QED BY <1>3, <2>1, Places DEF Top
  <1>6. Words'
    BY <1>1, <1>4 DEF Words
  <1>7. CASE rbp = 0
    <2>1. rsp = 1 /\ mem[rsp] = ReturnTo(OutOfMain)
      BY <1>5, <1>7 DEF Returns
    <2>2. pc' = OutOfMain
      BY <1>1, <2>1 DEF ReturnTo
    <2>3. run' = "halted" /\ rsp' = 0 /\ rbp' = 0 /\ zf' \in BOOLEAN
      BY <1>1, <1>4, <1>7, <2>1, <2>2
    <2> QED BY <1>4, <1>6, <2>3 DEF MInv
  <1>8. CASE rbp # 0
    <2>1. PICK r \in DOMAIN h : h[r] \in Nat /\ rsp = rbp + h[r] + 1 /\ mem[rsp] = ReturnTo(r)
      BY <1>5, <1>8 DEF Returns
    <2>2. r \in 1 .. Len(image)
      <3>1. r # Len(image) + 1
        BY <1>3, <2>1, Places
      <3> QED BY <1>3, <3>1
    <2>3. pc' = r /\ r # OutOfMain
      BY <1>1, <2>1, <2>2 DEF ReturnTo, OutOfMain
    <2>4. rsp - 1 = rbp + h[r] /\ rsp - 1 \in 0 .. MaxStack
      BY <1>4, <2>1
    <2>5. Top(mem, h, rbp, rsp - 1, h[r])
      BY <1>8, <2>1, <2>4 DEF Top
    <2>6. Running(mem, image, h, r, rbp, rsp - 1)
      BY <1>3, <2>2, <2>5 DEF Running
    <2>7. run' = "running"
      BY <1>1, <2>3
    <2> QED BY <1>1, <1>3, <1>4, <1>6, <2>3, <2>4, <2>6, <2>7, StillRunning
  <1> QED BY <1>7, <1>8

LEMMA CallRuntimeInv == MInv /\ CallRuntime => MInv'
PROOF
  <1> SUFFICES ASSUME MInv, CallRuntime PROVE MInv'
    OBVIOUS
  <1> DEFINE x(r) == CASE r = "rax" -> RuntimeResult(Instr[2], reg["xmm0"], reg["rdi"], reg["rsi"])
                       [] r = "rbx" -> reg["rbx"]
                       [] OTHER     -> Junk
  <1>1. /\ run = "running" /\ Instr[1] = "call" /\ reg' = [r \in Registers |-> x(r)]
        /\ mem' = [i \in DOMAIN mem |-> IF i <= rsp THEN mem[i] ELSE Junk]
        /\ pc' = pc + 1 /\ UNCHANGED <<image, rsp, rbp, glob, zf, run>>
    BY DEF CallRuntime, Executing, Advance
  <1>2. PICK h, fs : Here(h, fs)
    BY <1>1, HereNow
  <1>3. Linked(image, glob, h) /\ Top(mem, h, rbp, rsp, h[pc])
    BY <1>2 DEF Here
  <1>4. Words /\ rsp \in 0 .. MaxStack /\ rbp \in 0 .. MaxStack /\ zf \in BOOLEAN /\ MaxStack \in Nat
    BY MachineAssumption DEF MInv
  <1>5. h[pc] \in Nat /\ h[pc + 1] = h[pc]
    BY <1>1, <1>2, Opcodes DEF Here
  <1>6. ASSUME NEW r \in Registers PROVE Word(x(r))
    <2>1. CASE r = "rax"
      <3>1. x(r) = RuntimeResult(Instr[2], reg["xmm0"], reg["rdi"], reg["rsi"])
        BY <2>1
      <3> QED BY <3>1, WordMade DEF RuntimeResult
    <2>2. CASE r = "rbx"
      <3>1. x(r) = reg["rbx"]
        BY <2>2
      <3> QED BY <1>4, <2>2, <3>1 DEF Words
    <2>3. CASE r # "rax" /\ r # "rbx"
      <3>1. x(r) = Junk
        BY <2>3
      <3> QED BY <3>1, WordMade
    <2> QED BY <2>1, <2>2, <2>3
  <1> HIDE DEF x
  <1>7. Words'
    <2>1. DOMAIN reg' = Registers /\ \A r \in Registers : Word(reg'[r])
      BY <1>1, <1>6
    <2>2. DOMAIN mem' = 1 .. MaxStack /\ \A i \in 1 .. MaxStack : mem'[i] = mem[i] \/ mem'[i] = Junk
      BY <1>1, <1>4 DEF Words
    <2>3. \A i \in 1 .. MaxStack : Word(mem'[i])
      BY <1>4, <2>2, WordMade DEF Words
    <2> QED BY <1>1, <1>4, <2>1, <2>2, <2>3 DEF Words
  <1>8. \A i \in 1 .. rbp : mem'[i] = mem[i]
    <2>1. rsp = rbp + h[pc]
      BY <1>3, <1>5, Places DEF Top
    <2>2. \A i \in 1 .. rbp : i \in 1 .. MaxStack /\ i <= rsp
      BY <1>4, <1>5, <2>1
    <2> QED BY <1>1, <1>4, <2>2 DEF Words
  <1>9. Running(mem', image, h, pc + 1, rbp, rsp)
    BY <1>2, <1>5, <1>8, CalmNext
  <1> QED BY <1>1, <1>3, <1>4, <1>7, <1>9, StillRunning

\* Neither a saved rbp nor a return address is ever missing where one is used.
LEMMA FaultInv == MInv /\ Fault => MInv'
PROOF
  <1> SUFFICES ASSUME MInv, Fault PROVE MInv'
    OBVIOUS
  <1>1. Faulty /\ run' = "faulted" /\ UNCHANGED <<image, pc, reg, rsp, rbp, mem, glob, zf>>
    BY DEF Fault
  <1>2. /\ run = "running"
        /\ Instr[1] = "pop" => Instr[2] = "rbp" /\ mem[rsp][1] # "rbp"
        /\ Instr[1] = "ret" => mem[rsp][1] # "pc"
    BY <1>1 DEF Faulty, Executing
  <1>3. PICK h, fs : Here(h, fs)
    BY <1>2, HereNow
  <1>4. Frames(mem, h, fs, rbp) /\ Top(mem, h, rbp, rsp, h[pc])
    BY <1>3 DEF Here
  <1>5. Words /\ rsp \in 0 .. MaxStack /\ rbp \in 0 .. MaxStack /\ zf \in BOOLEAN /\ MaxStack \in Nat
    BY MachineAssumption DEF MInv
  <1>6. ASSUME Instr[1] = "pop" PROVE FALSE
    <2>1. h[pc] = Left
      <3>1. "rbp" \notin WordRegs
        BY DEF WordRegs
      <3> QED BY <1>2, <1>3, <1>6, <3>1, Opcodes DEF Here
    <2>2. rbp # 0 /\ rsp = rbp
      BY <1>4, <2>1, Places DEF Top
    <2>3. \E c \in Nat : mem[rbp] = SavedRbp(c)
      <3>1. rbp \in Nat /\ rbp # 0
        BY <1>5, <2>2
      <3>2. PICK c \in Nat : /\ c < rbp /\ mem[rbp] = SavedRbp(c) /\ Returns(mem, h, c, rbp - 1)
                             /\ Frames(mem, h, {d \in fs : d <= c}, c)
        BY <1>4, <3>1, FramesShorter
      <3> QED BY <3>2
    <2> QED BY <1>2, <1>6, <2>2, <2>3 DEF SavedRbp
  <1>7. ASSUME Instr[1] = "ret" PROVE FALSE
    <2>1. h[pc] = Popped
      BY <1>3, <1>7, Opcodes DEF Here
    <2>2. Returns(mem, h, rbp, rsp)
      BY <1>4, <2>1, Places DEF Top
    <2>3. \E r : mem[rsp] = ReturnTo(r)
      BY <2>2 DEF Returns
    <2> QED BY <1>2, <1>7, <2>3 DEF ReturnTo
  <1>8. image[pc][1] \notin {"ret", "pop"}
    BY <1>6, <1>7 DEF Instr
  <1>9. Words'
    BY <1>1, <1>5 DEF Words
  <1>10. Linked(image, glob, h) /\ Running(mem, image, h, pc, rbp, rsp)
    BY <1>3, <1>4 DEF Here, Running
  <1> QED BY <1>1, <1>5, <1>8, <1>9, <1>10 DEF MInv

LEMMA ImageAdjacent == ASSUME CInv, SInv PROVE Adjacent(text \o func)
PROOF
  <1>1. func \in Seq(Instructions) /\ text \in Seq(Instructions)
    BY DEF CInv, Generated, Code, Shape
  <1>2. Adjacent(text) /\ Adjacent(func)
    BY DEF SInv, Frameless, Adjacent
  <1> QED BY <1>1, <1>2, AdjacentAfter

LEMMA LinkInv == MInv /\ CInv /\ SInv /\ MainWritten /\ Link => MInv'
PROOF
  <1> SUFFICES ASSUME MInv, CInv, SInv, MainWritten, Link PROVE MInv'
    OBVIOUS
  <1>1. /\ status = "done" /\ run = "off" /\ image' = text \o func /\ pc' = 1
        /\ glob' = [l \in {data[i] : i \in DOMAIN data} |-> Zero]
        /\ run' = (IF Links THEN "running" ELSE "unlinked")
        /\ UNCHANGED <<reg, rsp, rbp, mem, zf>>
    BY DEF Link
  <1>2. /\ Words /\ rsp = 1 /\ rbp = 0 /\ mem[1] = ReturnTo(OutOfMain) /\ zf \in BOOLEAN
        /\ rsp \in 0 .. MaxStack /\ rbp \in 0 .. MaxStack
    BY <1>1 DEF MInv
  <1>3. Words'
    <2>1. \A l \in DOMAIN glob' : Word(glob'[l])
      BY <1>1, WordMade
    <2> QED BY <1>1, <1>2, <2>1 DEF Words
  <1>4. CASE Links
    <2>1. run' = "running" /\ text # <<>>
      BY <1>1, <1>4 DEF MainWritten
    <2>2. PICK h : Linked(image', glob', h)
      BY <1>1, <1>4, <2>1, ImageLinked, ImageAdjacent
    <2>3. 1 \in 1 .. Len(image') /\ h[1] = Outside
      BY <2>2 DEF Linked, Heights
    <2>4. Frames(mem, h, {}, 0)
      BY DEF Frames
    <2>5. Returns(mem, h, 0, 1)
      BY <1>2 DEF Returns
    <2>6. Running(mem, image', h, 1, 0, 1)
      BY <2>3, <2>4, <2>5 DEF Running, Top
    <2> QED BY <1>1, <1>2, <1>3, <2>1, <2>2, <2>6, StillRunning
  <1>5. CASE ~Links
    <2>1. run' = "unlinked"
      BY <1>1, <1>5
    <2> QED BY <1>1, <1>2, <1>3, <2>1 DEF MInv
  <1> QED BY <1>4, <1>5

LEMMA MInit == MachineInit => MInv
PROOF
  <1> SUFFICES ASSUME MachineInit PROVE MInv
    OBVIOUS
  <1>1. /\ reg = [r \in Registers |-> Junk] /\ rsp = 1 /\ rbp = 0 /\ glob = <<>> /\ zf = FALSE /\ run = "off"
        /\ mem = [i \in 1 .. MaxStack |-> IF i = 1 THEN ReturnTo(OutOfMain) ELSE Junk]
    BY DEF MachineInit
  <1>2. MaxStack \in Nat /\ 1 \in 1 .. MaxStack
    BY MachineAssumption
  <1>3. \A i \in 1 .. MaxStack : mem[i] = ReturnTo(OutOfMain) \/ mem[i] = Junk
    BY <1>1
  <1>4. DOMAIN glob = {}
    BY <1>1
  <1>5. Words
    BY <1>1, <1>3, <1>4, WordMade DEF Words
  <1>6. mem[1] = ReturnTo(OutOfMain) /\ zf \in BOOLEAN /\ run = "off"
    BY <1>1, <1>2
  <1>7. rsp \in 0 .. MaxStack /\ rbp \in 0 .. MaxStack /\ rsp = 1 /\ rbp = 0
    BY <1>1, <1>2
  <1> QED BY <1>5, <1>6, <1>7 DEF MInv

\* The slots that the image uses lie in its frames.
ImageFramed == Nice => Framed(image)

LEMMA ProgramKept == [Compile]_vars => UNCHANGED program
PROOF BY DEF Compile, CompileNumber, CompileSymbol, CompileNil, CompileIf, StartGlobal, FinishGlobal,
  StartLocal, FinishLocal, BeginFunction, DefineParam, EndFunction, StartBuiltin, FinishBuiltin,
  StartCall, FinishCall, EmitTask, Finish, Reject, Crash, vars

LEMMA ImageStaysFramed ==
  ASSUME CInv, SInv, ImageFramed, UNCHANGED program, UNCHANGED machine \/ Execute
  PROVE  ImageFramed'
PROOF
  <1>1. Nice' <=> Nice
    BY DEF Nice
  <1>2. CASE Link
    <2>1. image' = text \o func
      BY <1>2 DEF Link
    <2>2. func \in Seq(Instructions) /\ text \in Seq(Instructions)
      BY DEF CInv, Generated, Code, Shape
    <2>3. ASSUME Nice PROVE Framed(image')
      <3>1. Frameless(text) /\ Framed(func)
        BY <2>3 DEF SInv
      <3>2. ASSUME NEW j \in 1 .. Len(func), Touches(func[j]) PROVE func[j][2] > 0
        <4>1. func[j] \in Neutral
          <5>1. func[j] \in Instructions
            BY <2>2
          <5>2. func[j] \notin BodyCode => func[j] \in Neutral
            BY <3>2, <5>1 DEF Instructions, Touches
          <5>3. func[j] \in BodyCode => func[j] \in Neutral
            BY <3>2 DEF BodyCode, PushRax, Touches
          <5> QED BY <5>2, <5>3
        <4>2. func[j][2] \in Nat \ (0 .. SlotSize - 1)
          BY <3>2, <4>1, NeutralOps DEF Touches
        <4> QED BY <4>2 DEF SlotSize
      <3> QED BY <2>1, <2>2, <3>1, <3>2, FrameShift
    <2> QED BY <1>1, <2>3 DEF ImageFramed
  <1>3. CASE ~Link
    <2>1. image' = image
      BY <1>3 DEF machine, Execute, Push, Pop, PopRbp, EnterFrame, LeaveFrame, Reserve, SaveSlot, Store,
         LoadRegister, Compare, Jump, PassLabel, Call, Return, CallRuntime, Fault
    <2> QED BY <1>1, <2>1 DEF ImageFramed
  <1> QED BY <1>2, <1>3

AllInv == MInv /\ CInv /\ RInv /\ SInv /\ MainWritten /\ ImageFramed

LEMMA MNext == AllInv /\ [CompileAndRun]_<<vars, machine>> => AllInv'
PROOF
  <1> SUFFICES ASSUME AllInv, [CompileAndRun]_<<vars, machine>>
               PROVE  AllInv'
    OBVIOUS
  <1> USE DEF AllInv
  <1>1. ASSUME UNCHANGED machine PROVE MInv'
    <2>1. UNCHANGED <<image, pc, reg, rsp, rbp, mem, glob, zf, run>>
      BY <1>1 DEF machine
    <2> QED BY <2>1 DEF MInv, Words
  <1>2. Execute => UNCHANGED vars
    BY DEF Execute, Link, Push, Pop, PopRbp, EnterFrame, LeaveFrame, Reserve, SaveSlot, Store, LoadRegister,
       Compare, Jump, PassLabel, Call, Return, CallRuntime, Fault
  <1>3. [Compile]_vars
    BY <1>2 DEF CompileAndRun
  <1>4. CInv' /\ RInv' /\ SInv' /\ MainWritten'
    BY <1>3, CNext, RNext, SNext, MainStaysWritten
  <1>5. ASSUME Execute PROVE MInv'
    BY <1>5, LinkInv, PushInv, PopInv, PopRbpInv, EnterFrameInv, LeaveFrameInv, ReserveInv, SaveSlotInv,
       StoreInv, LoadRegisterInv, CompareInv, JumpInv, PassLabelInv, CallInv, ReturnInv, CallRuntimeInv,
       FaultInv DEF Execute
  <1>6. UNCHANGED machine \/ Execute
    BY DEF CompileAndRun
  <1>7. MInv'
    BY <1>1, <1>5, <1>6
  <1>8. ImageFramed'
    BY <1>3, <1>6, ProgramKept, ImageStaysFramed
  <1> QED BY <1>4, <1>7, <1>8

LEMMA MachineInvariant == MachineSpec => []AllInv
PROOF
  <1>1. MachineInit => AllInv
    <2> SUFFICES ASSUME MachineInit PROVE AllInv
      OBVIOUS
    <2>1. Init /\ image = <<>>
      BY DEF MachineInit
    <2>2. MainWritten
      BY <2>1 DEF Init, MainWritten
    <2>3. ImageFramed
      <3>1. \A i \in 1 .. Len(<<>>) : FALSE
        OBVIOUS
      <3> QED BY <2>1, <3>1 DEF ImageFramed, Framed
    <2> QED BY <2>1, <2>2, <2>3, MInit, CInit, RInit, SInit DEF AllInv
  <1> QED BY <1>1, MNext, PTL DEF MachineSpec

-----------------------------------------------------------------------------
(* The properties *)

\* While a program runs, rsp and rbp stay inside the stack and pc inside the program,
\* and registers and memory hold words of the known kinds.
THEOREM MachineTypes == MachineSpec => []MachineTypeOK
PROOF
  <1>1. MInv => MachineTypeOK
    <2> SUFFICES ASSUME MInv PROVE MachineTypeOK
      OBVIOUS
    <2>1. run = "running" => pc \in DOMAIN image
      <3> SUFFICES ASSUME run = "running" PROVE pc \in DOMAIN image
        OBVIOUS
      <3>1. PICK h : Linked(image, glob, h) /\ Running(mem, image, h, pc, rbp, rsp)
        BY DEF MInv
      <3> QED BY <3>1 DEF Linked, Heights, Running
    <2> QED BY <2>1 DEF MInv, Words, Word, MachineTypeOK
  <1>2. AllInv => MInv
    BY DEF AllInv
  <1> QED BY <1>1, <1>2, MachineInvariant, PTL

\* What FrameIntact says of word d.
Intact(f, d) ==
  d > 0 =>
    /\ mem[d][1] = "rbp"
    /\ mem[d][2] < d
    /\ mem[d - 1][1] = "pc"
    /\ f[mem[d][2]]

\* There is a function that satisfies the equation of FrameIntact: whether d belongs to
\* a set of words that lead only to each other.
LEMMA FrameEquation ==
  ASSUME Words
  PROVE  \A d \in 0 .. MaxStack : FrameIntact[d] = Intact(FrameIntact, d)
PROOF
  <1> DEFINE Chained(C) == \A d \in C : d > 0 =>
                 mem[d][1] = "rbp" /\ mem[d][2] < d /\ mem[d - 1][1] = "pc" /\ mem[d][2] \in C
             f == [d \in 0 .. MaxStack |-> \E C \in SUBSET (0 .. MaxStack) : Chained(C) /\ d \in C]
             G == [d \in 0 .. MaxStack |-> Intact(f, d)]
  <1>1. MaxStack \in Nat
    BY MachineAssumption
  <1>2. \A d \in 0 .. MaxStack : f[d] = \E C \in SUBSET (0 .. MaxStack) : Chained(C) /\ d \in C
    OBVIOUS
  <1>3. ASSUME NEW d \in 0 .. MaxStack, d > 0, mem[d][1] = "rbp", mem[d][2] < d
        PROVE  mem[d][2] \in 0 .. MaxStack
    <2>1. mem[d][2] \in Nat
      BY <1>1, <1>3 DEF Words, Word
    <2> QED BY <1>1, <1>3, <2>1
  <1>4. ASSUME NEW d \in 0 .. MaxStack PROVE f[d] <=> Intact(f, d)
    <2>1. ASSUME f[d] PROVE Intact(f, d)
      <3>1. PICK C \in SUBSET (0 .. MaxStack) : Chained(C) /\ d \in C
        BY <1>2, <2>1
      <3>2. ASSUME d > 0
            PROVE  mem[d][1] = "rbp" /\ mem[d][2] < d /\ mem[d - 1][1] = "pc" /\ mem[d][2] \in C
        BY <3>1, <3>2
      <3>3. ASSUME d > 0 PROVE f[mem[d][2]]
        <4>1. mem[d][2] \in 0 .. MaxStack
          BY <3>2, <3>3
        <4> QED BY <1>2, <3>1, <3>2, <3>3, <4>1
      <3> HIDE DEF f
      <3> QED BY <3>2, <3>3 DEF Intact
    <2>2. ASSUME Intact(f, d) PROVE f[d]
      <3>1. CASE d = 0
        <4>1. Chained({0}) /\ {0} \in SUBSET (0 .. MaxStack) /\ d \in {0}
          BY <1>1, <3>1
        <4> QED BY <1>2, <4>1
      <3>2. CASE d # 0
        <4>1. d > 0
          BY <1>1, <3>2
        <4>2. mem[d][1] = "rbp" /\ mem[d][2] < d /\ mem[d - 1][1] = "pc" /\ f[mem[d][2]]
          <5> HIDE DEF f
          <5> QED BY <2>2, <4>1 DEF Intact
        <4>3. mem[d][2] \in 0 .. MaxStack
          BY <1>3, <4>1, <4>2
        <4>4. PICK C \in SUBSET (0 .. MaxStack) : Chained(C) /\ mem[d][2] \in C
          BY <1>2, <4>2, <4>3
        <4>5. C \cup {d} \in SUBSET (0 .. MaxStack) /\ d \in C \cup {d}
          OBVIOUS
        <4>6. Chained(C \cup {d})
          BY <4>2, <4>4
        <4> HIDE DEF Chained
        <4> QED BY <1>2, <4>5, <4>6
      <3> QED BY <3>1, <3>2
    <2> QED BY <2>1, <2>2
  <1>5. f = G
    <2>1. \A d \in 0 .. MaxStack : f[d] \in BOOLEAN /\ Intact(f, d) \in BOOLEAN
      BY <1>2 DEF Intact
    <2>2. \A d \in 0 .. MaxStack : f[d] = Intact(f, d)
      BY <1>4, <2>1, Zenon
    <2> QED BY <2>2, Zenon
  <1>6. FrameIntact = CHOOSE g : g = [d \in 0 .. MaxStack |-> Intact(g, d)]
    BY DEF FrameIntact, Intact
  <1>7. f = [d \in 0 .. MaxStack |-> Intact(f, d)]
    BY <1>5
  <1> HIDE DEF f
  <1>8. FrameIntact = [d \in 0 .. MaxStack |-> Intact(FrameIntact, d)]
    BY <1>6, <1>7
  <1> QED BY <1>8, Zenon

LEMMA FramesIntact ==
  ASSUME Words, NEW h, NEW fs, NEW b \in 0 .. MaxStack, Frames(mem, h, fs, b)
  PROVE  FrameIntact[b]
PROOF
  <1>1. MaxStack \in Nat /\ fs \subseteq 1 .. b /\ b \in fs \cup {0}
    BY MachineAssumption DEF Frames
  <1> DEFINE Bad == {d \in fs \cup {0} : ~FrameIntact[d]}
  <1> SUFFICES ASSUME Bad # {} PROVE FALSE
    BY <1>1
  <1>2. Bad \in SUBSET Nat
    <2>1. \A d \in fs \cup {0} : d \in Nat
      BY <1>1
    <2> QED BY <2>1
  <1>3. PICK d \in Bad : \A e \in Bad : d <= e
    BY <1>2, Least
  <1>4. d \in fs \cup {0} /\ d \in 0 .. MaxStack /\ d \in Nat /\ ~FrameIntact[d]
    BY <1>1
  <1>5. ~Intact(FrameIntact, d)
    BY <1>4, FrameEquation
  <1>6. d > 0 /\ d \in fs
    BY <1>4, <1>5 DEF Intact
  <1>7. PICK c \in fs \cup {0} : c < d /\ mem[d] = SavedRbp(c) /\ Returns(mem, h, c, d - 1)
    BY <1>6 DEF Frames
  <1>8. mem[d][1] = "rbp" /\ mem[d][2] = c
    BY <1>7 DEF SavedRbp
  <1>9. mem[d - 1][1] = "pc"
    BY <1>7 DEF Returns, ReturnTo
  <1>10. FrameIntact[c]
    <2>1. c \in Nat /\ ~(d <= c)
      BY <1>1, <1>4, <1>7
    <2>2. c \notin Bad
      BY <1>3, <2>1
    <2> QED BY <2>2
  <1> QED BY <1>5, <1>7, <1>8, <1>9, <1>10 DEF Intact

\* Whatever the compiler accepts, the chain of saved frame pointers and return
\* addresses stays whole, and control comes back the way it went.
THEOREM ControlSurvives == MachineSpec => []ControlIntact
PROOF
  <1>1. MInv => ControlIntact
    <2> SUFFICES ASSUME MInv PROVE ControlIntact
      OBVIOUS
    <2>1. Words /\ rbp \in 0 .. MaxStack
      BY DEF MInv
    <2>2. ASSUME run \in {"running", "halted", "faulted"} PROVE FrameIntact[rbp]
      <3>1. CASE run = "halted"
        <4>1. rbp = 0 /\ Intact(FrameIntact, 0)
          BY <3>1 DEF MInv, Intact
        <4> QED BY <2>1, <4>1, FrameEquation
      <3>2. CASE run # "halted"
        <4>1. PICK h, fs : Here(h, fs)
          BY <2>2, <3>2, HereNow
        <4>2. Frames(mem, h, fs, rbp)
          BY <4>1 DEF Here
        <4> QED BY <2>1, <4>2, FramesIntact
      <3> QED BY <3>1, <3>2
    <2>3. run = "faulted" => Instr[1] \notin {"ret", "pop"}
      BY DEF MInv, Instr
    <2>4. run = "halted" => rsp = 0 /\ rbp = 0
      BY DEF MInv
    <2> QED BY <2>2, <2>3, <2>4 DEF ControlIntact
  <1>2. AllInv => MInv
    BY DEF AllInv
  <1> QED BY <1>1, <1>2, MachineInvariant, PTL

\* Whatever the compiler accepts, as long as functions define their variables in
\* statements of their bodies, every variable a function works with lies in its own
\* frame, between rbp and rsp.
THEOREM FramesSuffice == MachineSpec => []StackDiscipline
PROOF
  <1>1. MInv /\ ImageFramed => StackDiscipline
    <2> SUFFICES ASSUME MInv, ImageFramed, run = "running", Instr[1] \in {"saveslot", "loadslot"}, Nice
                 PROVE  Slot(Instr[2]) \in rbp + 1 .. rsp
      BY DEF StackDiscipline, Nice
    <2>1. PICK h, fs : Here(h, fs)
      BY HereNow
    <2>2. /\ pc \in 1 .. Len(image) /\ Runs(Instr, h[pc], h[pc + 1]) /\ Top(mem, h, rbp, rsp, h[pc])
          /\ h[pc] \in Nat => Frame(image, pc) \div SlotSize <= h[pc]
          /\ image \in Seq(Instructions)
      BY <2>1 DEF Here, Linked, Heights
    <2>3. Instr \in Instructions
      BY <2>2 DEF Instr
    <2>4. Instr \in Neutral
      <3>1. Instr \notin BodyCode => Instr \in Neutral
        BY <2>3 DEF Instructions
      <3>2. Instr \in BodyCode => Instr \in Neutral
        BY DEF BodyCode, PushRax
      <3> QED BY <3>1, <3>2
    <2>5. h[pc] \in Nat
      BY <2>2, <2>4 DEF Runs, Moves
    <2>6. rsp = rbp + h[pc]
      BY <2>2, <2>5, Places DEF Top
    <2>7. Instr[2] \in Nat \ (0 .. SlotSize - 1)
      BY <2>4, NeutralOps
    <2>8. Instr[2] <= Frame(image, pc) /\ Frame(image, pc) \in Nat
      <3>1. Framed(image)
        BY DEF ImageFramed
      <3>2. Instr[2] <= Frame(image, pc)
        BY <2>2, <3>1 DEF Framed, Touches, Instr
      <3>3. pc \in 1 .. Len(image) + 1
        BY <2>2
      <3> QED BY <2>2, <3>2, <3>3, FrameNat
    <2>9. Instr[2] \div SlotSize \in 1 .. h[pc]
      <3> DEFINE o == Instr[2]
                 f == Frame(image, pc)
                 a == h[pc]
      <3>1. o \in Nat /\ o >= 8 /\ f \in Nat /\ o <= f /\ a \in Nat /\ f \div 8 <= a
        BY <2>2, <2>5, <2>7, <2>8 DEF SlotSize
      <3> HIDE DEF o, f, a
      <3>2. o \div 8 \in 1 .. a
        BY <3>1
      <3> QED BY <3>2 DEF o, a, SlotSize
    <2>10. rbp \in Nat
      BY DEF MInv
    <2> QED BY <2>5, <2>6, <2>9, <2>10 DEF Slot
  <1>2. AllInv => MInv /\ ImageFramed
    BY DEF AllInv
  <1> QED BY <1>1, <1>2, MachineInvariant, PTL
=============================================================================
