---------------------------- MODULE DriverProofs ----------------------------
(***************************************************************************)
(* Proofs about the invocations of the compiler, for any files and any     *)
(* number of invocations, with every call of the file system failing or    *)
(* not.  First, what an unsuccessful compilation leaves alone, and that a  *)
(* source survives; then, what the output files hold and which temporary   *)
(* files stay behind.                                                      *)
(***************************************************************************)
EXTENDS Driver, Integers, SequenceTheorems, WellFoundedInduction, TLAPS

NamePart == STRING \cup {NoName, ".", "s", "tmp", "func", "text", "data", "rodata", "bss"}
Name == Seq(NamePart)

Typed ==
  /\ input \in Inputs \cup {<<>>}
  /\ base \in Name
  /\ opened \subseteq AllSections
  /\ next \in Nat
  /\ phase \in {"create", "append"} => next >= 1
  /\ exit \in {0, 1}

\* Until the temporary files are created nothing is touched at all.
Untouched == phase \in {"read", "parse"} => disk = before

\* A file whose name does not end like one of an assembly file is never touched.
Foreign(name) == name # <<>> /\ Last(name) # "s"
ForeignKept ==
  /\ \A n \in Inputs : Foreign(n) => n \in DOMAIN disk
  /\ SourceKept

DInv == Typed /\ Untouched /\ ErrorsKeepOutput /\ ForeignKept

-----------------------------------------------------------------------------
(* Names *)

LEMMA SectionFacts ==
  /\ Len(SectionNames) = 5
  /\ \A i \in 1 .. 5 : SectionNames[i] \in AllSections
  /\ AllSections = {"func", "text", "data", "rodata", "bss"}
PROOF
  <1>1. SectionNames \in [1 .. 5 -> {"func", "text", "data", "rodata", "bss"}] /\ Len(SectionNames) = 5
    BY DEF SectionNames
  <1>2. AllSections = {SectionNames[i] : i \in 1 .. 5}
    BY <1>1 DEF AllSections, ToSet
  <1>3. /\ SectionNames[1] = "func" /\ SectionNames[2] = "text" /\ SectionNames[3] = "data"
        /\ SectionNames[4] = "rodata" /\ SectionNames[5] = "bss"
    BY DEF SectionNames
  <1>4. 1 .. 5 = {1, 2, 3, 4, 5}
    OBVIOUS
  <1> QED BY <1>1, <1>2, <1>3, <1>4

LEMMA EndOf ==
  ASSUME NEW b \in Name, NEW t \in Name, Len(t) > 0
  PROVE  b \o t # <<>> /\ Last(b \o t) = t[Len(t)]
PROOF
  <1>1. /\ b \o t \in Name /\ Len(b \o t) = Len(b) + Len(t)
        /\ \A i \in 1 .. Len(b) + Len(t) : (b \o t)[i] = IF i <= Len(b) THEN b[i] ELSE t[i - Len(b)]
    BY ConcatProperties DEF Name
  <1>2. PICK m \in Nat, n \in Nat : m = Len(b) /\ n = Len(t)
    BY DEF Name
  <1>3. Last(b \o t) = (b \o t)[m + n]
    BY <1>1, <1>2 DEF Last
  <1>4. m + n \in 1 .. m + n /\ ~(m + n <= m) /\ (m + n) - m = n
    BY <1>2
  <1>5. (b \o t)[m + n] = t[n]
    BY <1>1, <1>2, <1>4
  <1>6. b \o t # <<>>
    <2>1. Len(b \o t) # 0
      BY <1>1, <1>2
    <2> QED BY <1>1, <2>1 DEF Name
  <1> QED BY <1>2, <1>3, <1>5, <1>6

\* The names the compiler gives all end in "s".
LEMMA GivenNames ==
  ASSUME NEW b \in Name
  PROVE  /\ ~Foreign(FinalName(b))
         /\ \A s \in NamePart : ~Foreign(TempName(b, s))
PROOF
  <1>1. ~Foreign(FinalName(b))
    <2> DEFINE t == <<".", "s">>
    <2>1. t \in Name /\ Len(t) > 0 /\ t[Len(t)] = "s"
      BY DEF Name, NamePart
    <2>2. Last(b \o t) = t[Len(t)]
      <3> HIDE DEF t
      <3> QED BY <2>1, EndOf
    <2> QED BY <2>1, <2>2 DEF FinalName, Foreign
  <1>2. ASSUME NEW s \in NamePart PROVE ~Foreign(TempName(b, s))
    <2> DEFINE t == <<".", s, ".", "tmp", ".", "s">>
    <2>2. t \in Name /\ Len(t) > 0 /\ t[Len(t)] = "s"
      BY DEF Name, NamePart
    <2>3. Last(b \o t) = t[Len(t)]
      <3> HIDE DEF t
      <3> QED BY <2>2, EndOf
    <2> QED BY <2>2, <2>3 DEF TempName, Foreign
  <1> QED BY <1>1, <1>2

\* Well-foundedness of the natural numbers, for sets.
LEMMA Least ==
  ASSUME NEW T \in SUBSET Nat, T # {}
  PROVE  \E x \in T : \A y \in T : x <= y
PROOF
  <1>1. \E x \in T : \A y \in T : ~ (<<y, x>> \in OpToRel(<, Nat))
    BY NatLessThanWellFounded, WFMin
  <1>2. \A x, y \in Nat : x < y => <<x, y>> \in OpToRel(<, Nat)
    BY DEF OpToRel
  <1>3. \A x \in T : x \in Nat
    OBVIOUS
  <1>4. \E x \in T : \A y \in T : ~ (y < x)
    BY <1>1, <1>2, <1>3, Zenon
  <1> QED BY <1>3, <1>4

LEMMA Greatest ==
  ASSUME NEW n \in Nat, NEW S \in SUBSET (1 .. n), S # {}
  PROVE  \E i \in S : \A j \in S : j <= i
PROOF
  <1> DEFINE T == {n - i : i \in S}
  <1>1. T \in SUBSET Nat /\ T # {}
    <2>1. \A i \in S : i \in 1 .. n
      OBVIOUS
    <2>2. \A i \in S : n - i \in Nat
      BY <2>1
    <2> QED BY <2>2
  <1>2. PICK x \in T : \A y \in T : x <= y
    BY <1>1, Least
  <1>3. PICK i \in S : x = n - i
    OBVIOUS
  <1>4. \A j \in S : n - i <= n - j
    BY <1>2, <1>3
  <1> QED BY <1>4

LEMMA InputName == ASSUME NEW n \in Inputs \cup {<<>>} PROVE n \in Name /\ BaseName(n) \in Name
PROOF
  <1>1. n \in Name
    <2>1. CASE n = <<>>
      BY <2>1 DEF Name
    <2>2. CASE n \in Inputs
      <3>1. n \in Seq(STRING)
        BY <2>2, DriverAssumption
      <3> QED BY <3>1 DEF Name, NamePart
    <2> QED BY <2>1, <2>2
  <1> DEFINE dots == {i \in DOMAIN n : n[i] = "."}
  <1>2. CASE dots = {}
    BY <1>1, <1>2 DEF BaseName
  <1>3. CASE dots # {}
    <2> DEFINE top == CHOOSE i \in dots : \A j \in dots : j <= i
    <2>2. top \in dots
      <3>1. dots \in SUBSET (1 .. Len(n)) /\ Len(n) \in Nat
        BY <1>1 DEF Name
      <3>2. \E i \in dots : \A j \in dots : j <= i
        BY <1>3, <3>1, Greatest
      <3> HIDE DEF dots
      <3> QED BY <3>2
    <2>1. ASSUME top \in dots PROVE BaseName(n) \in Name
      <3>1. top \in 1 .. Len(n) /\ Len(n) \in Nat
        BY <1>1, <2>1 DEF Name
      <3>2. \A i \in 1 .. top - 1 : n[i] \in NamePart
        BY <1>1, <3>1 DEF Name
      <3>3. SubSeq(n, 1, top - 1) \in Seq(NamePart)
        BY <3>1, <3>2, SubSeqProperties
      <3> QED BY <1>3, <3>3 DEF BaseName, Name
    <2> HIDE DEF top, dots
    <2> QED BY <1>1, <2>1, <2>2
  <1> QED BY <1>1, <1>2, <1>3

-----------------------------------------------------------------------------
(* What happens on the disk *)

\* Only files of these names are written or removed.
Touches(names) ==
  /\ \A n \in DOMAIN disk \ names : n \in DOMAIN disk' /\ disk'[n] = disk[n]
  /\ DOMAIN disk' \subseteq DOMAIN disk \cup names

LEMMA PutTouches ==
  ASSUME NEW name, NEW c, disk' = Put(disk, name, c)
  PROVE  Touches({name})
BY DEF Put, Touches

LEMMA UnlinkTouches ==
  ASSUME NEW names, disk' = Unlink(disk, names)
  PROVE  Touches(names)
BY DEF Unlink, Touches

LEMMA PutUnlinkTouches ==
  ASSUME NEW name, NEW c, NEW names, disk' = Unlink(Put(disk, name, c), names)
  PROVE  Touches({name} \cup names)
BY DEF Put, Unlink, Touches

Kept ==
  /\ \A n \in DOMAIN before \ Temps(base) : n \in DOMAIN disk /\ disk[n] = before[n]
  /\ DOMAIN disk \subseteq DOMAIN before \cup Temps(base)

LEMMA KeptStep ==
  ASSUME Kept, NEW names, Touches(names), names \subseteq Temps(base), UNCHANGED <<base, before>>
  PROVE  Kept'
PROOF
  <1>1. Temps(base)' = Temps(base)
    BY DEF Temps
  <1> QED BY <1>1 DEF Kept, Touches

LEMMA KeptAtFirst == ASSUME disk = before PROVE Kept
BY DEF Kept

LEMMA KeptSuffices ==
  /\ Kept => ErrorsKeepOutput
  /\ ErrorsKeepOutput /\ (phase \in {"read", "parse", "create", "generate"} \/ (phase = "idle" /\ exit = 1)) => Kept
BY DEF Kept, ErrorsKeepOutput

LEMMA ForeignStep ==
  ASSUME Typed, ForeignKept, NEW names, Touches(names), \A n \in names : ~Foreign(n), UNCHANGED <<input, before>>
  PROVE  ForeignKept'
PROOF
  <1>1. \A n \in Inputs : Foreign(n) => n \in DOMAIN disk'
    BY DEF ForeignKept, Touches
  <1>2. ASSUME Foreign(input) PROVE disk'[input] = before[input]
    <2>1. input \in Inputs
      BY <1>2 DEF Typed, Foreign
    <2>2. input \in DOMAIN disk /\ disk[input] = before[input]
      BY <1>2, <2>1 DEF ForeignKept, SourceKept, Foreign
    <2> QED BY <1>2, <2>2 DEF Touches
  <1>3. SourceKept'
    <2> SUFFICES ASSUME input # <<>>, Last(input) # "s" PROVE disk'[input] = before[input]
      BY DEF SourceKept
    <2> QED BY <1>2 DEF Foreign
  <1> QED BY <1>1, <1>3 DEF ForeignKept

LEMMA TempsGiven ==
  ASSUME base \in Name, NEW S \in SUBSET AllSections
  PROVE  /\ {TempName(base, s) : s \in S} \subseteq Temps(base)
         /\ \A n \in {TempName(base, s) : s \in S} : ~Foreign(n)
PROOF
  <1>1. AllSections \subseteq NamePart
    BY SectionFacts DEF NamePart
  <1> QED BY <1>1, GivenNames DEF Temps

\* gds_destroy touches temporary files only.
LEMMA DestroyTouches ==
  ASSUME Typed, disk' = Unlink(disk, {TempName(base, s) : s \in opened})
  PROVE  \E names : Touches(names) /\ names \subseteq Temps(base) /\ \A n \in names : ~Foreign(n)
PROOF
  <1> DEFINE names == {TempName(base, s) : s \in opened}
  <1>1. Touches(names)
    BY UnlinkTouches
  <1>2. names \subseteq Temps(base) /\ \A n \in names : ~Foreign(n)
    BY TempsGiven DEF Typed
  <1> QED BY <1>1, <1>2

-----------------------------------------------------------------------------
(* Steps *)

\* A step that leaves disk, input and before alone keeps what is foreign.
LEMMA ForeignSame ==
  ASSUME ForeignKept, UNCHANGED <<disk, input, before>>
  PROVE  ForeignKept'
BY DEF ForeignKept, SourceKept

LEMMA KeptSame ==
  ASSUME Kept, UNCHANGED <<disk, base, before>>
  PROVE  Kept' /\ ErrorsKeepOutput'
BY DEF Kept, Temps, ErrorsKeepOutput

LEMMA DInit == Init => DInv
PROOF
  <1> SUFFICES ASSUME Init PROVE DInv
    OBVIOUS
  <1>1. Typed
    <2>1. <<>> \in Name
      BY DEF Name
    <2> QED BY <2>1 DEF Init, SectionsInit, Typed
  <1>2. Untouched
    BY DEF Init, Untouched
  <1>3. ErrorsKeepOutput
    BY KeptAtFirst, KeptSuffices DEF Init
  <1>4. ForeignKept
    BY DEF Init, ForeignKept, SourceKept
  <1> QED BY <1>1, <1>2, <1>3, <1>4 DEF DInv

LEMMA DInvoke == ASSUME DInv, NEW name \in Inputs, Invoke(name) PROVE DInv'
PROOF
  <1>1. /\ phase' = "read" /\ input' = name /\ before' = disk
        /\ UNCHANGED <<disk, opened, base, next, exit>>
    BY DEF Invoke
  <1>2. Typed'
    BY <1>1 DEF DInv, Typed
  <1>3. Untouched' /\ ForeignKept'
    BY <1>1 DEF DInv, Untouched, ForeignKept, SourceKept
  <1>4. ErrorsKeepOutput'
    BY <1>1 DEF ErrorsKeepOutput
  <1> QED BY <1>2, <1>3, <1>4 DEF DInv

LEMMA DInvokeBare == DInv /\ InvokeBare => DInv'
PROOF
  <1> SUFFICES ASSUME DInv, InvokeBare PROVE DInv'
    OBVIOUS
  <1>1. /\ phase' = "idle" /\ exit' = 1 /\ input' = <<>> /\ before' = disk
        /\ UNCHANGED <<disk, opened, base, next>>
    BY DEF InvokeBare, ExitWith
  <1>2. Typed'
    BY <1>1 DEF DInv, Typed
  <1>3. Untouched' /\ ForeignKept'
    BY <1>1 DEF DInv, Untouched, ForeignKept, SourceKept
  <1>4. ErrorsKeepOutput'
    BY <1>1 DEF ErrorsKeepOutput
  <1> QED BY <1>2, <1>3, <1>4 DEF DInv

\* The steps before the first temporary file is made.
LEMMA DEarly == DInv /\ (ReadSource \/ ReadFails \/ ParseProgram \/ ParseFails) => DInv'
PROOF
  <1> SUFFICES ASSUME DInv, ReadSource \/ ReadFails \/ ParseProgram \/ ParseFails PROVE DInv'
    OBVIOUS
  <1>1. /\ phase \in {"read", "parse"} /\ UNCHANGED <<disk, input, before>>
        /\ phase' \in {"parse", "create", "idle"} /\ exit' \in {0, 1}
    BY DEF DInv, Typed, ReadSource, ReadFails, ParseProgram, ParseFails, At, Goto, ExitWith, gds
  <1>2. disk' = before'
    BY <1>1 DEF DInv, Untouched
  <1>3. base' \in Name
    <2>1. CASE ReadSource
      BY <2>1, InputName DEF ReadSource, DInv, Typed
    <2>2. CASE ~ReadSource
      BY <2>2 DEF DInv, Typed, ReadFails, ParseProgram, ParseFails, GdsCreate, gds
    <2> QED BY <2>1, <2>2
  <1>4. /\ opened' \subseteq AllSections /\ next' \in Nat
        /\ phase' \in {"create", "append"} => next' >= 1
    BY <1>1 DEF DInv, Typed, ReadSource, ReadFails, ParseProgram, ParseFails, GdsCreate, gds, At, Goto, ExitWith
  <1>5. Typed'
    BY <1>1, <1>3, <1>4 DEF DInv, Typed
  <1>6. Untouched'
    BY <1>2 DEF Untouched
  <1>7. ErrorsKeepOutput'
    BY <1>2 DEF ErrorsKeepOutput
  <1>8. ForeignKept'
    BY <1>1, ForeignSame DEF DInv
  <1> QED BY <1>5, <1>6, <1>7, <1>8 DEF DInv

LEMMA DCreateTemp == DInv /\ CreateTemp => DInv'
PROOF
  <1> SUFFICES ASSUME DInv, CreateTemp PROVE DInv'
    OBVIOUS
  <1>1. /\ phase = "create" /\ next \in Nat /\ next >= 1 /\ base \in Name
        /\ next <= Len(SectionNames)
        /\ disk' = Put(disk, TempName(base, SectionNames[next]), <<>>)
        /\ opened' = opened \cup {SectionNames[next]} /\ next' = next + 1
        /\ UNCHANGED <<phase, exit, input, before, base>>
    BY DEF DInv, Typed, CreateTemp, At, OpenTemp
  <1>2. PICK s \in AllSections : s = SectionNames[next]
    BY <1>1, SectionFacts
  <1>3. Typed'
    BY <1>1, <1>2 DEF DInv, Typed
  <1>4. /\ Touches({TempName(base, s)})
        /\ {TempName(base, s)} \subseteq Temps(base) /\ \A n \in {TempName(base, s)} : ~Foreign(n)
    <2>1. Touches({TempName(base, s)})
      BY <1>1, <1>2, PutTouches
    <2>2. {TempName(base, t) : t \in {s}} = {TempName(base, s)}
      OBVIOUS
    <2> QED BY <1>1, <1>2, <2>1, <2>2, TempsGiven
  <1>5. ForeignKept'
    BY <1>1, <1>4, ForeignStep DEF DInv
  <1>6. Kept
    BY <1>1, KeptSuffices DEF DInv
  <1>7. Kept'
    BY <1>1, <1>4, <1>6, KeptStep
  <1>8. ErrorsKeepOutput' /\ Untouched'
    BY <1>1, <1>7 DEF ErrorsKeepOutput, Kept, Untouched
  <1> QED BY <1>3, <1>5, <1>8 DEF DInv

\* Both ways gds_destroy is called.
LEMMA DDestroy == DInv /\ (CreateFails \/ OutputFails) => DInv'
PROOF
  <1> SUFFICES ASSUME DInv, CreateFails \/ OutputFails PROVE DInv'
    OBVIOUS
  <1>1. /\ phase \in {"create", "generate"} /\ phase' \in {"idle", "report"} /\ exit' \in {0, 1}
        /\ disk' = Unlink(disk, {TempName(base, s) : s \in opened}) /\ opened' = {}
        /\ UNCHANGED <<input, before, base, next>>
    BY DEF DInv, Typed, CreateFails, OutputFails, At, Goto, ExitWith, OpenTempFails, OpenFinalFails, GdsDestroy
  <1>2. Typed'
    BY <1>1 DEF DInv, Typed
  <1>3. PICK names : Touches(names) /\ names \subseteq Temps(base) /\ \A n \in names : ~Foreign(n)
    BY <1>1, DestroyTouches DEF DInv
  <1>4. ForeignKept'
    BY <1>1, <1>3, ForeignStep DEF DInv
  <1>5. Kept
    BY <1>1, KeptSuffices DEF DInv
  <1>6. Kept'
    BY <1>1, <1>3, <1>5, KeptStep
  <1>7. ErrorsKeepOutput' /\ Untouched'
    BY <1>1, <1>6 DEF ErrorsKeepOutput, Kept, Untouched
  <1> QED BY <1>2, <1>4, <1>7 DEF DInv

\* The steps of code generation, which write to open streams or exit.
LEMMA DGenerate ==
  ASSUME DInv, BeginProgram \/ (\E section \in AllSections \ {"bss"} : Generate(section)) \/ CompileError
  PROVE  DInv'
PROOF
  <1>1. /\ phase \in {"create", "generate"} /\ phase' \in {"generate", "idle"} /\ exit' \in {0, 1}
        /\ opened' \in {opened, {}}
        /\ UNCHANGED <<disk, input, before, base, next>>
    BY DEF DInv, Typed, BeginProgram, Generate, CompileError, At, Goto, ExitWith, Write
  <1>2. Typed'
    BY <1>1 DEF DInv, Typed
  <1>3. ForeignKept'
    BY <1>1, ForeignSame DEF DInv
  <1>4. Kept
    BY <1>1, KeptSuffices DEF DInv
  <1>5. ErrorsKeepOutput' /\ Untouched'
    BY <1>1, <1>4, KeptSame DEF Untouched
  <1> QED BY <1>2, <1>3, <1>5 DEF DInv

LEMMA DOpenOutput == DInv /\ OpenOutput => DInv'
PROOF
  <1> SUFFICES ASSUME DInv, OpenOutput PROVE DInv'
    OBVIOUS
  <1>1. /\ phase' = "append" /\ disk' = Put(disk, FinalName(base), <<>>) /\ next' = 1
        /\ UNCHANGED <<opened, base, exit, input, before>>
    BY DEF OpenOutput, At, Goto, OpenFinal
  <1>2. Typed'
    BY <1>1 DEF DInv, Typed
  <1>3. Touches({FinalName(base)}) /\ \A n \in {FinalName(base)} : ~Foreign(n)
    BY <1>1, PutTouches, GivenNames DEF DInv, Typed
  <1>4. ForeignKept'
    BY <1>1, <1>3, ForeignStep DEF DInv
  <1>5. ErrorsKeepOutput' /\ Untouched'
    BY <1>1 DEF ErrorsKeepOutput, Untouched
  <1> QED BY <1>2, <1>4, <1>5 DEF DInv

LEMMA PieceFacts ==
  ASSUME NEW i \in Nat, i >= 1, i <= Len(Pieces)
  PROVE  Pieces[i].name \in NamePart
PROOF
  <1>1. Len(Pieces) = 5 /\ 1 .. 5 = {1, 2, 3, 4, 5}
    BY DEF Pieces
  <1>2. i \in {1, 2, 3, 4, 5}
    BY <1>1
  <1>3. /\ Pieces[1].name = "text" /\ Pieces[2].name = NoName /\ Pieces[3].name = "rodata"
        /\ Pieces[4].name = "data" /\ Pieces[5].name = "bss"
    BY DEF Pieces, Piece
  <1> QED BY <1>2, <1>3 DEF NamePart

LEMMA DAppend == DInv /\ (AppendNext \/ SkipNext) => DInv'
PROOF
  <1> SUFFICES ASSUME DInv, AppendNext \/ SkipNext PROVE DInv'
    OBVIOUS
  <1>1. /\ phase = "append" /\ next \in Nat /\ next >= 1 /\ base \in Name /\ next <= Len(Pieces)
        /\ opened' = opened \ {Pieces[next].file} /\ next' = next + 1
        /\ UNCHANGED <<phase, exit, input, before, base>>
    BY DEF DInv, Typed, AppendNext, SkipNext, At, AppendSection, SkipSection
  <1>2. Typed'
    BY <1>1 DEF DInv, Typed
  <1>3. PICK gone : gone = TempName(base, Pieces[next].name)
    OBVIOUS
  <1>4. ~Foreign(gone) /\ ~Foreign(FinalName(base))
    BY <1>1, <1>3, GivenNames, PieceFacts
  <1>5. Touches({FinalName(base)} \cup {gone}) \/ Touches({gone})
    <2>1. CASE AppendNext
      <3>1. \E c : disk' = Unlink(Put(disk, FinalName(base), c), {gone})
        BY <1>3, <2>1 DEF AppendNext, AppendSection
      <3> QED BY <3>1, PutUnlinkTouches
    <2>2. CASE SkipNext
      <3>1. disk' = Unlink(disk, {gone})
        BY <1>3, <2>2 DEF SkipNext, SkipSection
      <3> QED BY <3>1, UnlinkTouches
    <2> QED BY <2>1, <2>2
  <1>6. ForeignKept'
    BY <1>1, <1>4, <1>5, ForeignStep DEF DInv
  <1>7. ErrorsKeepOutput' /\ Untouched'
    BY <1>1 DEF ErrorsKeepOutput, Untouched
  <1> QED BY <1>2, <1>6, <1>7 DEF DInv

LEMMA DLast == DInv /\ (CloseOutput \/ Report) => DInv'
PROOF
  <1> SUFFICES ASSUME DInv, CloseOutput \/ Report PROVE DInv'
    OBVIOUS
  <1>1. /\ (phase' = "report" /\ exit' = exit) \/ (phase' = "idle" /\ exit' = 0)
        /\ UNCHANGED <<disk, opened, base, next, input, before>>
    BY DEF CloseOutput, Report, At, Goto, ExitWith, gds
  <1>2. Typed'
    BY <1>1 DEF DInv, Typed
  <1>3. ForeignKept'
    BY <1>1, ForeignSame DEF DInv
  <1>4. ErrorsKeepOutput' /\ Untouched'
    BY <1>1 DEF ErrorsKeepOutput, Untouched
  <1> QED BY <1>2, <1>3, <1>4 DEF DInv

LEMMA DStutter == DInv /\ UNCHANGED vars => DInv'
PROOF
  <1> SUFFICES ASSUME DInv, UNCHANGED vars PROVE DInv'
    OBVIOUS
  <1>1. UNCHANGED <<disk, files, opened, base, next, faults, phase, input, run, exit, before>>
    BY DEF vars, gds
  <1>2. Typed' /\ Untouched'
    BY <1>1 DEF DInv, Typed, Untouched
  <1>3. ForeignKept'
    BY <1>1, ForeignSame DEF DInv
  <1>4. ErrorsKeepOutput'
    BY <1>1 DEF DInv, ErrorsKeepOutput, Temps
  <1> QED BY <1>2, <1>3, <1>4 DEF DInv

LEMMA DNext == DInv /\ [Next]_vars => DInv'
BY DInvoke, DInvokeBare, DEarly, DCreateTemp, DDestroy, DGenerate, DOpenOutput, DAppend, DLast, DStutter
   DEF Next

-----------------------------------------------------------------------------
(* Theorems: what is left alone *)

\* The invariant is inductive: DInit for the initial state, DNext for every step
\* of main, of gds_create and of gds_close_and_finalize.
THEOREM DriverInvariant == Spec => []DInv
BY DInit, DNext, PTL DEF Spec

\* Whatever files there are and whichever calls fail: until the code is complete,
\* and after every error, only temporary files of this compilation were touched.
THEOREM FailureKeepsOutput == Spec => []ErrorsKeepOutput
PROOF
  <1>1. DInv => ErrorsKeepOutput
    BY DEF DInv
  <1> QED BY <1>1, DriverInvariant, PTL

\* No compilation, complete or not, changes a source whose name does not end in "s".
THEOREM SourceSurvives == Spec => []SourceKept
PROOF
  <1>1. DInv => SourceKept
    BY DEF DInv, ForeignKept
  <1> QED BY <1>1, DriverInvariant, PTL

-----------------------------------------------------------------------------
(* What is written: chunks and headers *)

Item == {Chunk(s, r) : s \in AllSections, r \in Nat} \cup {Header(s) : s \in AllSections}

LEMMA ItemFacts ==
  ASSUME NEW s, NEW r
  PROVE  /\ Chunk(s, r).chunk = s /\ Chunk(s, r).of = r /\ ~IsHeader(Chunk(s, r))
         /\ Header(s).header = s /\ IsHeader(Header(s))
BY DEF Chunk, Header, IsHeader

\* The contents of a section's file in invocation r.
Stream(s, r) == Seq({Chunk(s, r)})

LEMMA StreamFacts ==
  ASSUME NEW s \in AllSections, NEW r \in Nat
  PROVE  /\ <<>> \in Stream(s, r) /\ <<Chunk(s, r)>> \in Stream(s, r)
         /\ \A c \in Stream(s, r) :
              /\ c \in Seq(Item) /\ Append(c, Chunk(s, r)) \in Stream(s, r)
              /\ \A i \in 1 .. Len(c) : c[i] = Chunk(s, r)
PROOF
  <1> DEFINE x == Chunk(s, r)
  <1>1. x \in Item
    BY DEF Item
  <1> HIDE DEF x
  <1>2. \A c \in Seq({x}) : Append(c, x) \in Seq({x}) /\ \A i \in 1 .. Len(c) : c[i] = x
    OBVIOUS
  <1>3. \A c \in Seq({x}) : c \in Seq(Item)
    BY <1>1, SeqMonotonic
  <1>4. <<x>> \in Seq({x}) /\ <<>> \in Seq({x})
    OBVIOUS
  <1> QED BY <1>2, <1>3, <1>4 DEF x, Stream

-----------------------------------------------------------------------------
(* The books main keeps: streams, loop variables, failures *)

\* The sections whose file exists before iteration k, and those not yet closed
\* before call k of append_and_cleanup_section.
Created(k) == {SectionNames[i] : i \in 1 .. k - 1}
Unclosed(k) == {Pieces[i].file : i \in k .. 5}

Finished == phase = "report" \/ (phase = "idle" /\ exit = 0 /\ run > 0)

Phases == {"idle", "read", "parse", "create", "generate", "append", "report"}

Books ==
  /\ phase \in Phases
  /\ run \in 0 .. MaxRuns
  /\ next \in 0 .. 6
  /\ files \in [AllSections -> Seq(Item)]
  /\ phase \in {"create", "generate", "append"} => \A s \in AllSections : files[s] \in Stream(s, run)

Streams ==
  /\ phase = "create" => opened = Created(next)
  /\ phase = "generate" => opened = AllSections
  /\ phase = "append" => opened = Unclosed(next)
  /\ Finished => opened = {}

Failures ==
  /\ phase \in {"read", "parse", "create", "generate"} => faults = {}
  /\ "temp" \in faults => phase = "idle" /\ exit = 1

LEMMA PiecesAre ==
  /\ Len(Pieces) = 5 /\ 1 .. 5 = {1, 2, 3, 4, 5}
  /\ Pieces[1] = Piece("text", "func", TRUE) /\ Pieces[2] = Piece(NoName, "text", FALSE)
  /\ Pieces[3] = Piece("rodata", "rodata", TRUE) /\ Pieces[4] = Piece("data", "data", TRUE)
  /\ Pieces[5] = Piece("bss", "bss", TRUE)
BY DEF Pieces

LEMMA FilesAre ==
  /\ Pieces[1].file = "func" /\ Pieces[2].file = "text" /\ Pieces[3].file = "rodata"
  /\ Pieces[4].file = "data" /\ Pieces[5].file = "bss"
BY PiecesAre DEF Piece

LEMMA CreatedFacts ==
  /\ Created(1) = {} /\ Created(6) = AllSections
  /\ \A k \in 1 .. 5 : Created(k + 1) = Created(k) \cup {SectionNames[k]}
PROOF
  <1>1. Created(1) = {}
    BY DEF Created
  <1>2. Created(6) = AllSections
    <2>1. 6 - 1 = 5
      OBVIOUS
    <2>2. AllSections = {SectionNames[i] : i \in 1 .. 5}
      <3>1. SectionNames \in [1 .. 5 -> {"func", "text", "data", "rodata", "bss"}]
        BY DEF SectionNames
      <3> QED BY <3>1 DEF AllSections, ToSet
    <2> QED BY <2>1, <2>2 DEF Created
  <1>3. ASSUME NEW k \in 1 .. 5 PROVE Created(k + 1) = Created(k) \cup {SectionNames[k]}
    <2>1. (k + 1) - 1 = k /\ 1 .. k = (1 .. k - 1) \cup {k}
      OBVIOUS
    <2> QED BY <2>1, Zenon DEF Created
  <1> QED BY <1>1, <1>2, <1>3

LEMMA UnclosedFacts ==
  /\ Unclosed(1) = AllSections /\ Unclosed(6) = {}
  /\ \A k \in 1 .. 5 : Unclosed(k) \ {Pieces[k].file} = Unclosed(k + 1)
PROOF
  <1>1. Unclosed(1) = {"func", "text", "rodata", "data", "bss"}
    BY FilesAre, PiecesAre DEF Unclosed
  <1>2. Unclosed(6) = {}
    BY DEF Unclosed
  <1>3. ASSUME NEW k \in 1 .. 5 PROVE Unclosed(k) \ {Pieces[k].file} = Unclosed(k + 1)
    <2>1. \A i, j \in 1 .. 5 : i # j => Pieces[i].file # Pieces[j].file
      BY FilesAre, PiecesAre
    <2>2. k .. 5 = ((k + 1) .. 5) \cup {k} /\ \A i \in (k + 1) .. 5 : i \in 1 .. 5 /\ i # k
      OBVIOUS
    <2>3. \A i \in (k + 1) .. 5 : Pieces[i].file # Pieces[k].file
      BY <2>1, <2>2
    <2>4. Unclosed(k) = Unclosed(k + 1) \cup {Pieces[k].file}
      BY <2>2, Zenon DEF Unclosed
    <2>5. Pieces[k].file \notin Unclosed(k + 1)
      BY <2>3 DEF Unclosed
    <2> QED BY <2>4, <2>5
  <1> QED BY <1>1, <1>2, <1>3, SectionFacts

LEMMA BInit == Init => Books /\ Streams /\ Failures
PROOF
  <1> SUFFICES ASSUME Init PROVE Books /\ Streams /\ Failures
    OBVIOUS
  <1>1. /\ phase = "idle" /\ run = 0 /\ exit = 0 /\ next = 0 /\ files = NoFiles /\ faults = {}
    BY DEF Init, SectionsInit
  <1>2. NoFiles \in [AllSections -> Seq(Item)]
    BY DEF NoFiles
  <1> QED BY <1>1, <1>2, DriverAssumption DEF Books, Streams, Failures, Finished, Phases

\* Steps that touch neither the streams' contents nor the number of the invocation.
LEMMA BooksSame ==
  ASSUME Books, UNCHANGED <<files, run>>, next' \in 0 .. 6, phase' \in Phases,
         phase' \in {"create", "generate", "append"} => phase \in {"create", "generate", "append"}
  PROVE  Books'
BY DEF Books

\* Before code is generated every stream is empty.
LEMMA NoFilesStream ==
  ASSUME NEW r \in Nat
  PROVE  /\ NoFiles \in [AllSections -> Seq(Item)]
         /\ \A s \in AllSections : NoFiles[s] \in Stream(s, r)
BY StreamFacts DEF NoFiles

LEMMA RunNat == Books => run \in Nat
BY DriverAssumption DEF Books

LEMMA BInvoke ==
  ASSUME Books, NEW name \in Inputs, Invoke(name)
  PROVE  Books' /\ Streams' /\ Failures'
PROOF
  <1>1. /\ run < MaxRuns /\ phase' = "read" /\ run' = run + 1 /\ files' = NoFiles /\ faults' = {} /\ next' = next
    BY DEF Invoke
  <1>2. Books'
    BY <1>1, NoFilesStream, DriverAssumption DEF Books, Phases
  <1> QED BY <1>1, <1>2 DEF Streams, Failures, Finished

LEMMA BInvokeBare ==
  ASSUME Books, InvokeBare
  PROVE  Books' /\ Streams' /\ Failures'
PROOF
  <1>1. /\ run < MaxRuns /\ phase' = "idle" /\ exit' = 1 /\ run' = run + 1 /\ faults' = {}
        /\ UNCHANGED <<files, next>>
    BY DEF InvokeBare, ExitWith
  <1>2. Books'
    BY <1>1, DriverAssumption DEF Books, Phases
  <1> QED BY <1>1, <1>2 DEF Streams, Failures, Finished

LEMMA BRead ==
  ASSUME Books, Failures, ReadSource \/ ReadFails \/ ParseFails
  PROVE  Books' /\ Streams' /\ Failures'
PROOF
  <1>1. /\ phase \in {"read", "parse"} /\ UNCHANGED <<files, run, next>>
        /\ \/ phase' = "parse" /\ faults' = faults
           \/ phase' = "idle" /\ exit' = 1 /\ faults' \subseteq faults \cup {"source"}
    BY DEF ReadSource, ReadFails, ParseFails, At, Goto, ExitWith, gds
  <1>2. Books'
    BY <1>1, BooksSame DEF Books, Phases
  <1> QED BY <1>1, <1>2 DEF Streams, Failures, Finished

LEMMA BParseProgram ==
  ASSUME Books, Failures, ParseProgram
  PROVE  Books' /\ Streams' /\ Failures'
PROOF
  <1>1. /\ phase = "parse" /\ phase' = "create" /\ files' = NoFiles /\ opened' = {} /\ next' = 1
        /\ UNCHANGED <<faults, run>>
    BY DEF ParseProgram, At, Goto, GdsCreate
  <1>2. Books'
    BY <1>1, NoFilesStream, RunNat DEF Books, Phases
  <1> QED BY <1>1, <1>2, CreatedFacts DEF Streams, Failures, Finished

LEMMA BCreateTemp ==
  ASSUME Books, Streams, Failures, CreateTemp, Typed
  PROVE  Books' /\ Streams' /\ Failures'
PROOF
  <1>1. /\ phase = "create" /\ next \in 1 .. 5 /\ phase' = phase /\ opened' = opened \cup {SectionNames[next]}
        /\ next' = next + 1 /\ UNCHANGED <<files, run, faults>>
    BY SectionFacts DEF CreateTemp, At, OpenTemp, Typed
  <1>2. Books'
    BY <1>1, BooksSame DEF Books
  <1>3. Streams'
    BY <1>1, CreatedFacts DEF Streams, Finished
  <1> QED BY <1>1, <1>2, <1>3 DEF Failures

LEMMA BDestroy ==
  ASSUME Books, Failures, CreateFails \/ OutputFails
  PROVE  Books' /\ Streams' /\ Failures'
PROOF
  <1>1. /\ phase \in {"create", "generate"} /\ opened' = {} /\ UNCHANGED <<files, run, next>>
        /\ \/ phase' = "idle" /\ exit' = 1
           \/ phase' = "report" /\ faults' = faults \cup {"final"}
    BY DEF CreateFails, OutputFails, At, Goto, ExitWith, OpenTempFails, OpenFinalFails, GdsDestroy
  <1>2. Books'
    BY <1>1, BooksSame DEF Books, Phases
  <1> QED BY <1>1, <1>2 DEF Streams, Failures, Finished

LEMMA BBeginProgram ==
  ASSUME Books, Streams, Failures, BeginProgram
  PROVE  Books' /\ Streams' /\ Failures'
PROOF
  <1>1. /\ phase = "create" /\ phase' = "generate" /\ next > 5
        /\ files' = [files EXCEPT !["data"] = <<Chunk("data", run)>>, !["text"] = <<Chunk("text", run)>>]
        /\ UNCHANGED <<opened, next, faults, run>>
    BY SectionFacts DEF BeginProgram, At, Goto
  <1>2. \A s \in AllSections : files'[s] \in Stream(s, run)
    <2>1. /\ <<Chunk("data", run)>> \in Stream("data", run) /\ <<Chunk("text", run)>> \in Stream("text", run)
      BY StreamFacts, SectionFacts, RunNat
    <2>2. \A s \in AllSections : files[s] \in Stream(s, run)
      BY <1>1 DEF Books
    <2>3. DOMAIN files = AllSections
      BY DEF Books
    <2> QED BY <1>1, <2>1, <2>2, <2>3
  <1>3. Books'
    <2>1. \A s \in AllSections : files'[s] \in Seq(Item)
      BY <1>2, StreamFacts, RunNat
    <2>2. files' \in [AllSections -> Seq(Item)]
      <3>1. \E f \in [AllSections -> Seq(Item)] : files = f
        BY DEF Books
      <3>2. files' = [s \in AllSections |-> files'[s]]
        BY <1>1, <3>1
      <3> QED BY <2>1, <3>2
    <2> QED BY <1>1, <1>2, <2>2 DEF Books, Phases
  <1>4. Streams'
    <2>1. next = 6
      BY <1>1 DEF Books
    <2> QED BY <1>1, <2>1, CreatedFacts DEF Streams, Finished
  <1> QED BY <1>1, <1>3, <1>4 DEF Failures

LEMMA BGenerate ==
  ASSUME Books, Streams, Failures, NEW section \in AllSections, Generate(section)
  PROVE  Books' /\ Streams' /\ Failures'
PROOF
  <1>1. /\ phase = "generate" /\ phase' = phase
        /\ files' = [files EXCEPT ![section] = Append(@, Chunk(section, run))]
        /\ UNCHANGED <<opened, next, faults, run, exit>>
    BY DEF Generate, At, Write
  <1>2. \A s \in AllSections : files[s] \in Stream(s, run)
    BY <1>1 DEF Books
  <1>3. Append(files[section], Chunk(section, run)) \in Stream(section, run)
    BY <1>2, StreamFacts, RunNat
  <1>4. DOMAIN files = AllSections
    BY DEF Books
  <1>5. \A s \in AllSections : files'[s] \in Stream(s, run)
    BY <1>1, <1>2, <1>3, <1>4
  <1>6. Books'
    <2>1. \A s \in AllSections : files'[s] \in Seq(Item)
      BY <1>5, StreamFacts, RunNat
    <2>2. files' \in [AllSections -> Seq(Item)]
      <3>1. \E f \in [AllSections -> Seq(Item)] : files = f
        BY DEF Books
      <3>2. files' = [s \in AllSections |-> files'[s]]
        BY <1>1, <3>1
      <3> QED BY <2>1, <3>2
    <2> QED BY <1>1, <1>5, <2>2 DEF Books, Phases
  <1> QED BY <1>1, <1>6 DEF Streams, Failures, Finished

LEMMA BCompileError ==
  ASSUME Books, Failures, CompileError
  PROVE  Books' /\ Streams' /\ Failures'
PROOF
  <1>1. /\ phase = "generate" /\ phase' = "idle" /\ exit' = 1 /\ UNCHANGED <<files, next, faults, run>>
    BY DEF CompileError, At, ExitWith
  <1>2. Books'
    BY <1>1, BooksSame DEF Books, Phases
  <1> QED BY <1>1, <1>2 DEF Streams, Failures, Finished

LEMMA BOpenOutput ==
  ASSUME Books, Streams, Failures, OpenOutput
  PROVE  Books' /\ Streams' /\ Failures'
PROOF
  <1>1. /\ phase = "generate" /\ phase' = "append" /\ next' = 1 /\ UNCHANGED <<files, opened, faults, run, exit>>
    BY DEF OpenOutput, At, Goto, OpenFinal
  <1>2. Books'
    BY <1>1, BooksSame DEF Books, Phases
  <1> QED BY <1>1, <1>2, UnclosedFacts DEF Streams, Failures, Finished

LEMMA BAppend ==
  ASSUME Books, Streams, Failures, Typed, AppendNext \/ SkipNext
  PROVE  Books' /\ Streams' /\ Failures'
PROOF
  <1>1. /\ phase = "append" /\ phase' = phase /\ next \in 1 .. 5 /\ next' = next + 1
        /\ opened' = opened \ {Pieces[next].file} /\ faults' \subseteq faults \cup {"copy"}
        /\ UNCHANGED <<files, run, exit>>
    BY PiecesAre DEF AppendNext, SkipNext, At, AppendSection, SkipSection, Typed
  <1>2. Books'
    BY <1>1, BooksSame DEF Books
  <1>3. Streams'
    BY <1>1, UnclosedFacts DEF Streams, Finished
  <1> QED BY <1>1, <1>2, <1>3 DEF Failures

LEMMA BLast ==
  ASSUME Books, Streams, Failures, CloseOutput \/ Report
  PROVE  Books' /\ Streams' /\ Failures'
PROOF
  <1>1. /\ UNCHANGED <<files, run, next, opened, faults>>
        /\ \/ phase = "append" /\ next > 5 /\ phase' = "report"
           \/ phase = "report" /\ phase' = "idle" /\ exit' = 0
    BY PiecesAre DEF CloseOutput, Report, At, Goto, ExitWith, gds
  <1>2. Books'
    BY <1>1, BooksSame DEF Books, Phases
  <1>3. Streams'
    <2>1. phase = "append" => opened = {}
      BY <1>1, UnclosedFacts DEF Books, Streams
    <2>2. phase = "report" => opened = {}
      BY DEF Streams, Finished
    <2> QED BY <1>1, <2>1, <2>2 DEF Streams
  <1> QED BY <1>1, <1>2, <1>3 DEF Failures

LEMMA BNext == DInv /\ Books /\ Streams /\ Failures /\ [Next]_vars => Books' /\ Streams' /\ Failures'
PROOF
  <1> SUFFICES ASSUME DInv, Books, Streams, Failures, [Next]_vars PROVE Books' /\ Streams' /\ Failures'
    OBVIOUS
  <1>1. CASE UNCHANGED vars
    BY <1>1 DEF Books, Streams, Failures, Finished, vars, gds
  <1>2. Typed
    BY DEF DInv
  <1>3. CASE Next
    BY <1>2, <1>3, BInvoke, BInvokeBare, BRead, BParseProgram, BCreateTemp, BDestroy, BBeginProgram,
       BGenerate, BCompileError, BOpenOutput, BAppend, BLast DEF Next
  <1> QED BY <1>1, <1>3

-----------------------------------------------------------------------------
(* What stays behind *)

LEMMA TempNames ==
  ASSUME NEW b \in Name, NEW s \in NamePart
  PROVE  /\ TempName(b, s) \in Name /\ Len(TempName(b, s)) = Len(b) + 6
         /\ TempName(b, s)[Len(b) + 2] = s /\ TempName(b, s)[Len(b) + 4] = "tmp"
PROOF
  <1> DEFINE t == <<".", s, ".", "tmp", ".", "s">>
  <1>1. t \in Name /\ Len(t) = 6 /\ t[2] = s /\ t[4] = "tmp"
    BY DEF Name, NamePart
  <1>2. PICK m \in Nat : m = Len(b)
    BY DEF Name
  <1> HIDE DEF t
  <1>3. /\ b \o t \in Name /\ Len(b \o t) = m + 6
        /\ \A i \in 1 .. m + 6 : (b \o t)[i] = IF i <= m THEN b[i] ELSE t[i - m]
    <2>1. /\ b \o t \in Name /\ Len(b \o t) = Len(b) + Len(t)
          /\ \A i \in 1 .. Len(b) + Len(t) : (b \o t)[i] = IF i <= Len(b) THEN b[i] ELSE t[i - Len(b)]
      BY <1>1, ConcatProperties DEF Name
    <2> QED BY <1>1, <1>2, <2>1
  <1>4. (b \o t)[m + 2] = t[2] /\ (b \o t)[m + 4] = t[4]
    <2>1. /\ m + 2 \in 1 .. m + 6 /\ ~(m + 2 <= m) /\ (m + 2) - m = 2
          /\ m + 4 \in 1 .. m + 6 /\ ~(m + 4 <= m) /\ (m + 4) - m = 4
      BY <1>2
    <2> QED BY <1>3, <2>1
  <1> QED BY <1>1, <1>2, <1>3, <1>4 DEF TempName, t

LEMMA TempDistinct ==
  ASSUME NEW b \in Name, NEW s \in NamePart
  PROVE  /\ \A t \in NamePart : TempName(b, t) = TempName(b, s) => t = s
         /\ TempName(b, s) # FinalName(b)
         /\ NamedTemporary(TempName(b, s))
PROOF
  <1>1. PICK m \in Nat : m = Len(b)
    BY DEF Name
  <1>2. \A t \in NamePart : TempName(b, t) = TempName(b, s) => t = s
    BY TempNames
  <1>3. TempName(b, s) # FinalName(b)
    <2> DEFINE t == <<".", "s">>
    <2>1. t \in Name /\ Len(t) = 2
      BY DEF Name, NamePart
    <2> HIDE DEF t
    <2>2. Len(b \o t) = m + 2
      <3>1. Len(b \o t) = Len(b) + Len(t)
        BY <2>1, ConcatProperties DEF Name
      <3> QED BY <1>1, <2>1, <3>1
    <2>3. Len(FinalName(b)) = m + 2
      BY <2>2 DEF FinalName, t
    <2>4. Len(TempName(b, s)) = m + 6
      BY <1>1, TempNames
    <2> QED BY <2>3, <2>4
  <1>4. NamedTemporary(TempName(b, s))
    <2>1. Len(TempName(b, s)) = m + 6 /\ TempName(b, s)[m + 4] = "tmp"
      BY <1>1, TempNames
    <2>2. (m + 6) - 2 = m + 4 /\ m + 6 > 2
      OBVIOUS
    <2> QED BY <2>1, <2>2 DEF NamedTemporary
  <1> QED BY <1>2, <1>3, <1>4

LEMMA SectionsNamed == AllSections \subseteq NamePart /\ NoName \in NamePart
BY SectionFacts DEF NamePart

\* Every file named like a source is there, unless its name is one of a temporary file.
InputsThere == \A n \in Inputs : NamedTemporary(n) \/ n \in DOMAIN disk

\* The temporary files on the disk that were not there before, as the work goes on.
Leftovers ==
  /\ phase \in {"create", "generate"} =>
       DOMAIN disk \subseteq DOMAIN before \cup {TempName(base, s) : s \in opened}
  /\ phase = "idle" /\ "temp" \in faults => DOMAIN disk \subseteq DOMAIN before
  /\ phase = "append" => \A i \in 1 .. next - 1 : TempName(base, Pieces[i].name) \notin DOMAIN disk
  /\ Finished => \A s \in AllSections \ {"func"} : TempName(base, s) \notin DOMAIN disk

LEMMA LeftoversInit == Init => InputsThere /\ Leftovers
PROOF
  <1> SUFFICES ASSUME Init PROVE InputsThere /\ Leftovers
    OBVIOUS
  <1> QED BY DEF Init, SectionsInit, InputsThere, Leftovers, Finished

\* Only temporary files are ever removed.
LEMMA InputsStep ==
  ASSUME InputsThere, NEW gone, DOMAIN disk \ gone \subseteq DOMAIN disk', \A n \in gone : NamedTemporary(n)
  PROVE  InputsThere'
BY DEF InputsThere

\* Invocations begin, and read and parse, with nothing touched.
LEMMA LEarly ==
  ASSUME DInv, InputsThere, Failures,
         (\E name \in Inputs : Invoke(name)) \/ InvokeBare \/ ReadSource \/ ReadFails \/ ParseProgram \/ ParseFails
  PROVE  InputsThere' /\ Leftovers'
PROOF
  <1>1. disk' = disk
    BY DEF Invoke, InvokeBare, ReadSource, ReadFails, ParseProgram, ParseFails, gds
  <1>2. CASE (\E name \in Inputs : Invoke(name)) \/ InvokeBare
    <2>1. before' = disk /\ (phase' = "read" \/ (phase' = "idle" /\ exit' = 1))
      BY <1>2 DEF Invoke, InvokeBare, ExitWith
    <2> QED BY <1>1, <2>1 DEF InputsThere, Leftovers, Finished
  <1>3. CASE ReadSource \/ ReadFails \/ ParseProgram \/ ParseFails
    <2>1. /\ disk' = before' /\ phase' \in {"parse", "create", "idle"} /\ (phase' = "idle" => exit' = 1)
      BY <1>3 DEF DInv, Untouched, ReadSource, ReadFails, ParseProgram, ParseFails, At, Goto, ExitWith, gds
    <2> QED BY <1>1, <2>1 DEF InputsThere, Leftovers, Finished
  <1> QED BY <1>2, <1>3

LEMMA LCreateTemp ==
  ASSUME Typed, InputsThere, Leftovers, CreateTemp
  PROVE  InputsThere' /\ Leftovers'
PROOF
  <1>1. /\ phase = "create" /\ phase' = phase
        /\ disk' = Put(disk, TempName(base, SectionNames[next]), <<>>)
        /\ opened' = opened \cup {SectionNames[next]} /\ UNCHANGED <<base, before>>
    BY DEF CreateTemp, At, OpenTemp
  <1>2. DOMAIN disk' = DOMAIN disk \cup {TempName(base, SectionNames[next])}
    BY <1>1 DEF Put
  <1>3. DOMAIN disk' \subseteq DOMAIN before \cup {TempName(base, s) : s \in opened'}
    BY <1>1, <1>2 DEF Leftovers
  <1> QED BY <1>1, <1>2, <1>3 DEF InputsThere, Leftovers, Finished

LEMMA LDestroy ==
  ASSUME Typed, InputsThere, Streams, Failures, Leftovers, CreateFails \/ OutputFails
  PROVE  InputsThere' /\ Leftovers'
PROOF
  <1> DEFINE gone == {TempName(base, s) : s \in opened}
  <1>1. /\ disk' = Unlink(disk, gone) /\ UNCHANGED <<base, before>>
        /\ \/ phase = "create" /\ phase' = "idle" /\ exit' = 1
           \/ phase = "generate" /\ phase' = "report" /\ opened = AllSections
    BY DEF CreateFails, OutputFails, At, Goto, ExitWith, OpenTempFails, OpenFinalFails, GdsDestroy, Streams
  <1>2. DOMAIN disk' = DOMAIN disk \ gone
    BY <1>1 DEF Unlink
  <1>3. InputsThere'
    <2>1. \A n \in gone : NamedTemporary(n)
      BY TempDistinct, SectionsNamed DEF Typed
    <2> QED BY <1>2, <2>1, InputsStep
  <1>4. CASE phase = "create"
    BY <1>1, <1>2, <1>3, <1>4 DEF Leftovers, Finished
  <1>5. CASE phase = "generate"
    BY <1>1, <1>2, <1>3, <1>5 DEF Leftovers, Finished
  <1> QED BY <1>1, <1>4, <1>5

LEMMA LGenerate ==
  ASSUME InputsThere, Leftovers, Streams, Failures,
         BeginProgram \/ (\E section \in AllSections \ {"bss"} : Generate(section)) \/ CompileError
  PROVE  InputsThere' /\ Leftovers'
PROOF
  <1>1. /\ phase \in {"create", "generate"} /\ UNCHANGED <<disk, base, before, faults>>
        /\ (phase' = "generate" /\ opened' = opened) \/ (phase' = "idle" /\ exit' = 1)
    BY DEF BeginProgram, Generate, CompileError, At, Goto, ExitWith, Write
  <1>2. faults = {}
    BY <1>1 DEF Failures
  <1> QED BY <1>1, <1>2 DEF InputsThere, Leftovers, Finished

LEMMA LOpenOutput ==
  ASSUME InputsThere, OpenOutput
  PROVE  InputsThere' /\ Leftovers'
PROOF
  <1>1. phase' = "append" /\ disk' = Put(disk, FinalName(base), <<>>) /\ next' = 1
    BY DEF OpenOutput, At, Goto, OpenFinal
  <1>2. DOMAIN disk \subseteq DOMAIN disk'
    BY <1>1 DEF Put
  <1> QED BY <1>1, <1>2 DEF InputsThere, Leftovers, Finished

\* Each call of append_and_cleanup_section removes its file and creates none.
LEMMA LAppend ==
  ASSUME Typed, Books, InputsThere, Leftovers, AppendNext \/ SkipNext
  PROVE  InputsThere' /\ Leftovers'
PROOF
  <1> DEFINE name == Pieces[next].name
             gone == TempName(base, name)
  <1>1. /\ phase = "append" /\ phase' = phase /\ next \in 1 .. 5 /\ next' = next + 1
        /\ UNCHANGED <<base, before>>
    BY PiecesAre DEF AppendNext, SkipNext, At, AppendSection, SkipSection, Typed
  <1>2. /\ DOMAIN disk' \subseteq (DOMAIN disk \cup {FinalName(base)}) \ {gone}
        /\ DOMAIN disk \ {gone} \subseteq DOMAIN disk'
    <2>1. CASE AppendNext
      <3>1. \E c : disk' = Unlink(Put(disk, FinalName(base), c), {gone})
        BY <2>1 DEF AppendNext, AppendSection
      <3> HIDE DEF gone
      <3> QED BY <3>1 DEF Unlink, Put
    <2>2. CASE SkipNext
      <3>1. disk' = Unlink(disk, {gone})
        BY <2>2 DEF SkipNext, SkipSection
      <3> HIDE DEF gone
      <3> QED BY <3>1 DEF Unlink
    <2> QED BY <2>1, <2>2
  <1>3. \A i \in 1 .. 5 : Pieces[i].name \in NamePart
    BY PieceFacts, PiecesAre
  <1>4. InputsThere'
    <2>1. NamedTemporary(gone)
      BY <1>1, <1>3, TempDistinct DEF Typed
    <2> HIDE DEF gone
    <2> QED BY <1>2, <2>1, InputsStep
  <1>5. ASSUME NEW i \in 1 .. next PROVE TempName(base, Pieces[i].name) \notin DOMAIN disk'
    <2>1. TempName(base, Pieces[i].name) # FinalName(base)
      BY <1>1, <1>3, TempDistinct DEF Typed
    <2>2. CASE i = next
      BY <1>2, <2>2
    <2>3. CASE i # next
      <3>1. i \in 1 .. next - 1
        BY <1>1, <2>3
      <3> QED BY <1>1, <1>2, <2>1, <3>1 DEF Leftovers
    <2> QED BY <2>2, <2>3
  <1>6. next' - 1 = next
    BY <1>1
  <1> QED BY <1>1, <1>4, <1>5, <1>6 DEF Leftovers, Finished

LEMMA LLast ==
  ASSUME Books, Failures, InputsThere, Leftovers, CloseOutput \/ Report
  PROVE  InputsThere' /\ Leftovers'
PROOF
  <1>1. UNCHANGED <<disk, base, before, faults>>
    BY DEF CloseOutput, Report, At, gds
  <1>2. CASE CloseOutput
    <2>1. phase = "append" /\ next = 6 /\ phase' = "report"
      BY <1>2, PiecesAre DEF CloseOutput, At, Goto, Books
    <2>2. \A i \in 1 .. 5 : TempName(base, Pieces[i].name) \notin DOMAIN disk
      BY <2>1 DEF Leftovers
    <2>3. \A s \in AllSections \ {"func"} : \E i \in 1 .. 5 : Pieces[i].name = s
      <3>1. /\ Pieces[1].name = "text" /\ Pieces[3].name = "rodata" /\ Pieces[4].name = "data"
            /\ Pieces[5].name = "bss"
        BY PiecesAre DEF Piece
      <3> QED BY <3>1, SectionFacts
    <2> QED BY <1>1, <2>1, <2>2, <2>3 DEF InputsThere, Leftovers, Finished
  <1>3. CASE Report
    <2>1. phase = "report" /\ phase' = "idle" /\ exit' = 0
      BY <1>3 DEF Report, At, ExitWith
    <2> QED BY <1>1, <2>1 DEF InputsThere, Leftovers, Finished, Failures
  <1> QED BY <1>2, <1>3

LEMMA LNext ==
  DInv /\ Books /\ Streams /\ Failures /\ InputsThere /\ Leftovers /\ [Next]_vars => InputsThere' /\ Leftovers'
PROOF
  <1> SUFFICES ASSUME DInv, Books, Streams, Failures, InputsThere, Leftovers, [Next]_vars
               PROVE  InputsThere' /\ Leftovers'
    OBVIOUS
  <1>1. CASE UNCHANGED vars
    BY <1>1 DEF InputsThere, Leftovers, Finished, vars, gds
  <1>2. Typed
    BY DEF DInv
  <1>3. CASE Next
    BY <1>2, <1>3, LEarly, LCreateTemp, LDestroy, LGenerate, LOpenOutput, LAppend, LLast DEF Next
  <1> QED BY <1>1, <1>3

-----------------------------------------------------------------------------
(* How an output file is laid out *)

LEMMA SectionAtSame ==
  ASSUME NEW c, NEW d, NEW i \in Nat, NEW k \in Nat,
         \A j : (j \in 1 .. i /\ IsHeader(c[j])) <=> (j \in 1 .. k /\ IsHeader(d[j])),
         \A j \in 1 .. i : IsHeader(c[j]) => c[j] = d[j]
  PROVE  SectionAt(c, i) = SectionAt(d, k)
PROOF
  <1> DEFINE H == {j \in 1 .. i : IsHeader(c[j])}
             top == CHOOSE j \in H : \A m \in H : m <= j
  <1>1. H = {j \in 1 .. k : IsHeader(d[j])}
    OBVIOUS
  <1>2. CASE H = {}
    <2>1. SectionAt(c, i) = "text"
      BY <1>2 DEF SectionAt
    <2>2. {j \in 1 .. k : IsHeader(d[j])} = {}
      BY <1>1, <1>2
    <2> QED BY <2>1, <2>2 DEF SectionAt
  <1>3. CASE H # {}
    <2>1. \E j \in H : \A m \in H : m <= j
      BY <1>3, Greatest
    <2>2. top \in H
      BY <2>1
    <2>3. SectionAt(c, i) = c[top].header
      BY <1>3 DEF SectionAt
    <2>4. SectionAt(d, k) = d[top].header
      <3> DEFINE G == {j \in 1 .. k : IsHeader(d[j])}
      <3>1. G # {} /\ (CHOOSE j \in G : \A m \in G : m <= j) = top
        BY <1>1, <1>3
      <3> QED BY <3>1 DEF SectionAt
    <2> HIDE DEF top
    <2> QED BY <2>2, <2>3, <2>4
  <1> QED BY <1>2, <1>3

LEMMA SectionAtHeader ==
  ASSUME NEW c, NEW i \in Nat, i >= 1, IsHeader(c[i])
  PROVE  SectionAt(c, i) = c[i].header
PROOF
  <1> DEFINE H == {j \in 1 .. i : IsHeader(c[j])}
             top == CHOOSE j \in H : \A m \in H : m <= j
  <1>1. i \in H /\ H \in SUBSET (1 .. i)
    OBVIOUS
  <1>2. \E j \in H : \A m \in H : m <= j
    BY <1>1, Greatest
  <1>3. top \in H /\ \A m \in H : m <= top
    BY <1>2
  <1>4. SectionAt(c, i) = c[top].header
    BY <1>1 DEF SectionAt
  <1> HIDE DEF top
  <1>5. top = i
    BY <1>1, <1>3
  <1> QED BY <1>4, <1>5

\* Where the code of each temporary file belongs.
Home(s) == IF s \in {"func", "text"} THEN "text" ELSE s

\* A file with chunks of invocation r only, each in its section.
Laid(c, r) ==
  /\ c \in Seq(Item)
  /\ \A i \in 1 .. Len(c) : ~IsHeader(c[i]) => c[i].of = r /\ SectionAt(c, i) = Home(c[i].chunk)

\* The section in force at the end of a file.
Ending(c) == SectionAt(c, Len(c))

LEMMA LaidEmpty == \A r : Laid(<<>>, r) /\ Ending(<<>>) = "text"
PROOF
  <1>1. <<>> \in Seq(Item) /\ Len(<<>>) = 0
    OBVIOUS
  <1>2. {j \in 1 .. 0 : IsHeader(<<>>[j])} = {}
    OBVIOUS
  <1>3. SectionAt(<<>>, 0) = "text"
    BY <1>2 DEF SectionAt
  <1> QED BY <1>1, <1>3 DEF Laid, Ending

LEMMA LayChunks ==
  ASSUME NEW r \in Nat, NEW c, Laid(c, r), NEW s \in AllSections, NEW t \in Stream(s, r),
         t = <<>> \/ Ending(c) = Home(s)
  PROVE  Laid(c \o t, r) /\ Ending(c \o t) = Ending(c)
PROOF
  <1> DEFINE d == c \o t
  <1>1. c \in Seq(Item) /\ t \in Seq(Item) /\ \A i \in 1 .. Len(t) : t[i] = Chunk(s, r)
    BY StreamFacts DEF Laid
  <1>2. PICK m \in Nat, n \in Nat : m = Len(c) /\ n = Len(t)
    BY <1>1
  <1>3. d \in Seq(Item) /\ Len(d) = m + n /\ \A i \in 1 .. m + n : d[i] = IF i <= m THEN c[i] ELSE t[i - m]
    <2>1. /\ d \in Seq(Item) /\ Len(d) = Len(c) + Len(t)
          /\ \A i \in 1 .. Len(c) + Len(t) : d[i] = IF i <= Len(c) THEN c[i] ELSE t[i - Len(c)]
      BY <1>1, ConcatProperties
    <2> QED BY <1>2, <2>1
  <1> HIDE DEF d
  <1>4. \A i \in 1 .. m : d[i] = c[i]
    BY <1>3
  <1>5. \A i \in m + 1 .. m + n : d[i] = Chunk(s, r)
    <2> TAKE i \in m + 1 .. m + n
    <2>1. i - m \in 1 .. n /\ i \in 1 .. m + n /\ ~(i <= m)
      OBVIOUS
    <2> QED BY <1>1, <1>2, <1>3, <2>1
  <1>6. ASSUME NEW i \in 0 .. m PROVE SectionAt(d, i) = SectionAt(c, i)
    <2>1. \A j \in 1 .. i : j \in 1 .. m
      OBVIOUS
    <2>2. \A j \in 1 .. i : d[j] = c[j]
      BY <1>4, <2>1
    <2> QED BY <2>2, SectionAtSame
  <1>7. ASSUME NEW i \in m .. m + n PROVE SectionAt(d, i) = SectionAt(c, m)
    <2>1. \A j \in 1 .. i : j \notin 1 .. m => j \in m + 1 .. m + n
      OBVIOUS
    <2>2. ~IsHeader(Chunk(s, r))
      BY ItemFacts
    <2>3. \A j \in 1 .. i : IsHeader(d[j]) => j \in 1 .. m
      BY <1>5, <2>1, <2>2
    <2>4. \A j \in 1 .. m : j \in 1 .. i
      OBVIOUS
    <2>5. \A j : (j \in 1 .. i /\ IsHeader(d[j])) <=> (j \in 1 .. m /\ IsHeader(c[j]))
      BY <1>4, <2>3, <2>4
    <2>6. \A j \in 1 .. i : IsHeader(d[j]) => d[j] = c[j]
      BY <1>4, <2>3
    <2>7. i \in Nat
      OBVIOUS
    <2> QED BY <2>5, <2>6, <2>7, SectionAtSame
  <1>8. Ending(d) = Ending(c)
    <2>1. m + n \in m .. m + n
      BY <1>2
    <2> QED BY <1>2, <1>3, <1>7, <2>1 DEF Ending
  <1>9. ASSUME NEW i \in 1 .. m + n, ~IsHeader(d[i])
        PROVE  d[i].of = r /\ SectionAt(d, i) = Home(d[i].chunk)
    <2>1. CASE i \in 1 .. m
      BY <1>2, <1>4, <1>6, <1>9, <2>1 DEF Laid
    <2>2. CASE i \notin 1 .. m
      <3>1. i \in m + 1 .. m + n /\ i \in m .. m + n /\ n # 0
        BY <2>2
      <3>2. d[i] = Chunk(s, r) /\ SectionAt(d, i) = Ending(c)
        BY <1>2, <1>5, <1>7, <3>1 DEF Ending
      <3>3. Ending(c) = Home(s)
        BY <1>2, <3>1
      <3> QED BY <3>2, <3>3, ItemFacts
    <2> QED BY <2>1, <2>2
  <1>10. Laid(d, r)
    BY <1>3, <1>9 DEF Laid
  <1> QED BY <1>8, <1>10 DEF d

LEMMA LayHeader ==
  ASSUME NEW r \in Nat, NEW c, Laid(c, r), NEW s \in AllSections
  PROVE  Laid(c \o <<Header(s)>>, r) /\ Ending(c \o <<Header(s)>>) = s
PROOF
  <1> DEFINE h == Header(s)
             d == c \o <<h>>
  <1>1. c \in Seq(Item) /\ h \in Item /\ IsHeader(h) /\ h.header = s
    BY ItemFacts DEF Laid, Item
  <1> HIDE DEF h
  <1>2. PICK m \in Nat : m = Len(c)
    BY <1>1
  <1>3. d \in Seq(Item) /\ Len(d) = m + 1 /\ (\A i \in 1 .. m : d[i] = c[i]) /\ d[m + 1] = h
    <2>1. d = Append(c, h)
      BY <1>1, AppendIsConcat
    <2> HIDE DEF d
    <2> QED BY <1>1, <1>2, <2>1, AppendProperties
  <1> HIDE DEF d
  <1>4. Ending(d) = s
    <2>1. m + 1 \in Nat /\ m + 1 >= 1 /\ IsHeader(d[m + 1])
      BY <1>1, <1>3
    <2>2. SectionAt(d, m + 1) = d[m + 1].header
      BY <2>1, SectionAtHeader
    <2> QED BY <1>1, <1>3, <2>2 DEF Ending
  <1>5. ASSUME NEW i \in 0 .. m PROVE SectionAt(d, i) = SectionAt(c, i)
    <2>1. \A j \in 1 .. i : j \in 1 .. m
      OBVIOUS
    <2>2. \A j \in 1 .. i : d[j] = c[j]
      BY <1>3, <2>1
    <2> QED BY <2>2, SectionAtSame
  <1>6. ASSUME NEW i \in 1 .. m + 1, ~IsHeader(d[i])
        PROVE  d[i].of = r /\ SectionAt(d, i) = Home(d[i].chunk)
    <2>1. i \in 1 .. m
      BY <1>1, <1>3, <1>6
    <2> QED BY <1>2, <1>3, <1>5, <1>6, <2>1 DEF Laid
  <1>7. Laid(d, r)
    BY <1>3, <1>6 DEF Laid
  <1> QED BY <1>4, <1>7 DEF d, h

\* What append_and_cleanup_section puts before a section.
HeaderOf(k, f) == IF Pieces[k].header /\ f # <<>> THEN <<Header(Pieces[k].name)>> ELSE <<>>

LEMMA LayPiece ==
  ASSUME NEW r \in Nat, NEW c, Laid(c, r), NEW k \in 1 .. 5, k <= 2 => Ending(c) = "text",
         NEW f \in Stream(Pieces[k].file, r), NEW n \in 0 .. Len(f)
  PROVE  /\ Laid(c \o HeaderOf(k, f) \o SubSeq(f, 1, n), r)
         /\ k = 1 => Ending(c \o HeaderOf(k, f) \o SubSeq(f, 1, n)) = "text"
PROOF
  <1> DEFINE s == Pieces[k].file
             g == SubSeq(f, 1, n)
             e == c \o HeaderOf(k, f)
  <1>1. s \in AllSections
    BY FilesAre, PiecesAre, SectionFacts
  <1>2. g \in Stream(s, r) /\ (f = <<>> => g = <<>>)
    <2>1. f \in Seq({Chunk(s, r)})
      BY DEF Stream
    <2>2. \A i \in 1 .. n : f[i] \in {Chunk(s, r)}
      <3>1. \A i \in 1 .. n : i \in 1 .. Len(f)
        BY <2>1
      <3> QED BY <2>1, <3>1, ElementOfSeq
    <2>3. SubSeq(f, 1, n) \in Seq({Chunk(s, r)})
      <3>1. 1 \in Int /\ n \in Int
        BY <2>1
      <3> QED BY <2>2, <3>1, SubSeqProperties
    <2>4. f = <<>> => g = <<>>
      <3> SUFFICES ASSUME f = <<>> PROVE g = <<>>
        OBVIOUS
      <3>1. n = 0
        OBVIOUS
      <3> QED BY <3>1, SubSeqEmpty
    <2> QED BY <2>3, <2>4 DEF Stream
  <1>3. Laid(e, r) /\ (f = <<>> \/ Ending(e) = Home(s)) /\ (k = 1 => Ending(e) = "text")
    <2>1. CASE Pieces[k].header /\ f # <<>>
      <3>1. /\ k # 2 /\ Pieces[k].name \in AllSections /\ Home(s) = Pieces[k].name
            /\ k = 1 => Pieces[k].name = "text"
        BY <2>1, PiecesAre, SectionFacts DEF Piece, Home
      <3>2. e = c \o <<Header(Pieces[k].name)>>
        BY <2>1 DEF HeaderOf
      <3> HIDE DEF e, s
      <3> QED BY <3>1, <3>2, LayHeader
    <2>2. CASE ~(Pieces[k].header /\ f # <<>>)
      <3>1. f = <<>> \/ k = 2
        BY <2>2, PiecesAre DEF Piece
      <3>2. e = c
        <4>1. HeaderOf(k, f) = <<>>
          BY <2>2 DEF HeaderOf
        <4>2. c \in Seq(Item)
          BY DEF Laid
        <4> QED BY <4>1, <4>2, ConcatEmptySeq
      <3>3. k = 2 => Home(s) = "text"
        BY FilesAre DEF Home
      <3> HIDE DEF e, s
      <3> QED BY <3>1, <3>2, <3>3
    <2> QED BY <2>1, <2>2
  <1>4. g = <<>> \/ Ending(e) = Home(s)
    BY <1>2, <1>3
  <1> HIDE DEF e, g, s
  <1>5. Laid(e \o g, r) /\ Ending(e \o g) = Ending(e)
    BY <1>1, <1>2, <1>3, <1>4, LayChunks
  <1> QED BY <1>3, <1>5 DEF e, g

-----------------------------------------------------------------------------
(* What the output holds as it grows *)

\* What call k of append_and_cleanup_section contributes when nothing fails, and
\* what the calls before call k have written by then.
Part(k) ==
  IF Pieces[k].header THEN WithHeader(Pieces[k].name, files[Pieces[k].file]) ELSE files[Pieces[k].file]

Assembled(k) ==
  IF k = 1 THEN <<>>
  ELSE IF k = 2 THEN Part(1)
  ELSE IF k = 3 THEN Part(1) \o Part(2)
  ELSE IF k = 4 THEN Part(1) \o Part(2) \o Part(3)
  ELSE IF k = 5 THEN Part(1) \o Part(2) \o Part(3) \o Part(4)
  ELSE Part(1) \o Part(2) \o Part(3) \o Part(4) \o Part(5)

\* Every file is a source or laid out well; the output has what it should have so far.
AllPlaced == \A n \in DOMAIN disk : disk[n] = Source \/ \E r \in Nat : Laid(disk[n], r)

Growing ==
  phase = "append" =>
    /\ Output \in DOMAIN disk
    /\ Laid(disk[Output], run)
    /\ next <= 2 => Ending(disk[Output]) = "text"
    /\ faults = {} => disk[Output] = Assembled(next)

Complete == Finished /\ faults = {} => disk[Output] = Assembled(6)

Contents == AllPlaced /\ Growing /\ Complete

LEMMA PartTypes ==
  ASSUME Books
  PROVE  \A k \in 1 .. 5 : Part(k) \in Seq(Item)
PROOF
  <1> TAKE k \in 1 .. 5
  <1>1. files[Pieces[k].file] \in Seq(Item)
    BY FilesAre, PiecesAre, SectionFacts DEF Books
  <1>2. CASE Pieces[k].header
    <2> DEFINE c == files[Pieces[k].file]
               h == Header(Pieces[k].name)
    <2>1. Pieces[k].name \in AllSections
      BY <1>2, PiecesAre, SectionFacts DEF Piece
    <2>2. h \in Item
      BY <2>1 DEF Item
    <2>3. <<h>> \in Seq(Item)
      <3> HIDE DEF h
      <3> QED BY <2>2
    <2>4. <<h>> \o c \in Seq(Item)
      <3> HIDE DEF h, c
      <3> QED BY <1>1, <2>3, ConcatProperties DEF c
    <2> QED BY <1>2, <2>4 DEF Part, WithHeader
  <1>3. CASE ~Pieces[k].header
    BY <1>1, <1>3 DEF Part
  <1> QED BY <1>2, <1>3

LEMMA AssembledStep ==
  ASSUME Books
  PROVE  /\ Assembled(1) = <<>>
         /\ \A k \in 1 .. 5 : Assembled(k) \in Seq(Item) /\ Assembled(k + 1) = Assembled(k) \o Part(k)
PROOF
  <1>1. \A k \in 1 .. 5 : Part(k) \in Seq(Item)
    BY PartTypes
  <1>2. /\ Part(1) \in Seq(Item) /\ Part(2) \in Seq(Item) /\ Part(3) \in Seq(Item) /\ Part(4) \in Seq(Item)
        /\ Part(5) \in Seq(Item)
    BY <1>1
  <1> HIDE DEF Part
  <1>3. Part(1) \o Part(2) \in Seq(Item)
    BY <1>2, ConcatProperties
  <1>4. Part(1) \o Part(2) \o Part(3) \in Seq(Item)
    BY <1>2, <1>3, ConcatProperties
  <1>5. Part(1) \o Part(2) \o Part(3) \o Part(4) \in Seq(Item)
    BY <1>2, <1>4, ConcatProperties
  <1>6. Assembled(2) = Assembled(1) \o Part(1) /\ Assembled(1) \in Seq(Item)
    <2>1. <<>> \o Part(1) = Part(1)
      BY <1>2, ConcatEmptySeq
    <2>2. <<>> \in Seq(Item)
      OBVIOUS
    <2> QED BY <2>1, <2>2 DEF Assembled
  <1>7. Assembled(3) = Assembled(2) \o Part(2) /\ Assembled(2) \in Seq(Item)
    BY <1>2 DEF Assembled
  <1>8. Assembled(4) = Assembled(3) \o Part(3) /\ Assembled(3) \in Seq(Item)
    BY <1>3 DEF Assembled
  <1>9. Assembled(5) = Assembled(4) \o Part(4) /\ Assembled(4) \in Seq(Item)
    BY <1>4 DEF Assembled
  <1>10. Assembled(6) = Assembled(5) \o Part(5) /\ Assembled(5) \in Seq(Item)
    BY <1>5 DEF Assembled
  <1>11. Assembled(1) = <<>>
    BY DEF Assembled
  <1> HIDE DEF Assembled
  <1>12. ASSUME NEW k \in 1 .. 5 PROVE Assembled(k) \in Seq(Item) /\ Assembled(k + 1) = Assembled(k) \o Part(k)
    <2>1. k = 1 \/ k = 2 \/ k = 3 \/ k = 4 \/ k = 5
      OBVIOUS
    <2>2. 1 + 1 = 2 /\ 2 + 1 = 3 /\ 3 + 1 = 4 /\ 4 + 1 = 5 /\ 5 + 1 = 6
      OBVIOUS
    <2> QED BY <1>6, <1>7, <1>8, <1>9, <1>10, <2>1, <2>2
  <1> QED BY <1>11, <1>12

\* A section copied whole is its part of the output.
LEMMA WholePiece ==
  ASSUME Books, NEW k \in 1 .. 5, NEW c \in Seq(Item)
  PROVE  c \o HeaderOf(k, files[Pieces[k].file])
           \o SubSeq(files[Pieces[k].file], 1, Len(files[Pieces[k].file])) = c \o Part(k)
PROOF
  <1> DEFINE f == files[Pieces[k].file]
             h == HeaderOf(k, f)
  <1>1. f \in Seq(Item)
    BY FilesAre, PiecesAre, SectionFacts DEF Books
  <1>2. SubSeq(f, 1, Len(f)) = f
    BY <1>1, SubSeqFull
  <1>3. h \in Seq(Item) /\ h \o f = Part(k)
    <2>1. CASE ~Pieces[k].header \/ f = <<>>
      <3>1. h = <<>> /\ Part(k) = f
        BY <2>1 DEF HeaderOf, Part, WithHeader
      <3> HIDE DEF h, f
      <3> QED BY <1>1, <3>1, ConcatEmptySeq
    <2>2. CASE Pieces[k].header /\ f # <<>>
      <3> DEFINE x == Header(Pieces[k].name)
      <3>1. Pieces[k].name \in AllSections
        BY <2>2, PiecesAre, SectionFacts DEF Piece
      <3>2. x \in Item
        BY <3>1 DEF Item
      <3>3. h = <<x>> /\ Part(k) = <<x>> \o f
        BY <2>2 DEF HeaderOf, Part, WithHeader
      <3> HIDE DEF x, h, f
      <3> QED BY <3>2, <3>3
    <2> QED BY <2>1, <2>2
  <1> HIDE DEF f, h
  <1>4. (c \o h) \o f = c \o (h \o f)
    <2>1. \A x, y, z \in Seq(Item) : (x \o y) \o z = x \o (y \o z)
      BY ConcatAssociative
    <2>2. h \in Seq(Item)
      BY <1>3
    <2> QED BY <1>1, <2>1, <2>2, Zenon
  <1> QED BY <1>2, <1>3, <1>4 DEF f, h

LEMMA ContentsInit == Init => Contents
PROOF
  <1> SUFFICES ASSUME Init PROVE Contents
    OBVIOUS
  <1>1. /\ disk = [n \in Inputs |-> Source] /\ phase = "idle" /\ run = 0
    BY DEF Init
  <1> QED BY <1>1 DEF Contents, AllPlaced, Growing, Complete, Finished

LEMMA PutPlaced ==
  ASSUME AllPlaced, NEW name, NEW c, NEW r \in Nat, Laid(c, r), disk' = Put(disk, name, c)
  PROVE  AllPlaced'
PROOF
  <1>1. DOMAIN disk' = DOMAIN disk \cup {name}
    BY DEF Put
  <1>2. \A n \in DOMAIN disk' : disk'[n] = IF n = name THEN c ELSE disk[n]
    BY DEF Put
  <1> SUFFICES ASSUME NEW n \in DOMAIN disk' PROVE disk'[n] = Source \/ \E q \in Nat : Laid(disk'[n], q)
    BY DEF AllPlaced
  <1>3. CASE n = name
    BY <1>2, <1>3
  <1>4. CASE n # name
    BY <1>1, <1>2, <1>4 DEF AllPlaced
  <1> QED BY <1>3, <1>4

LEMMA UnlinkPlaced ==
  ASSUME AllPlaced, NEW names, disk' = Unlink(disk, names)
  PROVE  AllPlaced'
PROOF
  <1>1. DOMAIN disk' = DOMAIN disk \ names /\ \A n \in DOMAIN disk' : disk'[n] = disk[n]
    BY DEF Unlink
  <1> SUFFICES ASSUME NEW n \in DOMAIN disk' PROVE disk'[n] = Source \/ \E q \in Nat : Laid(disk'[n], q)
    BY DEF AllPlaced
  <1> QED BY <1>1 DEF AllPlaced

LEMMA SamePlaced ==
  ASSUME AllPlaced, disk' = disk
  PROVE  AllPlaced'
BY DEF AllPlaced

\* Away from the appending and the success after it only the layout matters.
LEMMA Elsewhere ==
  ASSUME AllPlaced', phase' # "append", ~Finished' \/ faults' # {}
  PROVE  Contents'
BY DEF Contents, Growing, Complete

LEMMA CQuiet ==
  ASSUME Contents,
         \/ \E name \in Inputs : Invoke(name)
         \/ InvokeBare \/ ReadSource \/ ReadFails \/ ParseProgram \/ ParseFails \/ BeginProgram \/ CompileError
         \/ \E section \in AllSections \ {"bss"} : Generate(section)
  PROVE  Contents'
PROOF
  <1>1. disk' = disk /\ phase' # "append" /\ phase' # "report" /\ (phase' = "idle" => exit' = 1)
    BY DEF Invoke, InvokeBare, ReadSource, ReadFails, ParseProgram, ParseFails, BeginProgram, CompileError,
           Generate, At, Goto, ExitWith, GdsCreate, Write, gds
  <1>2. AllPlaced'
    BY <1>1, SamePlaced DEF Contents
  <1> QED BY <1>1, <1>2, Elsewhere DEF Finished

LEMMA CTemporary ==
  ASSUME Contents, CreateTemp \/ CreateFails \/ OutputFails
  PROVE  Contents'
PROOF
  <1>1. CASE CreateTemp
    <2>1. phase' = "create" /\ disk' = Put(disk, TempName(base, SectionNames[next]), <<>>)
      BY <1>1 DEF CreateTemp, At, OpenTemp
    <2>2. AllPlaced'
      BY <2>1, LaidEmpty, PutPlaced DEF Contents
    <2> QED BY <2>1, <2>2, Elsewhere DEF Finished
  <1>2. CASE CreateFails \/ OutputFails
    <2>1. /\ disk' = Unlink(disk, {TempName(base, s) : s \in opened})
          /\ \/ phase' = "idle" /\ exit' = 1
             \/ phase' = "report" /\ faults' = faults \cup {"final"}
      BY <1>2 DEF CreateFails, OutputFails, At, Goto, ExitWith, OpenTempFails, OpenFinalFails, GdsDestroy
    <2>2. AllPlaced'
      BY <2>1, UnlinkPlaced DEF Contents
    <2> QED BY <2>1, <2>2, Elsewhere DEF Finished
  <1> QED BY <1>1, <1>2

LEMMA COpenOutput ==
  ASSUME Contents, Books, OpenOutput
  PROVE  Contents'
PROOF
  <1>1. /\ phase' = "append" /\ next' = 1 /\ disk' = Put(disk, Output, <<>>) /\ UNCHANGED <<base, run>>
    BY DEF OpenOutput, At, Goto, OpenFinal, Output
  <1>2. AllPlaced'
    BY <1>1, LaidEmpty, PutPlaced DEF Contents
  <1>3. Output' = Output /\ Output \in DOMAIN disk' /\ disk'[Output] = <<>>
    <2>1. Output' = Output
      BY <1>1 DEF Output
    <2> HIDE DEF Output
    <2> QED BY <1>1, <2>1 DEF Put
  <1>4. Assembled(next)' = <<>>
    BY <1>1 DEF Assembled
  <1>5. Growing'
    BY <1>1, <1>3, <1>4, LaidEmpty DEF Growing
  <1> QED BY <1>1, <1>2, <1>5 DEF Contents, Complete, Finished

LEMMA AssembledSame ==
  ASSUME UNCHANGED files, NEW k
  PROVE  Assembled(k)' = Assembled(k)
BY DEF Assembled, Part

LEMMA CAppendNext ==
  ASSUME Contents, Books, Typed, AppendNext
  PROVE  Contents'
PROOF
  <1> DEFINE f == files[Pieces[next].file]
             gone == TempName(base, Pieces[next].name)
  <1>1. /\ phase = "append" /\ phase' = phase /\ next \in 1 .. 5 /\ next' = next + 1
        /\ UNCHANGED <<base, run, files>>
    BY PiecesAre DEF AppendNext, At, AppendSection, Typed
  <1>2. f \in Stream(Pieces[next].file, run) /\ f \in Seq(Item)
    <2>1. Pieces[next].file \in AllSections
      BY <1>1, FilesAre, PiecesAre, SectionFacts
    <2> QED BY <1>1, <2>1 DEF Books
  <1>3. PICK n \in 0 .. Len(f) :
          /\ disk' = Unlink(Put(disk, Output, disk[Output] \o HeaderOf(next, f) \o SubSeq(f, 1, n)), {gone})
          /\ faults' = IF n < Len(f) THEN faults \cup {"copy"} ELSE faults
    BY DEF AppendNext, AppendSection, Output, HeaderOf
  <1> DEFINE d == disk[Output] \o HeaderOf(next, f) \o SubSeq(f, 1, n)
  <1>4. Laid(disk[Output], run) /\ (next <= 2 => Ending(disk[Output]) = "text")
    BY <1>1 DEF Contents, Growing
  <1>5. Laid(d, run) /\ (next = 1 => Ending(d) = "text")
    <2> HIDE DEF f
    <2> QED BY <1>1, <1>2, <1>3, <1>4, LayPiece, RunNat
  <1>6. gone # Output
    BY <1>1, PieceFacts, PiecesAre, TempDistinct DEF Typed, Output
  <1>7. Output' = Output
    BY <1>1 DEF Output
  <1>8. faults' = {} => d = Assembled(next + 1)
    <2> SUFFICES ASSUME faults' = {} PROVE d = Assembled(next + 1)
      OBVIOUS
    <2>1. faults = {} /\ n = Len(f)
      <3>1. Len(f) \in Nat
        BY <1>2
      <3> QED BY <1>3, <3>1
    <2>2. disk[Output] = Assembled(next)
      BY <1>1, <2>1 DEF Contents, Growing
    <2>3. Assembled(next) \in Seq(Item) /\ Assembled(next + 1) = Assembled(next) \o Part(next)
      BY <1>1, AssembledStep
    <2>4. Assembled(next) \o HeaderOf(next, files[Pieces[next].file])
            \o SubSeq(files[Pieces[next].file], 1, Len(files[Pieces[next].file])) = Assembled(next) \o Part(next)
      BY <1>1, <2>3, WholePiece
    <2> QED BY <2>1, <2>2, <2>3, <2>4
  <1> HIDE DEF d, gone, f
  <1>9. disk' = Unlink(Put(disk, Output, d), {gone})
    BY <1>3 DEF d
  <1> HIDE DEF Output
  <1>10. /\ DOMAIN disk' = (DOMAIN disk \cup {Output}) \ {gone}
         /\ \A x \in DOMAIN disk' : disk'[x] = IF x = Output THEN d ELSE disk[x]
    BY <1>9 DEF Put, Unlink
  <1>11. AllPlaced'
    <2> SUFFICES ASSUME NEW x \in DOMAIN disk' PROVE disk'[x] = Source \/ \E q \in Nat : Laid(disk'[x], q)
      BY DEF AllPlaced
    <2>1. CASE x = Output
      BY <1>5, <1>10, <2>1, RunNat
    <2>2. CASE x # Output
      BY <1>10, <2>2 DEF Contents, AllPlaced
    <2> QED BY <2>1, <2>2
  <1>12. Output \in DOMAIN disk' /\ disk'[Output] = d
    BY <1>6, <1>10
  <1>13. faults' = {} => d = Assembled(next)'
    <2>1. Assembled(next)' = Assembled(next + 1)
      BY <1>1 DEF Assembled, Part
    <2> QED BY <1>8, <2>1
  <1>14. next' <= 2 => next = 1
    BY <1>1
  <1>15. Growing'
    <2>1. Laid(d, run') /\ Output' \in DOMAIN disk' /\ disk'[Output'] = d
      BY <1>1, <1>5, <1>7, <1>12
    <2> QED BY <1>5, <1>13, <1>14, <2>1 DEF Growing
  <1> QED BY <1>1, <1>11, <1>15 DEF Contents, Complete, Finished

LEMMA CSkipNext ==
  ASSUME Contents, Books, Typed, SkipNext
  PROVE  Contents'
PROOF
  <1> DEFINE gone == TempName(base, Pieces[next].name)
  <1>1. /\ phase = "append" /\ phase' = phase /\ next \in 1 .. 5 /\ next' = next + 1
        /\ disk' = Unlink(disk, {gone}) /\ faults' = faults \cup {"copy"}
        /\ UNCHANGED <<base, run, files>>
    BY PiecesAre DEF SkipNext, At, SkipSection, Typed
  <1>2. gone # Output
    BY <1>1, PieceFacts, PiecesAre, TempDistinct DEF Typed, Output
  <1>3. Output' = Output
    BY <1>1 DEF Output
  <1>4. AllPlaced'
    BY <1>1, UnlinkPlaced DEF Contents
  <1> HIDE DEF gone, Output
  <1>5. Output \in DOMAIN disk' /\ disk'[Output] = disk[Output]
    BY <1>1, <1>2 DEF Unlink, Contents, Growing
  <1>6. next' <= 2 => next <= 2
    BY <1>1
  <1>7. Growing'
    BY <1>1, <1>3, <1>5, <1>6 DEF Contents, Growing
  <1> QED BY <1>1, <1>4, <1>7 DEF Contents, Complete, Finished

LEMMA CLast ==
  ASSUME Contents, Books, CloseOutput \/ Report
  PROVE  Contents'
PROOF
  <1>1. UNCHANGED <<disk, files, base, next, faults, run>>
    BY DEF CloseOutput, Report, At, gds
  <1>2. Output' = Output /\ Assembled(6)' = Assembled(6)
    BY <1>1, AssembledSame DEF Output
  <1>3. AllPlaced'
    BY <1>1, SamePlaced DEF Contents
  <1>4. faults = {} => disk[Output] = Assembled(6)
    <2>1. CASE CloseOutput
      <3>1. phase = "append" /\ next = 6
        BY <2>1, PiecesAre DEF CloseOutput, At, Books
      <3> QED BY <3>1 DEF Contents, Growing
    <2>2. CASE Report
      <3>1. phase = "report"
        BY <2>2 DEF Report, At
      <3> QED BY <3>1 DEF Contents, Complete, Finished
    <2> QED BY <2>1, <2>2
  <1>5. phase' # "append"
    BY DEF CloseOutput, Report, Goto, ExitWith
  <1> QED BY <1>1, <1>2, <1>3, <1>4, <1>5 DEF Contents, Growing, Complete

LEMMA CNext == DInv /\ Books /\ Contents /\ [Next]_vars => Contents'
PROOF
  <1> SUFFICES ASSUME DInv, Books, Contents, [Next]_vars PROVE Contents'
    OBVIOUS
  <1>1. CASE UNCHANGED vars
    <2>1. UNCHANGED <<disk, files, base, next, faults, run, phase, exit>>
      BY <1>1 DEF vars, gds
    <2>2. Output' = Output /\ Assembled(6)' = Assembled(6) /\ Assembled(next)' = Assembled(next)
      BY <2>1 DEF Output, Assembled, Part
    <2> QED BY <2>1, <2>2 DEF Contents, AllPlaced, Growing, Complete, Finished
  <1>2. Typed
    BY DEF DInv
  <1>3. CASE Next
    BY <1>2, <1>3, CQuiet, CTemporary, COpenOutput, CAppendNext, CSkipNext, CLast DEF Next
  <1> QED BY <1>1, <1>3

-----------------------------------------------------------------------------
(* Theorems: outputs and leftovers *)

FInv == DInv /\ Books /\ Streams /\ Failures /\ InputsThere /\ Leftovers /\ Contents

\* The books, the disk and the output together are inductive.
THEOREM FilesInvariant == Spec => []FInv
PROOF
  <1>1. Init => FInv
    BY DInit, BInit, LeftoversInit, ContentsInit DEF FInv
  <1>2. FInv /\ [Next]_vars => FInv'
    BY DNext, BNext, LNext, CNext DEF FInv
  <1> QED BY <1>1, <1>2, PTL DEF Spec

\* Types, and whatever is compiled and whichever calls fail, no file disappears
\* but those named like temporary ones.
THEOREM DriverTypes == Spec => []TypeOK
PROOF
  <1>1. FInv => TypeOK
    <2> SUFFICES ASSUME FInv PROVE TypeOK
      OBVIOUS
    <2>1. DOMAIN files = AllSections
      BY DEF FInv, Books
    <2>2. next \in 0 .. Len(SectionNames) + 1
      BY SectionFacts DEF FInv, Books
    <2> QED BY <2>1, <2>2 DEF FInv, DInv, Typed, Books, Phases, InputsThere, TypeOK
  <1> QED BY <1>1, FilesInvariant, PTL

\* For any sources and any number of chunks: every output file, whole or cut short
\* by failures, has code in .text and data in its own section, of one compilation.
THEOREM SectionsStayInPlace == Spec => []SectionsInPlace
PROOF
  <1>1. FInv => SectionsInPlace
    <2> SUFFICES ASSUME FInv, NEW n \in DOMAIN disk, disk[n] # Source,
                        NEW i \in DOMAIN disk[n], ~IsHeader(disk[n][i])
                 PROVE  /\ SectionAt(disk[n], i) =
                             IF disk[n][i].chunk \in {"func", "text"} THEN "text" ELSE disk[n][i].chunk
                        /\ \A j \in DOMAIN disk[n] : ~IsHeader(disk[n][j]) => disk[n][j].of = disk[n][i].of
      BY DEF SectionsInPlace
    <2>1. PICK r \in Nat : Laid(disk[n], r)
      BY DEF FInv, Contents, AllPlaced
    <2>2. DOMAIN disk[n] = 1 .. Len(disk[n])
      BY <2>1 DEF Laid
    <2> QED BY <2>1, <2>2 DEF Laid, Home
  <1> QED BY <1>1, FilesInvariant, PTL

\* When no call has failed, a successful compilation leaves exactly the functions,
\* the code, the literals and the data it generated, however much that is.
THEOREM SuccessfulOutputWhole == Spec => []OutputWhole
PROOF
  <1>1. FInv => OutputWhole
    <2> SUFFICES ASSUME FInv, phase = "idle", run > 0, exit = 0, faults = {}
                 PROVE  /\ disk[Output] = WithHeader("text", files["func"]) \o files["text"]
                             \o WithHeader("rodata", files["rodata"]) \o WithHeader("data", files["data"])
                             \o WithHeader("bss", files["bss"])
                        /\ opened = {}
      BY DEF OutputWhole
    <2>1. opened = {} /\ disk[Output] = Assembled(6)
      BY DEF FInv, Streams, Contents, Complete, Finished
    <2>2. Assembled(6) = Part(1) \o Part(2) \o Part(3) \o Part(4) \o Part(5)
      BY DEF Assembled
    <2>3. /\ Part(1) = WithHeader("text", files["func"]) /\ Part(2) = files["text"]
          /\ Part(3) = WithHeader("rodata", files["rodata"]) /\ Part(4) = WithHeader("data", files["data"])
          /\ Part(5) = WithHeader("bss", files["bss"])
      BY PiecesAre DEF Part, Piece
    <2> QED BY <2>1, <2>2, <2>3
  <1> QED BY <1>1, FilesInvariant, PTL

\* A success leaves no temporary file but that of the functions, and a compilation
\* that could not make its temporary files leaves none of them.
THEOREM LeftoversFew == Spec => []FewLeftovers
PROOF
  <1>1. FInv => FewLeftovers
    <2> SUFFICES ASSUME FInv, phase = "idle", run > 0
                 PROVE  /\ exit = 0 => Temps(base) \cap DOMAIN disk \subseteq {TempName(base, "func")}
                        /\ exit = 1 /\ "temp" \in faults => DOMAIN disk \subseteq DOMAIN before
      BY DEF FewLeftovers
    <2>1. exit = 0 => \A s \in AllSections \ {"func"} : TempName(base, s) \notin DOMAIN disk
      BY DEF FInv, Leftovers, Finished
    <2>2. "temp" \in faults => DOMAIN disk \subseteq DOMAIN before
      BY DEF FInv, Leftovers
    <2> QED BY <2>1, <2>2 DEF Temps
  <1> QED BY <1>1, FilesInvariant, PTL
=============================================================================
